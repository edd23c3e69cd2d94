---------------------------- MODULE ProcessProofs ----------------------------
(***************************************************************************)
(* Theorems about the two processes that have loops and a shutdown: the one   *)
(* of shopflow-notifications (NotificationProcess), for every number of      *)
(* requests, orders and connections, and the one of shopflow-orders          *)
(* (OrdersProcess, here Shop), for every number of orders and requests,      *)
(* every backlog and every size of the batches.                             *)
(***************************************************************************)
EXTENDS NotificationProcess, SequenceTheorems, FiniteSetTheorems, TLAPS

(* A theorem is about one process at a time: the names that both modules      *)
(* declare stand for those of the process it is about.                       *)
CONSTANTS Requests, Refused, Recovery, Dispatcher, BatchSize, Backlog
VARIABLES saga, fresh, outbox, pending

Shop == INSTANCE OrdersProcess

-----------------------------------------------------------------------------
(* shopflow-notifications.                                                   *)

Steps == TxSteps \cup {"idle", "lock", "attempt", "return", "next", "unlock", "done"}

(* The part of TypeOK that the proof needs: only dispatches leave an unlock    *)
(* behind, so nothing but a step of its own moves the worker.                *)
PcTyped == pc \in [Procs -> Steps] /\ unlocking \subseteq Dispatches

(* The worker is the only one of its kind.                                   *)
LEMMA WorkerIsNoDispatch == Worker \in Procs /\ \A d \in Dispatches : d # Worker /\ d \in Procs
BY ProcessAssumption DEF Procs

LEMMA GoToTyped ==
    ASSUME PcTyped, NEW p \in Procs, NEW step \in Steps, GoTo(p, step)
    PROVE pc' \in [Procs -> Steps] /\ pc'[p] = step
          /\ \A q \in Procs : q # p => pc'[q] = pc[q]
BY DEF PcTyped, GoTo

(* An exception moves nobody but the one that meets it, and never one at rest.*)
LEMMA ThrowsTyped ==
    ASSUME PcTyped, NEW p \in Procs, NEW waiting, Throws(p, waiting)
    PROVE /\ pc' \in [Procs -> Steps]
          /\ \A q \in Procs : q # p => pc'[q] = pc[q]
          /\ pc[p] # "idle"
          /\ phase' \in {phase, "exited"}
<1> USE GoToTyped DEF Throws, Steps, TxSteps
<1>1. CASE pc[p] = "accepted" /\ GoTo(p, "failure") /\ UNCHANGED phase
  BY <1>1
<1>2. CASE pc[p] \in {"select", "lock"} /\ GoTo(p, IF p = Worker THEN "idle" ELSE "done")
           /\ UNCHANGED phase
  BY <1>2
<1>3. CASE pc[p] \in {"begin", "find", "reconciled", "failure"} /\ GoTo(p, "unlock")
           /\ UNCHANGED phase
  BY <1>3
<1>4. CASE pc[p] \in {"reconciled", "failure"} /\ GoTo(p, "done")
           /\ phase' \in {phase, "exited"}
  BY <1>4
<1> QED
  BY <1>1, <1>2, <1>3, <1>4

(* What a step does to the worker and to the phase of the process.           *)
LEMMA PassStep == PcTyped /\ PassFinished /\ [Next]_vars => PcTyped' /\ PassFinished'
<1> SUFFICES ASSUME PcTyped, PassFinished, [Next]_vars PROVE PcTyped' /\ PassFinished'
  OBVIOUS
<1> DEFINE Kept == pc' \in [Procs -> Steps] /\ unlocking' \subseteq Dispatches
<1>1. ASSUME Kept, phase' \in {phase, "exited"}, pc'[Worker] = pc[Worker] \/ pc[Worker] # "idle"
      PROVE PcTyped' /\ PassFinished'
  BY <1>1 DEF PcTyped, PassFinished
<1>2. CASE Grant \/ Stop \/ Close \/ Exit \/ (\E o \in Orders : SessionEnds(o)) \/ UNCHANGED vars
  BY <1>2 DEF Grant, Stop, Close, Exit, SessionEnds, vars, PcTyped, PassFinished
<1>3. CASE Tick
  BY <1>3, GoToTyped, WorkerIsNoDispatch
     DEF Tick, Connect, PcTyped, PassFinished, Steps, TxSteps
<1>4. CASE Selected \/ NextCandidate \/ Found
  <2>1. pc[Worker] # "idle" /\ UNCHANGED <<phase, unlocking>>
    BY <1>4 DEF Selected, NextCandidate, Found
  <2>2. \E step \in Steps : GoTo(Worker, step)
    BY <1>4 DEF Selected, NextCandidate, Found, Connect, Steps, TxSteps
  <2> QED
    BY <1>1, <2>1, <2>2, GoToTyped, WorkerIsNoDispatch DEF PcTyped
<1>5. ASSUME NEW p \in Procs, ConnectFails(p) \/ QueryFails(p) PROVE PcTyped' /\ PassFinished'
  <2>1. PICK waiting : Throws(p, waiting)
    BY <1>5 DEF ConnectFails, QueryFails
  <2>2. UNCHANGED unlocking
    BY <1>5 DEF ConnectFails, QueryFails
  <2> QED
    BY <1>1, <2>1, <2>2, ThrowsTyped, WorkerIsNoDispatch DEF PcTyped
<1>6. ASSUME NEW p \in Procs, Locked(p) \/ LockedAgain(p) \/ Attempted(p) \/ Recorded(p)
      PROVE PcTyped' /\ PassFinished'
  <2>1. pc[p] # "idle" /\ UNCHANGED <<phase, unlocking>>
    BY <1>6 DEF Locked, LockedAgain, TakeLock, Attempted, Recorded
  <2>2. \E step \in Steps : GoTo(p, step)
    BY <1>6 DEF Locked, LockedAgain, TakeLock, Attempted, Recorded, Connect, Steps, TxSteps
  <2> QED
    BY <1>1, <2>1, <2>2, GoToTyped, WorkerIsNoDispatch DEF PcTyped
<1>7. ASSUME NEW p \in Procs, Unlocked(p) PROVE PcTyped' /\ PassFinished'
  <2>1. pc' \in [Procs -> Steps]
    BY <1>7 DEF Unlocked, PcTyped, Steps
  <2>2. pc'[Worker] = pc[Worker] \/ pc[Worker] # "idle"
    BY <1>7, WorkerIsNoDispatch DEF Unlocked, PcTyped
  <2>3. UNCHANGED phase /\ unlocking' \subseteq Dispatches
    BY <1>7 DEF Unlocked, PcTyped
  <2> QED
    BY <1>1, <2>1, <2>2, <2>3
<1>8. ASSUME NEW d \in Dispatches, Receive(d) \/ Begun(d) \/ Return(d)
      PROVE PcTyped' /\ PassFinished'
  <2>1. UNCHANGED phase /\ unlocking' \subseteq Dispatches
    BY <1>8 DEF Receive, Begun, Return, PcTyped
  <2>2. \E step \in Steps : GoTo(d, step)
    BY <1>8 DEF Receive, Begun, Return, Connect, Steps, TxSteps
  <2> QED
    BY <1>1, <2>1, <2>2, GoToTyped, WorkerIsNoDispatch
<1> QED
  BY <1>2, <1>3, <1>4, <1>5, <1>6, <1>7, <1>8 DEF Next

(* A shutdown never takes the pool from under a pass of the worker.          *)
THEOREM PassesFinish == Spec => []PassFinished
<1>1. Init => PcTyped /\ PassFinished
  BY DEF Init, PcTyped, PassFinished, Steps
<1> QED
  BY <1>1, PassStep, PTL DEF Spec
(* The queue of the pool: who joins it, is served or gives up waiting.       *)
LEMMA JoinQueue ==
    ASSUME NEW S, NEW q \in Seq(S), IsInjective(q), NEW p \in S, p \notin ToSet(q)
    PROVE  /\ Append(q, p) \in Seq(S) /\ IsInjective(Append(q, p))
           /\ ToSet(Append(q, p)) = ToSet(q) \cup {p}
<1> DEFINE r == Append(q, p)
<1>1. r \in Seq(S) /\ Len(q) \in Nat /\ Len(r) = Len(q) + 1 /\ r[Len(q) + 1] = p
  OBVIOUS
<1>2. \A i \in 1..Len(q) : r[i] = q[i]
  OBVIOUS
<1>3. DOMAIN q = 1..Len(q) /\ DOMAIN r = 1..Len(r)
  BY <1>1
<1>4. \A i \in 1..Len(r) : i = Len(q) + 1 \/ i \in 1..Len(q)
  BY <1>1
<1> HIDE DEF r
<1>5. ASSUME NEW i \in 1..Len(q) PROVE q[i] # p /\ i \in 1..Len(r)
  BY <1>1, <1>3, <1>5 DEF ToSet
<1>6. IsInjective(r)
  BY <1>2, <1>3, <1>4, <1>1, <1>5 DEF IsInjective
<1>7. \A x : x \in ToSet(r) <=> x \in ToSet(q) \/ x = p
  <2>1. Len(q) + 1 \in 1..Len(r)
    BY <1>1
  <2> QED
    BY <1>1, <1>2, <1>3, <1>4, <1>5, <2>1 DEF ToSet
<1> QED
  BY <1>1, <1>6, <1>7 DEF r

LEMMA LeaveQueueAtHead ==
    ASSUME NEW S, NEW q \in Seq(S), IsInjective(q), q # <<>>
    PROVE  /\ Head(q) \in ToSet(q)
           /\ Tail(q) \in Seq(S) /\ IsInjective(Tail(q))
           /\ ToSet(Tail(q)) = ToSet(q) \ {Head(q)}
<1> DEFINE r == Tail(q)
<1>1. r \in Seq(S) /\ Len(q) \in Nat /\ Len(q) >= 1 /\ Len(r) = Len(q) - 1 /\ Head(q) = q[1]
  OBVIOUS
<1>2. \A i \in 1..Len(r) : r[i] = q[i + 1]
  OBVIOUS
<1>3. DOMAIN q = 1..Len(q) /\ DOMAIN r = 1..Len(r)
  BY <1>1
<1> HIDE DEF r
<1>4. \A i \in 1..Len(r) : i + 1 \in 1..Len(q) /\ i + 1 # 1
  BY <1>1
<1>5. \A j \in 1..Len(q) : j = 1 \/ (j - 1 \in 1..Len(r) /\ (j - 1) + 1 = j)
  BY <1>1
<1>6. 1 \in 1..Len(q)
  BY <1>1
<1>7. IsInjective(r)
  <2> SUFFICES ASSUME NEW i \in 1..Len(r), NEW j \in 1..Len(r), r[i] = r[j] PROVE i = j
    BY <1>3 DEF IsInjective
  <2>1. q[i + 1] = q[j + 1]
    BY <1>2
  <2>2. i + 1 = j + 1
    BY <1>3, <1>4, <2>1 DEF IsInjective
  <2> QED
    BY <2>2
<1>8. \A x : x \in ToSet(r) => x \in ToSet(q) /\ x # q[1]
  BY <1>2, <1>3, <1>4, <1>6 DEF ToSet, IsInjective
<1>9. \A x : x \in ToSet(q) /\ x # q[1] => x \in ToSet(r)
  <2> SUFFICES ASSUME NEW x \in ToSet(q), x # q[1] PROVE x \in ToSet(r)
    OBVIOUS
  <2>1. PICK j \in 1..Len(q) : q[j] = x
    BY <1>3 DEF ToSet
  <2>2. j - 1 \in 1..Len(r) /\ r[j - 1] = q[j]
    BY <1>2, <1>5, <2>1
  <2> QED
    BY <1>3, <2>1, <2>2 DEF ToSet
<1>10. q[1] \in ToSet(q)
  BY <1>3, <1>6 DEF ToSet
<1> QED
  BY <1>1, <1>7, <1>8, <1>9, <1>10 DEF r

LEMMA RemoveAtIs ==
    ASSUME NEW S, NEW q \in Seq(S), NEW i \in DOMAIN q
    PROVE  LET r == RemoveAt(q, i)
           IN  /\ r \in Seq(S) /\ Len(r) = Len(q) - 1 /\ DOMAIN r = 1..(Len(q) - 1)
               /\ \A j \in 1..(Len(q) - 1) : r[j] = IF j < i THEN q[j] ELSE q[j + 1]
<1> DEFINE r == RemoveAt(q, i)
<1>1. Len(q) \in Nat /\ DOMAIN q = 1..Len(q) /\ i \in 1..Len(q)
  OBVIOUS
<1> DEFINE before == SubSeq(q, 1, i - 1)
           after == SubSeq(q, i + 1, Len(q))
<1>2. /\ before \in Seq(S) /\ Len(before) = i - 1
      /\ \A j \in 1..(i - 1) : before[j] = q[j]
  BY <1>1
<1>3. /\ after \in Seq(S) /\ Len(after) = Len(q) - i
      /\ \A j \in 1..(Len(q) - i) : after[j] = q[j + i]
  BY <1>1
<1>a. r = before \o after
  BY DEF RemoveAt
<1> HIDE DEF before, after, r
<1>b. /\ r \in Seq(S) /\ Len(r) = Len(before) + Len(after)
      /\ \A j \in 1..(Len(before) + Len(after)) :
            r[j] = IF j <= Len(before) THEN before[j] ELSE after[j - Len(before)]
  BY <1>2, <1>3, <1>a, ConcatProperties
<1>4. r \in Seq(S) /\ Len(r) = Len(q) - 1 /\ DOMAIN r = 1..Len(r)
  BY <1>1, <1>2, <1>3, <1>b
<1>5. \A j \in 1..Len(r) : r[j] = IF j < i THEN q[j] ELSE q[j + 1]
  <2> SUFFICES ASSUME NEW j \in 1..Len(r) PROVE r[j] = IF j < i THEN q[j] ELSE q[j + 1]
    OBVIOUS
  <2>1. r[j] = IF j <= Len(before) THEN before[j] ELSE after[j - Len(before)]
    BY <1>4, <1>b
  <2>2. CASE j < i
    BY <1>1, <1>2, <1>4, <2>1, <2>2
  <2>3. CASE ~(j < i)
    <3>1. j - (i - 1) \in 1..(Len(q) - i) /\ (j - (i - 1)) + i = j + 1 /\ ~(j <= Len(before))
      BY <1>1, <1>2, <1>4, <2>3
    <3> QED
      BY <1>2, <1>3, <2>1, <2>3, <3>1
  <2> QED
    BY <2>2, <2>3
<1> QED
  BY <1>1, <1>4, <1>5 DEF r

LEMMA LeaveQueue ==
    ASSUME NEW S, NEW q \in Seq(S), IsInjective(q), NEW i \in DOMAIN q
    PROVE  /\ RemoveAt(q, i) \in Seq(S) /\ IsInjective(RemoveAt(q, i))
           /\ ToSet(RemoveAt(q, i)) = ToSet(q) \ {q[i]}
<1> DEFINE r == RemoveAt(q, i)
<1>1. Len(q) \in Nat /\ DOMAIN q = 1..Len(q) /\ i \in 1..Len(q)
  OBVIOUS
<1>2. /\ r \in Seq(S) /\ Len(r) = Len(q) - 1 /\ DOMAIN r = 1..(Len(q) - 1)
      /\ \A j \in 1..(Len(q) - 1) : r[j] = IF j < i THEN q[j] ELSE q[j + 1]
  BY RemoveAtIs
<1> HIDE DEF r
<1>4. r \in Seq(S) /\ Len(r) = Len(q) - 1 /\ DOMAIN r = 1..Len(r)
  BY <1>1, <1>2
<1>5. \A j \in 1..Len(r) : r[j] = IF j < i THEN q[j] ELSE q[j + 1]
  BY <1>2, <1>4
<1>6. \A j \in 1..Len(r) : /\ j < i => j \in 1..Len(q) /\ j # i
                           /\ ~(j < i) => j + 1 \in 1..Len(q) /\ j + 1 # i
  BY <1>1, <1>4
<1>7. \A j \in 1..Len(q) : \/ j = i
                           \/ j < i /\ j \in 1..Len(r)
                           \/ ~(j - 1 < i) /\ j - 1 \in 1..Len(r) /\ (j - 1) + 1 = j
  BY <1>1, <1>4
<1>8. IsInjective(r)
  <2> SUFFICES ASSUME NEW a \in 1..Len(r), NEW b \in 1..Len(r), r[a] = r[b] PROVE a = b
    BY <1>4 DEF IsInjective
  <2> DEFINE at(j) == IF j < i THEN j ELSE j + 1
  <2>1. q[at(a)] = q[at(b)] /\ at(a) \in 1..Len(q) /\ at(b) \in 1..Len(q)
    BY <1>5, <1>6
  <2>2. at(a) = at(b)
    <3> HIDE DEF at
    <3> QED
      BY <1>1, <2>1 DEF IsInjective
  <2> QED
    BY <1>1, <2>2
<1>9. \A x : x \in ToSet(r) => x \in ToSet(q) /\ x # q[i]
  <2> SUFFICES ASSUME NEW j \in 1..Len(r) PROVE r[j] \in ToSet(q) /\ r[j] # q[i]
    BY <1>4 DEF ToSet
  <2>1. PICK k \in 1..Len(q) : r[j] = q[k] /\ k # i
    BY <1>5, <1>6
  <2> QED
    BY <1>1, <2>1 DEF ToSet, IsInjective
<1>10. ASSUME NEW x \in ToSet(q), x # q[i] PROVE x \in ToSet(r)
  <2>1. PICK j \in 1..Len(q) : q[j] = x
    BY <1>1 DEF ToSet
  <2>2. j # i
    BY <1>10, <2>1
  <2>3. CASE j < i /\ j \in 1..Len(r)
    BY <1>4, <1>5, <2>1, <2>3 DEF ToSet
  <2>4. CASE ~(j - 1 < i) /\ j - 1 \in 1..Len(r) /\ (j - 1) + 1 = j
    <3>1. r[j - 1] = x
      BY <1>5, <2>1, <2>4
    <3> QED
      BY <1>4, <2>4, <3>1 DEF ToSet
  <2> QED
    BY <1>7, <2>1, <2>2, <2>3, <2>4
<1> QED
  BY <1>4, <1>8, <1>9, <1>10 DEF r

-----------------------------------------------------------------------------
(* Clients and locks.                                                        *)

Attempting == {"attempt", "reconciled", "accepted", "failure"}

(* From the acquisition of the lock to its release. For a request, the finally *)
(* block runs beside the attempt.                                            *)
InSection(p) ==
    \/ pc[p] \in {"begin", "find", "unlock"}
    \/ p \in unlocking
    \/ p = Worker /\ pc[p] \in Attempting

Waiting(p) == p \in ToSet(queue)

(* What one of Procs has agrees with where it is.                            *)
Consistent(p) ==
    /\ pc[p] = "lock" => order[p] \in Orders
    /\ Waiting(p) => pc[p] \in TxSteps \cup {"lock"}
    /\ p \in unlocking =>
          pc[p] \in Attempting \cup {"return"} \/ (pc[p] = "done" /\ phase = "exited")
    /\ InSection(p) => order[p] \in Orders /\ lock[order[p]] = p /\ <<p, "lock">> \in clients
    /\ \A o \in Orders : lock[o] = p => InSection(p) /\ order[p] = o
    /\ <<p, "lock">> \in clients => InSection(p) \/ (pc[p] = "lock" /\ ~Waiting(p))
    /\ <<p, "tx">> \in clients => pc[p] \in TxSteps /\ ~Waiting(p)
    /\ pc[p] \in TxSteps => Waiting(p) \/ <<p, "tx">> \in clients
    /\ pc[p] = "lock" => Waiting(p) \/ <<p, "lock">> \in clients

(* TypeOK without the size of the pool.                                      *)
Typed ==
    /\ PcTyped
    /\ order \in [Procs -> Orders \cup {Nobody}]
    /\ batch \subseteq Orders
    /\ queue \in Seq(Procs) /\ IsInjective(queue)
    /\ lock \in [Orders -> Procs \cup {Nobody, Stray}]

(* NothingKept is not inductive: that an answered request has nothing left     *)
(* follows from what it had at each of its steps before.                     *)
KInv == Typed /\ \A p \in Procs : Consistent(p)

LEMMA ConsistentKeepsNothing == KInv => NothingKept
<1> SUFFICES ASSUME KInv PROVE NothingKept
  OBVIOUS
<1>1. ASSUME NEW p \in Procs,
             pc[p] \in {"idle", "next"} \/ (pc[p] = "done" /\ phase # "exited")
      PROVE <<p, "lock">> \notin clients /\ <<p, "tx">> \notin clients
  <2>1. Consistent(p)
    BY DEF KInv
  <2>2. ~InSection(p) /\ pc[p] \notin TxSteps \cup {"lock"}
    BY <1>1, <2>1 DEF Consistent, InSection, Attempting, TxSteps
  <2> QED
    BY <2>1, <2>2 DEF Consistent
<1>2. ASSUME NEW o \in Orders, lock[o] \notin {Nobody, Stray}
      PROVE <<lock[o], "lock">> \in clients /\ order[lock[o]] = o
  <2>1. lock[o] \in Procs
    BY <1>2 DEF KInv, Typed
  <2>2. Consistent(lock[o])
    BY <2>1 DEF KInv
  <2> QED
    BY <2>2 DEF Consistent
<1> QED
  BY <1>1, <1>2 DEF NothingKept

(* A step of another leaves q as it is.                                      *)
Untouched(q) ==
    /\ pc'[q] = pc[q] /\ order'[q] = order[q]
    /\ q \in unlocking' <=> q \in unlocking
    /\ Waiting(q)' <=> Waiting(q)
    /\ \A role \in {"lock", "tx"} : <<q, role>> \in clients' <=> <<q, role>> \in clients
    /\ \A o \in Orders : lock'[o] = q <=> lock[o] = q

LEMMA UntouchedConsistent ==
    ASSUME NEW q \in Procs, Consistent(q), Untouched(q), phase = "exited" => phase' = "exited"
    PROVE Consistent(q)'
BY DEF Consistent, Untouched, InSection

LEMMA ByOne ==
    ASSUME KInv, Typed', NEW p \in Procs, Consistent(p)',
           \A q \in Procs : q # p => Untouched(q), phase = "exited" => phase' = "exited"
    PROVE KInv'
<1>1. \A q \in Procs : q # p => Consistent(q)'
  BY UntouchedConsistent DEF KInv
<1> QED
  BY <1>1 DEF KInv

(* A wait for a client begins.                                               *)
LEMMA ConnectStep ==
    ASSUME Typed, NEW p \in Procs, NEW step \in Steps, ~Waiting(p), Connect(p, step)
    PROVE  /\ pc' \in [Procs -> Steps] /\ pc'[p] = step
           /\ \A q \in Procs : q # p => pc'[q] = pc[q]
           /\ queue' \in Seq(Procs) /\ IsInjective(queue')
           /\ \A q : Waiting(q)' <=> Waiting(q) \/ q = p
<1>1. GoTo(p, step) /\ queue' = Append(queue, p)
  BY DEF Connect
<1>2. queue' \in Seq(Procs) /\ IsInjective(queue') /\ ToSet(queue') = ToSet(queue) \cup {p}
  BY <1>1, JoinQueue DEF Typed, Waiting
<1> QED
  BY <1>1, <1>2, GoToTyped DEF Typed, Waiting

(* What an exception does to the one that meets it.                          *)
Thrown(p) ==
    \/ pc[p] = "accepted" /\ pc'[p] = "failure" /\ Waiting(p)' /\ phase' = phase
    \/ /\ ~Waiting(p)'
       /\ \/ pc[p] \in {"select", "lock"} /\ pc'[p] \in {"idle", "done"} /\ phase' = phase
          \/ /\ pc[p] \in {"begin", "find"} \/ (p = Worker /\ pc[p] \in {"reconciled", "failure"})
             /\ pc'[p] = "unlock" /\ phase' = phase
          \/ /\ p # Worker /\ pc[p] \in {"reconciled", "failure"}
             /\ pc'[p] = "done"
             /\ phase' = IF p \in unlocking THEN "exited" ELSE phase

LEMMA ThrowsStep ==
    ASSUME Typed, NEW p \in Procs, NEW waiting \in Seq(Procs), IsInjective(waiting),
           ToSet(waiting) = ToSet(queue) \ {p}, Throws(p, waiting)
    PROVE  /\ pc' \in [Procs -> Steps]
           /\ \A q \in Procs : q # p => pc'[q] = pc[q] /\ (Waiting(q)' <=> Waiting(q))
           /\ queue' \in Seq(Procs) /\ IsInjective(queue')
           /\ batch' \subseteq Orders
           /\ Thrown(p)
<1>1. pc' \in [Procs -> Steps] /\ \A q \in Procs : q # p => pc'[q] = pc[q]
  BY ThrowsTyped DEF Typed
<1>2. batch' \subseteq Orders
  BY DEF Throws, Typed
<1>3. CASE pc[p] = "accepted" /\ GoTo(p, "failure") /\ queue' = Append(waiting, p)
           /\ UNCHANGED <<batch, phase>>
  <2>1. /\ queue' \in Seq(Procs) /\ IsInjective(queue')
        /\ ToSet(queue') = ToSet(waiting) \cup {p}
    BY <1>3, JoinQueue
  <2>2. pc'[p] = "failure"
    BY <1>3, GoToTyped DEF Typed, Steps, TxSteps
  <2> QED
    BY <1>1, <1>2, <1>3, <2>1, <2>2 DEF Thrown, Waiting
<1>4. CASE queue' = waiting
  <2>1. /\ queue' \in Seq(Procs) /\ IsInjective(queue')
        /\ \A q \in Procs : q # p => (Waiting(q)' <=> Waiting(q))
        /\ ~Waiting(p)'
    BY <1>4 DEF Waiting
  <2>2. DOMAIN pc = Procs
    BY DEF Typed, PcTyped
  <2>3. \A step : GoTo(p, step) => pc'[p] = step
    BY <2>2 DEF GoTo
  <2>4. CASE pc[p] = "accepted" /\ queue' = Append(waiting, p)
    BY <1>4, <2>1, <2>4, JoinQueue DEF Waiting
  <2>5. ~(pc[p] = "accepted" /\ queue' = Append(waiting, p)) => Thrown(p)
    BY <2>1, <2>3 DEF Throws, Thrown
  <2> QED
    BY <1>1, <1>2, <2>1, <2>4, <2>5
<1> QED
  BY <1>3, <1>4 DEF Throws

(* What fails gives its client back, if it had one.                          *)
LEMMA FailStep ==
    ASSUME KInv, phase # "exited", NEW p \in Procs, ConnectFails(p) \/ QueryFails(p)
    PROVE  KInv'
<1>1. Typed /\ Consistent(p)
  BY DEF KInv
<1> DEFINE Lost == /\ <<p, "tx">> \notin clients'
                   /\ pc[p] = "lock" => <<p, "lock">> \notin clients'
                   /\ pc[p] # "lock" => (<<p, "lock">> \in clients' <=> <<p, "lock">> \in clients)
                   /\ \A q \in Procs : q # p =>
                        \A role \in {"lock", "tx"} :
                            <<q, role>> \in clients' <=> <<q, role>> \in clients
<1>2. PICK waiting \in Seq(Procs) :
        /\ IsInjective(waiting) /\ ToSet(waiting) = ToSet(queue) \ {p}
        /\ Throws(p, waiting)
  <2>1. CASE ConnectFails(p)
    <3>1. PICK i \in DOMAIN queue : queue[i] = p /\ Throws(p, RemoveAt(queue, i))
      BY <2>1 DEF ConnectFails
    <3>2. /\ RemoveAt(queue, i) \in Seq(Procs) /\ IsInjective(RemoveAt(queue, i))
          /\ ToSet(RemoveAt(queue, i)) = ToSet(queue) \ {p}
      BY <1>1, <3>1, LeaveQueue DEF Typed
    <3> QED
      BY <3>1, <3>2
  <2>2. CASE QueryFails(p)
    <3>1. Throws(p, queue) /\ p \notin ToSet(queue)
      BY <2>2 DEF QueryFails, Holds
    <3>2. ToSet(queue) = ToSet(queue) \ {p}
      BY <3>1
    <3> QED
      BY <1>1, <3>1, <3>2 DEF Typed
  <2> QED
    BY <2>1, <2>2
<1>3. /\ pc' \in [Procs -> Steps]
      /\ \A q \in Procs : q # p => pc'[q] = pc[q] /\ (Waiting(q)' <=> Waiting(q))
      /\ queue' \in Seq(Procs) /\ IsInjective(queue')
      /\ batch' \subseteq Orders
      /\ Thrown(p)
  BY <1>1, <1>2, ThrowsStep
<1>4. Lost
  <2>1. CASE ConnectFails(p)
    <3>1. Waiting(p)
      BY <2>1 DEF ConnectFails, Waiting, ToSet
    <3>2. p \in unlocking => pc[p] # "lock"
      BY <1>1 DEF Consistent, Attempting
    <3>3. pc[p] = "lock" => ~InSection(p)
      BY <3>2 DEF InSection, Attempting
    <3> QED
      BY <1>1, <2>1, <3>1, <3>3 DEF Consistent, ConnectFails
  <2>2. CASE QueryFails(p)
    <3>1. pc[p] \in TxSteps \cup {"lock"} /\ clients' = clients \ {<<p, Role(pc[p])>>}
      BY <2>2 DEF QueryFails, GiveBack
    <3>2. pc[p] = "lock" => <<p, "tx">> \notin clients
      BY <1>1 DEF Consistent, TxSteps
    <3> QED
      BY <3>1, <3>2 DEF Role
  <2> QED
    BY <2>1, <2>2
<1>5. UNCHANGED <<lock, unlocking>>
  BY DEF ConnectFails, QueryFails
<1>6. IF pc[p] = "lock" THEN Forget(p) ELSE UNCHANGED order
  BY DEF ConnectFails, QueryFails
<1>7. Typed'
  <2>1. order' \in [Procs -> Orders \cup {Nobody}]
    BY <1>1, <1>6 DEF Typed, Forget
  <2> QED
    BY <1>1, <1>3, <1>5, <2>1 DEF Typed, PcTyped
<1>8. ASSUME NEW q \in Procs, q # p PROVE Untouched(q)
  <2>1. order'[q] = order[q]
    BY <1>1, <1>6, <1>8 DEF Typed, Forget
  <2> QED
    BY <1>3, <1>4, <1>5, <1>8, <2>1 DEF Untouched
<1>9. phase' \in {phase, "exited"}
  BY <1>3 DEF Thrown
<1>10. Consistent(p)'
  <2>1. pc[p] \in TxSteps \cup {"lock"} /\ pc'[p] \notin {"lock"}
    BY <1>3 DEF Thrown, TxSteps
  <2>2. Waiting(p)' => pc'[p] \in TxSteps
    BY <1>3 DEF Thrown, TxSteps
  <2>3. p \in unlocking => p # Worker
    BY <1>1, WorkerIsNoDispatch DEF Typed, PcTyped
  <2>4. p \in unlocking' => pc'[p] \in Attempting \cup {"return"}
                            \/ (pc'[p] = "done" /\ phase' = "exited")
    BY <1>1, <1>3, <1>5, <2>3 DEF Thrown, Consistent, Attempting
  <2>5. CASE pc[p] = "lock"
    <3>1. p \notin unlocking /\ ~InSection(p)
      BY <1>1, <2>5 DEF Consistent, Attempting, InSection
    <3>2. pc'[p] \in {"idle", "done"} /\ ~InSection(p)'
      BY <1>3, <1>5, <2>5, <3>1 DEF Thrown, InSection, Attempting
    <3> QED
      BY <1>1, <1>4, <1>5, <2>1, <2>2, <2>4, <2>5, <3>1, <3>2
         DEF Consistent, TxSteps
  <2>6. CASE pc[p] # "lock"
    <3>1. InSection(p)' <=> InSection(p)
      BY <1>1, <1>3, <1>5, <2>3, <2>6 DEF Thrown, InSection, Attempting, Consistent
    <3>2. order' = order
      BY <1>6, <2>6
    <3>3. pc'[p] \in TxSteps => Waiting(p)'
      BY <1>3, <2>6 DEF Thrown, TxSteps
    <3> QED
      BY <1>1, <1>4, <1>5, <2>1, <2>2, <2>4, <2>6, <3>1, <3>2, <3>3 DEF Consistent
  <2> QED
    BY <2>5, <2>6
<1> QED
  BY <1>7, <1>8, <1>9, <1>10, ByOne

LEMMA GrantStep == ASSUME KInv, Grant PROVE KInv'
<1>0. PICK p \in Procs : p = Head(queue)
  BY DEF KInv, Typed, Grant
<1>1. /\ Waiting(p) /\ Typed /\ Consistent(p)
      /\ queue' \in Seq(Procs) /\ IsInjective(queue')
      /\ ToSet(queue') = ToSet(queue) \ {p}
  <2>1. queue \in Seq(Procs) /\ IsInjective(queue) /\ queue # <<>> /\ queue' = Tail(queue)
    BY DEF KInv, Typed, Grant
  <2> QED
    BY <1>0, <2>1, LeaveQueueAtHead DEF KInv, Waiting
<1>2. /\ UNCHANGED <<pc, order, batch, lock, unlocking, phase>>
      /\ clients' = clients \cup {<<p, Role(pc[p])>>}
  BY <1>0 DEF Grant
<1>3. Typed'
  BY <1>1, <1>2 DEF Typed, PcTyped
<1>4. ASSUME NEW q \in Procs, q # p PROVE Untouched(q)
  BY <1>1, <1>2, <1>4 DEF Untouched, Waiting
<1>5. Consistent(p)'
  <2>1. ~Waiting(p)' /\ pc[p] \in TxSteps \cup {"lock"}
    BY <1>1 DEF Waiting, Consistent
  <2>2. InSection(p)' <=> InSection(p)
    BY <1>2 DEF InSection
  <2>3. CASE pc[p] = "lock"
    <3>1. clients' = clients \cup {<<p, "lock">>}
      BY <1>2, <2>3 DEF Role
    <3> QED
      BY <1>1, <1>2, <2>1, <2>2, <2>3, <3>1 DEF Consistent, TxSteps
  <2>4. CASE pc[p] # "lock"
    <3>1. clients' = clients \cup {<<p, "tx">>}
      BY <1>2, <2>4 DEF Role
    <3> QED
      BY <1>1, <1>2, <2>1, <2>2, <2>4, <3>1 DEF Consistent
  <2> QED
    BY <2>3, <2>4
<1> QED
  BY <1>1, <1>2, <1>3, <1>4, <1>5, ByOne

(* pg_advisory_lock returns, to a new session or to the one that kept the lock.*)
LEMMA LockedStep == ASSUME KInv, NEW p \in Procs, Locked(p) \/ LockedAgain(p) PROVE KInv'
<1> DEFINE step == IF p = Worker THEN "find" ELSE "begin"
           o == order[p]
<1>1. Typed /\ Consistent(p) /\ ~Waiting(p) /\ pc[p] = "lock" /\ <<p, "lock">> \in clients
  BY DEF KInv, Locked, LockedAgain, TakeLock, Holds, Role, Waiting
<1>2. o \in Orders /\ lock[o] \in {Nobody, Stray} /\ lock' = [lock EXCEPT ![o] = p]
  BY <1>1 DEF Locked, LockedAgain, TakeLock, Consistent
<1>3. Connect(p, step) /\ step \in Steps /\ UNCHANGED <<order, batch, clients, unlocking, phase>>
  BY DEF Locked, LockedAgain, TakeLock, Steps, TxSteps
<1>4. /\ pc' \in [Procs -> Steps] /\ pc'[p] = step
      /\ \A q \in Procs : q # p => pc'[q] = pc[q]
      /\ queue' \in Seq(Procs) /\ IsInjective(queue')
      /\ \A q : Waiting(q)' <=> Waiting(q) \/ q = p
  <2> HIDE DEF step
  <2> QED
    BY <1>1, <1>3, ConnectStep
<1> HIDE DEF o
<1>5. lock'[o] = p /\ \A r \in Orders : r # o => lock'[r] = lock[r]
  BY <1>1, <1>2 DEF Typed
<1>6. Nobody \notin Procs /\ Stray \notin Procs
  BY ProcessAssumption
<1>7. Typed'
  BY <1>1, <1>2, <1>3, <1>4 DEF Typed, PcTyped
<1>8. ASSUME NEW q \in Procs, q # p PROVE Untouched(q)
  <2>1. \A r \in Orders : lock'[r] = q <=> lock[r] = q
    BY <1>2, <1>5, <1>6, <1>8
  <2> QED
    BY <1>3, <1>4, <1>8, <2>1 DEF Untouched
<1>9. Consistent(p)'
  <2>1. p \notin unlocking /\ ~InSection(p)
    BY <1>1 DEF Consistent, InSection, Attempting
  <2>2. InSection(p)' /\ pc'[p] \in TxSteps
    BY <1>4 DEF InSection, TxSteps
  <2>3. \A r \in Orders : lock'[r] = p <=> r = o
    BY <1>1, <1>5, <2>1 DEF Consistent
  <2>4. order'[p] = o
    BY <1>3 DEF o
  <2>5. <<p, "tx">> \notin clients
    BY <1>1 DEF Consistent, TxSteps
  <2> QED
    BY <1>1, <1>2, <1>3, <1>4, <2>1, <2>2, <2>3, <2>4, <2>5 DEF Consistent, TxSteps
<1> QED
  BY <1>3, <1>7, <1>8, <1>9, ByOne

(* The finally block gives the client back, and the lock unless that fails.   *)
LEMMA UnlockedStep == ASSUME KInv, phase # "exited", NEW p \in Procs, Unlocked(p) PROVE KInv'
<1> DEFINE o == order[p]
<1>1. Typed /\ Consistent(p) /\ InSection(p)
  BY DEF KInv, Unlocked, InSection
<1>0. PICK kept \in {Nobody, Stray} : lock' = [lock EXCEPT ![o] = kept]
  BY DEF Unlocked
<1>2. /\ o \in Orders /\ lock[o] = p
      /\ \A r \in Orders : lock[r] = p => r = o
  BY <1>1 DEF Consistent
<1>3. /\ UNCHANGED <<batch, queue, phase>> /\ Forget(p)
      /\ clients' = clients \ {<<p, "lock">>}
      /\ unlocking' = unlocking \ {p}
      /\ pc' = IF pc[p] # "unlock" THEN pc
               ELSE [pc EXCEPT ![p] = IF p = Worker THEN "next" ELSE "done"]
  BY DEF Unlocked
<1> HIDE DEF o
<1>4. /\ pc' \in [Procs -> Steps]
      /\ \A q \in Procs : q # p => pc'[q] = pc[q]
      /\ pc'[p] = IF pc[p] # "unlock" THEN pc[p] ELSE IF p = Worker THEN "next" ELSE "done"
  BY <1>1, <1>3 DEF Typed, PcTyped, Steps
<1>5. kept \notin Procs
  BY ProcessAssumption
<1>6. lock'[o] = kept /\ \A r \in Orders : r # o => lock'[r] = lock[r]
  BY <1>0, <1>1, <1>2 DEF Typed
<1>7. order' \in [Procs -> Orders \cup {Nobody}] /\ \A q \in Procs : q # p => order'[q] = order[q]
  BY <1>1, <1>3 DEF Typed, Forget
<1>8. Typed'
  BY <1>0, <1>1, <1>3, <1>4, <1>7 DEF Typed, PcTyped
<1>9. ASSUME NEW q \in Procs, q # p PROVE Untouched(q)
  <2>1. \A r \in Orders : lock'[r] = q <=> lock[r] = q
    BY <1>2, <1>5, <1>6, <1>9
  <2> QED
    BY <1>3, <1>4, <1>7, <1>9, <2>1 DEF Untouched, Waiting
<1>10. Consistent(p)'
  <2>1. \A r \in Orders : lock'[r] # p
    BY <1>2, <1>5, <1>6
  <2>2. p \notin unlocking' /\ <<p, "lock">> \notin clients'
    BY <1>3
  <2>3. p \in unlocking => p # Worker /\ pc[p] \in Attempting \cup {"return"}
    BY <1>1, WorkerIsNoDispatch DEF Typed, PcTyped, Consistent
  <2>4. ~InSection(p)'
    BY <1>4, <2>2, <2>3 DEF InSection, Unlocked, Attempting
  <2>5. <<p, "tx">> \in clients' <=> <<p, "tx">> \in clients
    BY <1>3
  <2>6. Waiting(p)' <=> Waiting(p)
    BY <1>3 DEF Waiting
  <2>7. pc[p] = "unlock" => ~Waiting(p) /\ <<p, "tx">> \notin clients
    BY <1>1 DEF Consistent, TxSteps
  <2>8. pc'[p] # "lock"
    BY <1>4, <2>3 DEF Unlocked, Attempting
  <2>9. pc'[p] \in TxSteps => pc'[p] = pc[p]
    BY <1>4 DEF TxSteps
  <2> QED
    BY <1>1, <1>4, <2>1, <2>2, <2>4, <2>5, <2>6, <2>7, <2>8, <2>9 DEF Consistent
<1> QED
  BY <1>3, <1>8, <1>9, <1>10, ByOne

(* Any step that begins to wait for a client.                                *)
LEMMA WaitsStep ==
    ASSUME KInv, NEW p \in Procs, NEW step \in TxSteps \cup {"lock"}, Connect(p, step),
           pc[p] \notin TxSteps \cup {"lock"}, UNCHANGED <<clients, lock, unlocking, phase>>,
           batch' \subseteq Orders, order' \in [Procs -> Orders \cup {Nobody}],
           \A q \in Procs : q # p => order'[q] = order[q],
           step = "lock" => order'[p] \in Orders,
           InSection(p) => order'[p] = order[p],
           InSection(p)' <=> InSection(p),
           p \in unlocking => step \in Attempting
    PROVE  KInv'
<1>1. Typed /\ Consistent(p) /\ ~Waiting(p) /\ step \in Steps
  BY DEF KInv, Consistent, Steps
<1>2. /\ pc' \in [Procs -> Steps] /\ pc'[p] = step
      /\ \A q \in Procs : q # p => pc'[q] = pc[q]
      /\ queue' \in Seq(Procs) /\ IsInjective(queue')
      /\ \A q : Waiting(q)' <=> Waiting(q) \/ q = p
  BY <1>1, ConnectStep
<1>3. Typed'
  BY <1>1, <1>2 DEF Typed, PcTyped
<1>4. ASSUME NEW q \in Procs, q # p PROVE Untouched(q)
  BY <1>2, <1>4 DEF Untouched
<1>5. Consistent(p)'
  <2>1. <<p, "tx">> \notin clients /\ (<<p, "lock">> \in clients => InSection(p))
    BY <1>1 DEF Consistent
  <2> QED
    BY <1>1, <1>2, <2>1 DEF Consistent
<1> QED
  BY <1>3, <1>4, <1>5, ByOne

(* Any step that a query ends with its client given back.                    *)
LEMMA GivesBackStep ==
    ASSUME KInv, NEW p \in Procs, NEW step \in Steps \ (TxSteps \cup {"lock"}),
           pc[p] \in TxSteps, Holds(p), GiveBack(p), GoTo(p, step),
           UNCHANGED <<order, queue, lock, phase>>, batch' \subseteq Orders,
           unlocking' \subseteq Dispatches,
           \A q \in Procs : q # p => (q \in unlocking' <=> q \in unlocking),
           InSection(p)' <=> InSection(p),
           p \in unlocking' => step \in Attempting \cup {"return"}
    PROVE  KInv'
<1>1. Typed /\ Consistent(p) /\ clients' = clients \ {<<p, "tx">>}
  BY DEF KInv, GiveBack, Role, TxSteps
<1>2. /\ pc' \in [Procs -> Steps] /\ pc'[p] = step
      /\ \A q \in Procs : q # p => pc'[q] = pc[q]
  BY <1>1, GoToTyped DEF Typed
<1>3. Typed'
  BY <1>1, <1>2 DEF Typed, PcTyped
<1>4. \A q \in Procs : Waiting(q)' <=> Waiting(q)
  BY DEF Waiting
<1>5. ASSUME NEW q \in Procs, q # p PROVE Untouched(q)
  BY <1>1, <1>2, <1>4, <1>5 DEF Untouched
<1>6. Consistent(p)'
  <2>1. ~Waiting(p) /\ pc[p] # "lock"
    BY DEF Holds, Waiting, TxSteps
  <2> QED
    BY <1>1, <1>2, <1>4, <2>1 DEF Consistent
<1> QED
  BY <1>3, <1>5, <1>6, ByOne

LEMMA RequestStep ==
    ASSUME KInv, phase # "exited", NEW d \in Dispatches, Receive(d) \/ Begun(d) \/ Return(d)
    PROVE  KInv'
<1>1. Typed /\ Consistent(d) /\ d \in Procs /\ d # Worker
  BY WorkerIsNoDispatch DEF KInv
<1>2. CASE Receive(d)
  <2>1. PICK o \in Orders : order' = [order EXCEPT ![d] = o]
    BY <1>2 DEF Receive
  <2>2. /\ order' \in [Procs -> Orders \cup {Nobody}] /\ order'[d] \in Orders
        /\ \A q \in Procs : q # d => order'[q] = order[q]
    BY <1>1, <2>1 DEF Typed
  <2>3. /\ Connect(d, "lock") /\ pc[d] = "idle"
        /\ UNCHANGED <<batch, clients, lock, unlocking, phase>>
    BY <1>2 DEF Receive
  <2>4. d \notin unlocking /\ ~InSection(d)
    BY <1>1, <2>3 DEF Consistent, Attempting, InSection
  <2>5. pc'[d] = "lock"
    BY <1>1, <2>3, GoToTyped DEF Connect, Typed, Steps
  <2>6. ~InSection(d)'
    BY <1>1, <2>3, <2>4, <2>5 DEF InSection
  <2>7. batch' \subseteq Orders /\ pc[d] \notin TxSteps \cup {"lock"}
    BY <1>1, <2>3 DEF Typed, TxSteps
  <2> QED
    BY <1>1, <2>2, <2>3, <2>4, <2>6, <2>7, WaitsStep
<1>3. CASE Begun(d)
  <2>1. /\ pc[d] = "begin" /\ Holds(d) /\ GiveBack(d)
        /\ UNCHANGED <<order, batch, queue, lock, phase>>
    BY <1>3 DEF Begun
  <2>2. d \notin unlocking /\ InSection(d)
    BY <1>1, <2>1 DEF Consistent, Attempting, InSection
  <2>3. PICK step \in {"unlock", "attempt"} :
            /\ GoTo(d, step)
            /\ unlocking' = IF step = "unlock" THEN unlocking ELSE unlocking \cup {d}
    BY <1>3 DEF Begun
  <2>4. pc'[d] = step /\ step \in Steps \ (TxSteps \cup {"lock"})
    BY <1>1, <2>3, GoToTyped DEF Typed, Steps, TxSteps
  <2>5. InSection(d)' /\ (d \in unlocking' => step \in Attempting)
    BY <2>2, <2>3, <2>4 DEF InSection, Attempting
  <2>6. /\ unlocking' \subseteq Dispatches /\ batch' \subseteq Orders
        /\ \A q \in Procs : q # d => (q \in unlocking' <=> q \in unlocking)
    BY <1>1, <2>1, <2>3 DEF Typed, PcTyped
  <2>7. pc[d] \in TxSteps
    BY <2>1 DEF TxSteps
  <2> QED
    BY <1>1, <2>1, <2>2, <2>3, <2>4, <2>5, <2>6, <2>7, GivesBackStep
<1>4. CASE Return(d)
  <2>1. /\ pc[d] = "return" /\ d \notin unlocking /\ GoTo(d, "done")
        /\ UNCHANGED <<order, batch, queue, clients, lock, unlocking, phase>>
    BY <1>4 DEF Return
  <2>2. /\ pc' \in [Procs -> Steps] /\ pc'[d] = "done"
        /\ \A q \in Procs : q # d => pc'[q] = pc[q]
    BY <1>1, <2>1, GoToTyped DEF Typed, Steps
  <2>3. Typed'
    BY <1>1, <2>1, <2>2 DEF Typed, PcTyped
  <2>4. \A q \in Procs : q # d => Untouched(q)
    BY <2>1, <2>2 DEF Untouched, Waiting
  <2>5. ~InSection(d) /\ ~InSection(d)' /\ (Waiting(d)' <=> Waiting(d))
    BY <1>1, <2>1, <2>2 DEF InSection, Waiting
  <2>6. Consistent(d)'
    BY <1>1, <2>1, <2>2, <2>5 DEF Consistent, TxSteps
  <2> QED
    BY <1>1, <2>1, <2>3, <2>4, <2>6, ByOne
<1> QED
  BY <1>2, <1>3, <1>4

LEMMA AttemptStep ==
    ASSUME KInv, phase # "exited", NEW p \in Procs, Attempted(p) \/ Recorded(p)
    PROVE  KInv'
<1>1. Typed /\ Consistent(p) /\ (p \in unlocking => p # Worker)
  BY WorkerIsNoDispatch DEF KInv, Typed, PcTyped
<1>2. CASE Attempted(p)
  <2>1. PICK step \in {"reconciled", "accepted", "failure"} : Connect(p, step)
    BY <1>2 DEF Attempted
  <2>2. pc[p] = "attempt" /\ UNCHANGED <<order, batch, clients, lock, unlocking, phase>>
    BY <1>2 DEF Attempted
  <2>3. step \in TxSteps \cup {"lock"} /\ step \in Steps /\ step \in Attempting /\ step # "lock"
    BY DEF Steps, TxSteps, Attempting
  <2>4. pc'[p] = step
    BY <1>1, <2>1, <2>3, GoToTyped DEF Typed, Connect
  <2>5. InSection(p)' <=> InSection(p)
    BY <2>2, <2>3, <2>4 DEF InSection, Attempting
  <2>6. /\ pc[p] \notin TxSteps \cup {"lock"} /\ batch' \subseteq Orders
        /\ order' \in [Procs -> Orders \cup {Nobody}]
    BY <1>1, <2>2 DEF Typed, TxSteps
  <2> QED
    BY <2>1, <2>2, <2>3, <2>5, <2>6, WaitsStep
<1>3. CASE Recorded(p)
  <2> DEFINE step == IF p = Worker THEN "unlock" ELSE "return"
  <2>1. /\ pc[p] \in {"reconciled", "accepted", "failure"} /\ Holds(p) /\ GiveBack(p)
        /\ GoTo(p, step) /\ UNCHANGED <<order, batch, queue, lock, unlocking, phase>>
    BY <1>3 DEF Recorded
  <2>2. step \in Steps \ (TxSteps \cup {"lock"}) /\ (p # Worker => step = "return")
        /\ (p = Worker => step = "unlock")
    BY DEF Steps, TxSteps
  <2> HIDE DEF step
  <2>3. pc'[p] = step
    BY <1>1, <2>1, <2>2, GoToTyped DEF Typed
  <2>4. InSection(p)' <=> InSection(p)
    BY <2>1, <2>2, <2>3 DEF InSection, Attempting
  <2>5. /\ pc[p] \in TxSteps /\ batch' \subseteq Orders /\ unlocking' \subseteq Dispatches
        /\ p \in unlocking' => step \in Attempting \cup {"return"}
        /\ \A q \in Procs : q # p => (q \in unlocking' <=> q \in unlocking)
    BY <1>1, <2>1, <2>2 DEF Typed, PcTyped, TxSteps
  <2> QED
    BY <2>1, <2>2, <2>4, <2>5, GivesBackStep
<1> QED
  BY <1>2, <1>3

LEMMA WorkerStep ==
    ASSUME KInv, phase # "exited", Tick \/ Selected \/ NextCandidate \/ Found
    PROVE  KInv'
<1>1. /\ Worker \in Procs /\ Typed /\ Consistent(Worker) /\ Worker \notin unlocking
      /\ DOMAIN pc = Procs
  BY WorkerIsNoDispatch DEF KInv, Typed, PcTyped
<1>2. \A step : GoTo(Worker, step) => pc'[Worker] = step
  BY <1>1 DEF GoTo
<1>3. CASE Tick
  <2>1. /\ pc[Worker] = "idle" /\ Connect(Worker, "select")
        /\ UNCHANGED <<order, batch, clients, lock, unlocking, phase>>
    BY <1>3 DEF Tick
  <2>2. ~InSection(Worker) /\ ~InSection(Worker)'
    BY <1>1, <1>2, <2>1 DEF InSection, Attempting, Connect
  <2>3. /\ "select" \in TxSteps \cup {"lock"} /\ pc[Worker] \notin TxSteps \cup {"lock"}
        /\ batch' \subseteq Orders /\ order' \in [Procs -> Orders \cup {Nobody}]
    BY <1>1, <2>1 DEF Typed, TxSteps
  <2> QED
    BY <1>1, <2>1, <2>2, <2>3, WaitsStep
<1>4. CASE Selected
  <2>1. /\ pc[Worker] = "select" /\ Holds(Worker) /\ GiveBack(Worker) /\ GoTo(Worker, "next")
        /\ batch' \subseteq Orders /\ UNCHANGED <<order, queue, lock, unlocking, phase>>
    BY <1>4 DEF Selected
  <2>2. ~InSection(Worker) /\ ~InSection(Worker)'
    BY <1>1, <1>2, <2>1 DEF InSection, Attempting
  <2>3. /\ "next" \in Steps \ (TxSteps \cup {"lock"}) /\ pc[Worker] \in TxSteps
        /\ unlocking' \subseteq Dispatches /\ Worker \notin unlocking'
        /\ \A q \in Procs : q # Worker => (q \in unlocking' <=> q \in unlocking)
    BY <1>1, <2>1 DEF Typed, PcTyped, Steps, TxSteps
  <2> QED
    BY <1>1, <2>1, <2>2, <2>3, GivesBackStep
<1>5. CASE Found
  <2>1. PICK step \in {"attempt", "unlock"} : GoTo(Worker, step)
    BY <1>5 DEF Found
  <2>2. /\ pc[Worker] = "find" /\ Holds(Worker) /\ GiveBack(Worker)
        /\ UNCHANGED <<order, batch, queue, lock, unlocking, phase>>
    BY <1>5 DEF Found
  <2>3. InSection(Worker) /\ InSection(Worker)'
    BY <1>1, <1>2, <2>1, <2>2 DEF InSection, Attempting
  <2>4. /\ step \in Steps \ (TxSteps \cup {"lock"}) /\ pc[Worker] \in TxSteps
        /\ unlocking' \subseteq Dispatches /\ Worker \notin unlocking'
        /\ batch' \subseteq Orders
        /\ \A q \in Procs : q # Worker => (q \in unlocking' <=> q \in unlocking)
    BY <1>1, <2>1, <2>2 DEF Typed, PcTyped, Steps, TxSteps
  <2> QED
    BY <1>1, <2>1, <2>2, <2>3, <2>4, GivesBackStep
<1>6. CASE NextCandidate
  <2>1. pc[Worker] = "next" /\ UNCHANGED <<clients, lock, unlocking, phase>>
    BY <1>6 DEF NextCandidate
  <2>2. ~InSection(Worker) /\ pc[Worker] \notin TxSteps \cup {"lock"}
    BY <1>1, <2>1 DEF InSection, Attempting, TxSteps
  <2>3. CASE GoTo(Worker, "idle") /\ UNCHANGED <<order, batch, queue>>
    <3>1. /\ pc' \in [Procs -> Steps] /\ pc'[Worker] = "idle"
          /\ \A q \in Procs : q # Worker => pc'[q] = pc[q]
      BY <1>1, <2>3, GoToTyped DEF Typed, Steps
    <3>2. Typed'
      BY <1>1, <2>1, <2>3, <3>1 DEF Typed, PcTyped
    <3>3. \A q \in Procs : q # Worker => Untouched(q)
      BY <2>1, <2>3, <3>1 DEF Untouched, Waiting
    <3>4. ~InSection(Worker)' /\ (Waiting(Worker)' <=> Waiting(Worker))
      BY <1>1, <2>1, <2>3, <3>1 DEF InSection, Attempting, Waiting
    <3>5. Consistent(Worker)'
      BY <1>1, <2>1, <2>2, <2>3, <3>1, <3>4 DEF Consistent, TxSteps
    <3> QED
      BY <1>1, <2>1, <3>2, <3>3, <3>5, ByOne
  <2>4. ASSUME NEW o \in batch, batch' = batch \ {o}, order' = [order EXCEPT ![Worker] = o],
               Connect(Worker, "lock")
        PROVE  KInv'
    <3>1. /\ order' \in [Procs -> Orders \cup {Nobody}] /\ order'[Worker] \in Orders
          /\ \A q \in Procs : q # Worker => order'[q] = order[q]
          /\ batch' \subseteq Orders
      BY <1>1, <2>4 DEF Typed
    <3>2. ~InSection(Worker)'
      BY <1>1, <1>2, <2>1, <2>4 DEF InSection, Attempting, Connect
    <3> QED
      BY <1>1, <2>1, <2>2, <2>4, <3>1, <3>2, WaitsStep
  <2> QED
    BY <1>6, <2>3, <2>4 DEF NextCandidate
<1> QED
  BY <1>3, <1>4, <1>5, <1>6

(* The phases of a shutdown leave everybody where they are.                  *)
LEMMA PhaseStep == ASSUME KInv, Stop \/ Close \/ Exit PROVE KInv'
<1>1. /\ UNCHANGED <<pc, order, batch, queue, clients, lock, unlocking>>
      /\ phase # "exited"
  BY DEF Stop, Close, Exit
<1>2. Typed'
  BY <1>1 DEF KInv, Typed, PcTyped
<1>3. \A q \in Procs : Untouched(q)
  BY <1>1 DEF Untouched, Waiting
<1>4. \A q \in Procs : Consistent(q)'
  BY <1>1, <1>3, UntouchedConsistent DEF KInv
<1> QED
  BY <1>2, <1>4 DEF KInv

(* A session that belongs to nobody takes its lock with it.                   *)
LEMMA SessionStep == ASSUME KInv, NEW o \in Orders, SessionEnds(o) PROVE KInv'
<1>1. /\ Typed /\ lock[o] = Stray /\ lock' = [lock EXCEPT ![o] = Nobody]
      /\ UNCHANGED <<pc, order, batch, queue, clients, unlocking, phase>>
  BY DEF KInv, SessionEnds
<1>2. Nobody \notin Procs /\ Stray \notin Procs
  BY ProcessAssumption
<1>3. lock'[o] = Nobody /\ \A r \in Orders : r # o => lock'[r] = lock[r]
  BY <1>1 DEF Typed
<1>4. Typed'
  BY <1>1 DEF Typed, PcTyped
<1>5. ASSUME NEW q \in Procs PROVE Untouched(q)
  <2>1. \A r \in Orders : lock'[r] = q <=> lock[r] = q
    BY <1>1, <1>2, <1>3
  <2> QED
    BY <1>1, <2>1 DEF Untouched, Waiting
<1>6. \A q \in Procs : Consistent(q)'
  BY <1>1, <1>5, UntouchedConsistent DEF KInv
<1> QED
  BY <1>4, <1>6 DEF KInv

LEMMA KeepsStep == KInv /\ [Next]_vars => KInv'
<1> SUFFICES ASSUME KInv, [Next]_vars PROVE KInv'
  OBVIOUS
<1>1. CASE UNCHANGED vars
  BY <1>1 DEF vars, KInv, Typed, PcTyped, Consistent, InSection, Waiting
<1>2. CASE phase # "exited" /\ Next
  BY <1>1, <1>2, GrantStep, WorkerStep, PhaseStep, FailStep, LockedStep, UnlockedStep,
     SessionStep, AttemptStep, RequestStep DEF Next
<1> QED
  BY <1>1, <1>2 DEF Next

LEMMA ConsistentAlways == Spec => []KInv
<1>1. Init => KInv
  <2> SUFFICES ASSUME Init PROVE KInv
    OBVIOUS
  <2>1. Typed
    BY DEF Init, Typed, PcTyped, Steps, IsInjective
  <2>2. Nobody \notin Procs /\ ToSet(queue) = {}
    BY ProcessAssumption DEF Init, ToSet
  <2> QED
    BY <2>1, <2>2 DEF Init, KInv, Consistent, InSection, Waiting, Attempting, TxSteps
<1> QED
  BY <1>1, KeepsStep, PTL DEF Spec

(* Whatever throws on the way, in whatever order clients are served and given  *)
(* up: who was answered and a worker that rests keep no client, and a lock that *)
(* no failed unlock has left behind is held by who works on its order with the *)
(* client of its session.                                                    *)
THEOREM NothingIsKept == Spec => []NothingKept
BY ConsistentAlways, ConsistentKeepsNothing, PTL

-----------------------------------------------------------------------------
(* The size of the pool, and its order.                                      *)

(* Of all steps only Grant takes a client out.                               *)
PoolKept ==
    /\ clients \subseteq Procs \X {"lock", "tx"}
    /\ IsFiniteSet(clients) /\ Cardinality(clients) <= MaxClients
    /\ phase \in {"serving", "stopping", "closing", "exited"}

LEMMA NoClientTaken ==
    ASSUME PoolKept, clients' \subseteq clients,
           phase' \in {"serving", "stopping", "closing", "exited"}
    PROVE  PoolKept'
<1>1. IsFiniteSet(clients') /\ Cardinality(clients') <= Cardinality(clients)
  BY FS_Subset DEF PoolKept
<1>2. Cardinality(clients) \in Nat /\ Cardinality(clients') \in Nat /\ MaxClients \in Nat
  BY <1>1, FS_CardinalityType, ProcessAssumption DEF PoolKept
<1>3. Cardinality(clients') <= MaxClients
  BY <1>1, <1>2 DEF PoolKept
<1> QED
  BY <1>1, <1>3 DEF PoolKept

LEMMA ClientTaken == ASSUME Typed, PoolKept, Grant PROVE PoolKept'
<1>1. PICK p \in Procs, role \in {"lock", "tx"} : clients' = clients \cup {<<p, role>>}
  <2>1. Head(queue) \in Procs
    BY DEF Typed, Grant
  <2> QED
    BY <2>1 DEF Grant, Role
<1>2. IsFiniteSet(clients') /\ Cardinality(clients') <= Cardinality(clients) + 1
  <2>1. Cardinality(clients) \in Nat
    BY FS_CardinalityType DEF PoolKept
  <2> DEFINE c == <<p, role>>
  <2> HIDE DEF c
  <2>2. /\ IsFiniteSet(clients \cup {c})
        /\ Cardinality(clients \cup {c})
              = IF c \in clients THEN Cardinality(clients) ELSE Cardinality(clients) + 1
    BY FS_AddElement DEF PoolKept
  <2> QED
    BY <1>1, <2>1, <2>2 DEF c
<1>3. Cardinality(clients) \in Nat /\ Cardinality(clients') \in Nat /\ MaxClients \in Nat
  BY <1>2, FS_CardinalityType, ProcessAssumption DEF PoolKept
<1>4. Cardinality(clients') <= MaxClients
  BY <1>2, <1>3 DEF Grant, Full
<1> QED
  BY <1>1, <1>2, <1>4 DEF PoolKept, Grant

LEMMA PoolStep == KInv /\ PoolKept /\ [Next]_vars => PoolKept'
<1> SUFFICES ASSUME Typed, PoolKept, [Next]_vars PROVE PoolKept'
  BY DEF KInv
<1>1. CASE Grant
  BY <1>1, ClientTaken
<1>2. CASE \/ UNCHANGED vars \/ Tick \/ Selected \/ NextCandidate \/ Found \/ Stop \/ Close \/ Exit
           \/ \E o \in Orders : SessionEnds(o)
  <2>1. clients' \subseteq clients /\ phase' \in {phase, "stopping", "closing", "exited"}
    BY <1>2 DEF vars, Tick, Selected, NextCandidate, Found, Stop, Close, Exit, SessionEnds, GiveBack
  <2> QED
    BY <2>1, NoClientTaken DEF PoolKept
<1>3. ASSUME NEW p \in Procs, ConnectFails(p) \/ QueryFails(p) \/ Locked(p) \/ LockedAgain(p)
                              \/ Unlocked(p) \/ Attempted(p) \/ Recorded(p)
      PROVE  PoolKept'
  <2>1. clients' \subseteq clients
    BY <1>3 DEF ConnectFails, QueryFails, Locked, LockedAgain, TakeLock, Unlocked, Attempted,
                Recorded, GiveBack
  <2>2. phase' \in {phase, "exited"}
    <3>1. \A waiting : Throws(p, waiting) => phase' \in {phase, "exited"}
      BY ThrowsTyped DEF Typed
    <3> QED
      BY <1>3, <3>1 DEF ConnectFails, QueryFails, Locked, LockedAgain, TakeLock, Unlocked,
                        Attempted, Recorded
  <2> QED
    BY <2>1, <2>2, NoClientTaken DEF PoolKept
<1>4. ASSUME NEW d \in Dispatches, Receive(d) \/ Begun(d) \/ Return(d) PROVE PoolKept'
  <2>1. clients' \subseteq clients /\ phase' = phase
    BY <1>4 DEF Receive, Begun, Return, GiveBack
  <2> QED
    BY <2>1, NoClientTaken DEF PoolKept
<1> QED
  BY <1>1, <1>2, <1>3, <1>4 DEF Next

LEMMA PoolAlways == Spec => []PoolKept
<1>1. Init => PoolKept
  <2>1. IsFiniteSet({}) /\ Cardinality({}) = 0
    BY FS_EmptySet
  <2> QED
    BY <2>1, ProcessAssumption DEF Init, PoolKept
<1> QED
  BY <1>1, PoolStep, ConsistentAlways, PTL DEF Spec

(* All of TypeOK: nobody waits twice in the pool's queue, and there are never  *)
(* more clients out than the pool has.                                       *)
THEOREM TypeCorrect == Spec => []TypeOK
<1>1. KInv /\ PoolKept => TypeOK
  BY DEF KInv, Typed, PcTyped, PoolKept, TypeOK, Steps
<1> QED
  BY <1>1, ConsistentAlways, PoolAlways, PTL

(* p can take a step of its own: its query is answered, a timer or a call      *)
(* ends, its finally block goes on.                                         *)
Goes(p) ==
    \/ Holds(p) /\ (pc[p] = "lock" => lock[order[p]] = Nobody)
    \/ pc[p] \in {"attempt", "next", "unlock", "return"} \/ p \in unlocking

(* Nobody is left in a wait that nothing ends: who neither goes on nor waits   *)
(* in the queue of the pool, which serves it or times out, waits for the lock *)
(* of somebody who does, or for one that a failed unlock has left behind.     *)
NoStandstill ==
    \A p \in Procs : pc[p] \notin {"idle", "done"} =>
        \/ Goes(p) \/ Waiting(p)
        \/ /\ pc[p] = "lock" /\ lock[order[p]] \in Procs
           /\ Goes(lock[order[p]]) \/ Waiting(lock[order[p]])
        \/ pc[p] = "lock" /\ lock[order[p]] = Stray

(* A holder of a lock has all that it needs but a second client.             *)
LEMMA HolderGoes == ASSUME KInv, NEW p \in Procs, InSection(p) PROVE Goes(p) \/ Waiting(p)
<1>1. Consistent(p) /\ Typed
  BY DEF KInv
<1>2. CASE pc[p] \in TxSteps
  BY <1>1, <1>2 DEF Consistent, Goes, Holds, Role, Waiting, TxSteps
<1>3. CASE pc[p] \notin TxSteps
  BY <1>3 DEF InSection, Goes, Attempting, TxSteps
<1> QED
  BY <1>2, <1>3

(* Whatever is held, thrown or given up: a wait ends after at most one lock at  *)
(* a process that goes on, at the queue of the pool or at a session that has   *)
(* kept a lock. No circle of waits of requests and passes closes without the   *)
(* pool's clients.                                                           *)
THEOREM WaitsEndAtThePool == Spec => []NoStandstill
<1>1. ASSUME KInv PROVE NoStandstill
  <2> SUFFICES ASSUME NEW p \in Procs, pc[p] \notin {"idle", "done"}, ~Goes(p), ~Waiting(p),
                      ~(pc[p] = "lock" /\ lock[order[p]] = Stray)
               PROVE  /\ pc[p] = "lock" /\ lock[order[p]] \in Procs
                      /\ Goes(lock[order[p]]) \/ Waiting(lock[order[p]])
    BY DEF NoStandstill
  <2>1. Consistent(p) /\ Typed
    BY <1>1 DEF KInv
  <2>2. pc[p] \in TxSteps \cup {"lock"}
    BY <2>1 DEF Goes, Typed, PcTyped, Steps
  <2>3. Holds(p)
    BY <2>1, <2>2 DEF Consistent, Holds, Role, Waiting, TxSteps
  <2>4. pc[p] = "lock" /\ lock[order[p]] # Nobody
    BY <2>3 DEF Goes
  <2>5. lock[order[p]] \in Procs /\ order[p] \in Orders
    BY <2>1, <2>4 DEF Consistent, Typed
  <2>6. InSection(lock[order[p]])
    BY <1>1, <2>5 DEF KInv, Consistent
  <2> QED
    BY <1>1, <2>4, <2>5, <2>6, HolderGoes
<1> QED
  BY <1>1, ConsistentAlways, PTL

(* The requests that are being answered, and the worker during its pass.     *)
Active == {p \in Procs : pc[p] \notin {"idle", "done"}}

(* Those that wait for a client wait for one that comes back, unless there are *)
(* as many at work as the pool has clients.                                  *)
ServedWithoutTimeout ==
    queue # <<>> /\ Full => (\E p \in Procs : Goes(p)) \/ Cardinality(Active) >= MaxClients

(* Requests that hold the client of their lock and wait for a second one can   *)
(* exhaust the pool. As long as fewer of them are at work than there are       *)
(* clients they cannot, and no timeout of the pool is needed to go on.        *)
THEOREM EnoughClientsNeedNoTimeout ==
    ASSUME IsFiniteSet(Procs)
    PROVE  Spec => []ServedWithoutTimeout
<1>1. ASSUME KInv, PoolKept, Full, \A p \in Procs : ~Goes(p)
      PROVE  Cardinality(Active) >= MaxClients
  <2> DEFINE Locks == {<<p, "lock">> : p \in Active}
  <2>1. ASSUME NEW p \in Procs, <<p, "tx">> \in clients PROVE FALSE
    <3>1. Consistent(p) /\ ~Goes(p)
      BY <1>1 DEF KInv
    <3> QED
      BY <2>1, <3>1 DEF Consistent, Goes, Holds, Role, Waiting, TxSteps
  <2>2. ASSUME NEW p \in Procs, <<p, "lock">> \in clients PROVE p \in Active
    <3>1. Consistent(p) /\ ~Goes(p)
      BY <1>1 DEF KInv
    <3>2. InSection(p) \/ pc[p] = "lock"
      BY <2>2, <3>1 DEF Consistent
    <3>3. p \notin unlocking
      BY <3>1 DEF Goes
    <3> QED
      BY <3>2, <3>3 DEF Active, InSection, Attempting, TxSteps
  <2>3. clients \subseteq Locks
    BY <1>1, <2>1, <2>2 DEF PoolKept
  <2>4. IsFiniteSet(Active)
    BY FS_Subset DEF Active
  <2>5. IsFiniteSet(Locks) /\ Cardinality(Locks) <= Cardinality(Active)
    <3> DEFINE of == [p \in Active |-> <<p, "lock">>]
    <3>1. of \in Surjection(Active, Locks)
      BY DEF Surjection
    <3> QED
      BY <2>4, <3>1, FS_Surjection
  <2>6. Cardinality(clients) <= Cardinality(Locks)
    BY <2>3, <2>5, FS_Subset
  <2>7. /\ Cardinality(clients) \in Nat /\ Cardinality(Locks) \in Nat
        /\ Cardinality(Active) \in Nat /\ MaxClients \in Nat
    BY <1>1, <2>4, <2>5, FS_CardinalityType, ProcessAssumption DEF PoolKept
  <2> HIDE DEF Locks, Active
  <2> QED
    BY <1>1, <2>5, <2>6, <2>7 DEF Full
<1>2. KInv /\ PoolKept => ServedWithoutTimeout
  BY <1>1 DEF ServedWithoutTimeout
<1> QED
  BY <1>2, ConsistentAlways, PoolAlways, PTL

-----------------------------------------------------------------------------
(* The order of the queue.                                                   *)

Ahead(q, x, y) == \E i, j \in DOMAIN q : i < j /\ q[i] = x /\ q[j] = y

LEMMA AheadJoin ==
    ASSUME NEW S, NEW q \in Seq(S), NEW p \in S, NEW x, NEW y,
           Ahead(q, x, y) \/ (x \in ToSet(q) /\ y = p)
    PROVE  Ahead(Append(q, p), x, y)
<1> DEFINE r == Append(q, p)
<1>1. /\ Len(q) \in Nat /\ DOMAIN q = 1..Len(q) /\ DOMAIN r = 1..(Len(q) + 1)
      /\ r[Len(q) + 1] = p /\ \A i \in 1..Len(q) : r[i] = q[i]
  OBVIOUS
<1> HIDE DEF r
<1>2. CASE Ahead(q, x, y)
  <2>1. PICK i \in DOMAIN q, j \in DOMAIN q : i < j /\ q[i] = x /\ q[j] = y
    BY <1>2 DEF Ahead
  <2>2. i \in DOMAIN r /\ j \in DOMAIN r /\ r[i] = x /\ r[j] = y
    BY <1>1, <2>1
  <2> QED
    BY <2>1, <2>2 DEF Ahead, r
<1>3. CASE x \in ToSet(q) /\ y = p
  <2>1. PICK i \in DOMAIN q : q[i] = x
    BY <1>3 DEF ToSet
  <2>2. /\ i \in DOMAIN r /\ Len(q) + 1 \in DOMAIN r /\ i < Len(q) + 1
        /\ r[i] = x /\ r[Len(q) + 1] = y
    BY <1>1, <1>3, <2>1
  <2> QED
    BY <2>2 DEF Ahead, r
<1> QED
  BY <1>2, <1>3

LEMMA AheadTail ==
    ASSUME NEW S, NEW q \in Seq(S), IsInjective(q), q # <<>>, NEW x, NEW y, Ahead(q, x, y)
    PROVE  y # Head(q) /\ (x # Head(q) => Ahead(Tail(q), x, y))
<1> DEFINE r == Tail(q)
<1>1. /\ Len(q) \in Nat /\ Len(q) >= 1 /\ DOMAIN q = 1..Len(q) /\ DOMAIN r = 1..(Len(q) - 1)
      /\ Head(q) = q[1] /\ \A i \in 1..(Len(q) - 1) : r[i] = q[i + 1]
  OBVIOUS
<1> HIDE DEF r
<1>2. PICK i \in DOMAIN q, j \in DOMAIN q : i < j /\ q[i] = x /\ q[j] = y
  BY DEF Ahead
<1>3. y # Head(q)
  <2>1. 1 \in DOMAIN q /\ j # 1
    BY <1>1, <1>2
  <2> QED
    BY <1>1, <1>2, <2>1 DEF IsInjective
<1>4. ASSUME x # Head(q) PROVE Ahead(r, x, y)
  <2>1. i # 1
    BY <1>1, <1>2, <1>4
  <2>2. /\ i - 1 \in 1..(Len(q) - 1) /\ j - 1 \in 1..(Len(q) - 1) /\ i - 1 < j - 1
        /\ (i - 1) + 1 = i /\ (j - 1) + 1 = j
    BY <1>1, <1>2, <2>1
  <2>3. r[i - 1] = x /\ r[j - 1] = y
    BY <1>1, <1>2, <2>2
  <2> QED
    BY <1>1, <2>2, <2>3 DEF Ahead
<1> QED
  BY <1>3, <1>4 DEF r

LEMMA AheadRemoved ==
    ASSUME NEW S, NEW q \in Seq(S), NEW k \in DOMAIN q, NEW x, NEW y,
           Ahead(q, x, y), x # q[k], y # q[k]
    PROVE  Ahead(RemoveAt(q, k), x, y)
<1> DEFINE r == RemoveAt(q, k)
<1>1. Len(q) \in Nat /\ DOMAIN q = 1..Len(q) /\ k \in 1..Len(q)
  OBVIOUS
<1>2. /\ DOMAIN r = 1..(Len(q) - 1)
      /\ \A j \in 1..(Len(q) - 1) : r[j] = IF j < k THEN q[j] ELSE q[j + 1]
  BY RemoveAtIs
<1> HIDE DEF r
<1>3. PICK i \in DOMAIN q, j \in DOMAIN q : i < j /\ q[i] = x /\ q[j] = y
  BY DEF Ahead
<1> DEFINE at(n) == IF n < k THEN n ELSE n - 1
<1>4. i # k /\ j # k
  BY <1>3
<1>5. at(i) \in 1..(Len(q) - 1) /\ at(j) \in 1..(Len(q) - 1) /\ at(i) < at(j)
  BY <1>1, <1>3, <1>4
<1>6. ASSUME NEW n \in 1..Len(q), n # k, at(n) \in 1..(Len(q) - 1) PROVE r[at(n)] = q[n]
  <2>1. CASE n < k
    BY <1>2, <1>6, <2>1
  <2>2. CASE ~(n < k)
    <3>1. at(n) = n - 1 /\ ~(n - 1 < k) /\ (n - 1) + 1 = n
      BY <1>1, <1>6, <2>2
    <3> QED
      BY <1>2, <1>6, <3>1
  <2> QED
    BY <2>1, <2>2
<1>7. r[at(i)] = x /\ r[at(j)] = y
  BY <1>1, <1>3, <1>4, <1>5, <1>6
<1> HIDE DEF at
<1> QED
  BY <1>2, <1>5, <1>7 DEF Ahead, r

(* Who waits for a client is served before all that came after it. It keeps   *)
(* its place for as long as it waits for the same step: a record of a failure *)
(* that takes the place of a lost one begins to wait anew.                   *)
ServedInOrder ==
    [][\A p, q \in Procs : Ahead(queue, p, q) =>
          /\ \A role \in {"lock", "tx"} : <<q, role>> \in clients' => <<q, role>> \in clients
          /\ Waiting(p)' /\ pc'[p] = pc[p] /\ Waiting(q)' => Ahead(queue', p, q)]_vars

(* Those that give up leave the others in their order.                       *)
LEMMA GivesUpInOrder ==
    ASSUME Typed, NEW r \in Procs, ConnectFails(r),
           NEW p \in Procs, NEW q \in Procs, Ahead(queue, p, q),
           Waiting(p)', pc'[p] = pc[p], Waiting(q)'
    PROVE  Ahead(queue', p, q)
<1>1. PICK i \in DOMAIN queue : queue[i] = r /\ Throws(r, RemoveAt(queue, i))
  BY DEF ConnectFails
<1> DEFINE rest == RemoveAt(queue, i)
<1>2. rest \in Seq(Procs) /\ IsInjective(rest) /\ ToSet(rest) = ToSet(queue) \ {r}
  BY <1>1, LeaveQueue DEF Typed
<1>3. Thrown(r)
  BY <1>1, <1>2, ThrowsStep
<1>4. p # r
  BY <1>3 DEF Thrown
<1>5. p \in ToSet(queue)
  BY DEF Ahead, ToSet
<1>6. CASE q # r
  <2>1. Ahead(rest, p, q)
    BY <1>1, <1>4, <1>6, AheadRemoved DEF Typed
  <2>2. queue' = rest \/ queue' = Append(rest, r)
    BY <1>1 DEF Throws
  <2> HIDE DEF rest
  <2> QED
    BY <1>2, <2>1, <2>2, AheadJoin
<1>7. CASE q = r
  <2>1. queue' = Append(rest, r)
    <3>1. queue' # rest
      BY <1>2, <1>7 DEF Waiting
    <3> QED
      BY <1>1, <3>1 DEF Throws
  <2>2. p \in ToSet(rest)
    BY <1>2, <1>4, <1>5
  <2> HIDE DEF rest
  <2> QED
    BY <1>2, <1>7, <2>1, <2>2, AheadJoin
<1> QED
  BY <1>6, <1>7

(* Requests and the worker get their clients in the order in which they asked, *)
(* and only by Grant: nobody is overtaken for ever.                          *)
THEOREM ClientsAreServedInOrder == Spec => ServedInOrder
<1> DEFINE Kept(p, q) ==
        /\ \A role \in {"lock", "tx"} : <<q, role>> \in clients' => <<q, role>> \in clients
        /\ Waiting(p)' /\ pc'[p] = pc[p] /\ Waiting(q)' => Ahead(queue', p, q)
<1>1. ASSUME KInv, [Next]_vars, NEW p \in Procs, NEW q \in Procs, Ahead(queue, p, q)
      PROVE  Kept(p, q)
  <2>1. Typed
    BY <1>1 DEF KInv
  <2>2. CASE Grant
    <3>1. Head(queue) # q /\ (Head(queue) # p => Ahead(queue', p, q))
      BY <1>1, <2>1, <2>2, AheadTail DEF Grant, Typed
    <3>2. Head(queue) = p => ~Waiting(p)'
      BY <2>1, <2>2, LeaveQueueAtHead DEF Grant, Typed, Waiting
    <3> QED
      BY <2>2, <3>1, <3>2 DEF Grant
  <2>3. ASSUME clients' \subseteq clients, queue' = queue \/ \E r \in Procs : queue' = Append(queue, r)
        PROVE  Kept(p, q)
    BY <1>1, <2>1, <2>3, AheadJoin DEF Typed
  <2>4. CASE \/ UNCHANGED vars \/ Tick \/ Selected \/ NextCandidate \/ Found \/ Stop \/ Close \/ Exit
             \/ \E o \in Orders : SessionEnds(o)
    BY <2>3, <2>4, WorkerIsNoDispatch
       DEF vars, Tick, Selected, NextCandidate, Found, Stop, Close, Exit, SessionEnds, GiveBack, Connect
  <2>5. ASSUME NEW r \in Procs,
               Locked(r) \/ LockedAgain(r) \/ Unlocked(r) \/ Attempted(r) \/ Recorded(r)
        PROVE  Kept(p, q)
    BY <2>3, <2>5
       DEF Locked, LockedAgain, TakeLock, Unlocked, Attempted, Recorded, GiveBack, Connect
  <2>6. ASSUME NEW d \in Dispatches, Receive(d) \/ Begun(d) \/ Return(d) PROVE Kept(p, q)
    BY <2>3, <2>6, WorkerIsNoDispatch DEF Receive, Begun, Return, GiveBack, Connect
  <2>7. ASSUME NEW r \in Procs, QueryFails(r) PROVE Kept(p, q)
    BY <2>3, <2>7 DEF QueryFails, GiveBack, Throws
  <2>8. ASSUME NEW r \in Procs, ConnectFails(r) PROVE Kept(p, q)
    <3>1. UNCHANGED clients
      BY <2>8 DEF ConnectFails
    <3> QED
      BY <1>1, <2>1, <2>8, <3>1, GivesUpInOrder
  <2> QED
    BY <1>1, <2>2, <2>4, <2>5, <2>6, <2>7, <2>8 DEF Next
<1>2. KInv /\ [Next]_vars =>
        [\A p, q \in Procs : Ahead(queue, p, q) =>
          /\ \A role \in {"lock", "tx"} : <<q, role>> \in clients' => <<q, role>> \in clients
          /\ Waiting(p)' /\ pc'[p] = pc[p] /\ Waiting(q)' => Ahead(queue', p, q)]_vars
  BY <1>1
<1> QED
  BY <1>2, ConsistentAlways, PTL DEF Spec, ServedInOrder

-----------------------------------------------------------------------------
(* shopflow-orders.                                                          *)

Resting(p) == pc[p] \in {"idle", "done"}

(* PoolOutlivesUse is not inductive: Exit looks at the loops alone. That no    *)
(* request runs then is what ServerClosed has seen, and stays true because   *)
(* nothing reaches a closed server.                                          *)
Drained ==
    /\ pc = [p \in Shop!Procs |-> pc[p]]
    /\ phase = "stopping" => \A o \in Requests : Resting(o)
    /\ phase = "exited" => \A p \in Shop!Procs : Resting(p)

(* A request is not one of the loops, whatever its order is called.          *)
LEMMA LoopsAreNoRequests ==
    ASSUME Shop!OrdersProcessAssumption
    PROVE  /\ \A o \in Requests : o \in Shop!Procs /\ o \notin Shop!Loops
           /\ \A l \in Shop!Loops : l \in Shop!Procs
BY DEF Shop!Procs, Shop!OrdersProcessAssumption

(* The end of a row or of a handler moves the process that comes to it.      *)
LEMMA FinishMoves == ASSUME NEW p, Shop!Finish(p) PROVE \E step : Shop!GoTo(p, step)
<1>1. CASE p \in Shop!Loops /\ Shop!Pass(p, Tail(batch[p]))
  BY <1>1 DEF Shop!Pass
<1>2. CASE p \in Requests /\ Shop!GoTo(p, "done")
  BY <1>2
<1> QED
  BY <1>1, <1>2 DEF Shop!Finish

(* Whoever is busy may take any step of its own: once the server is closed     *)
(* that can only be a loop.                                                  *)
LEMMA BusyMoves ==
    ASSUME Shop!OrdersProcessAssumption, Drained, NEW p \in Shop!Procs, ~Resting(p),
           NEW step, Shop!GoTo(p, step), UNCHANGED phase
    PROVE Drained'
BY LoopsAreNoRequests DEF Drained, Shop!GoTo, Resting, Shop!Procs

(* The calls, the commits, the dispatches and what throws in them.           *)
LEMMA StepDrained ==
    ASSUME Shop!OrdersProcessAssumption, Drained,
           NEW p \in Shop!Procs, Shop!Step(p) \/ Shop!Throws(p)
    PROVE  Drained'
<1>1. CASE Shop!Called(p)
  <2>1. \E step : Shop!GoTo(p, step)
    BY <1>1, FinishMoves DEF Shop!Called
  <2> QED
    BY <1>1, <2>1, BusyMoves DEF Shop!Called, Resting
<1>2. CASE Shop!Unanswered(p)
  BY <1>2, FinishMoves, BusyMoves DEF Shop!Unanswered, Resting
<1>3. CASE Shop!Completed(p)
  BY <1>3, FinishMoves, BusyMoves DEF Shop!Completed, Resting
<1>4. CASE Shop!CommitFails(p)
  BY <1>4, FinishMoves, BusyMoves DEF Shop!CommitFails, Resting
<1>5. CASE p = Dispatcher /\ Shop!Dispatched
  BY <1>5, FinishMoves, BusyMoves DEF Shop!Dispatched, Resting
<1>6. CASE Shop!Throws(p)
  BY <1>6, FinishMoves, BusyMoves DEF Shop!Throws, Resting
<1> QED
  BY <1>1, <1>2, <1>3, <1>4, <1>5, <1>6 DEF Shop!Step

(* The ticks and the requests that start something start it before the server *)
(* has closed.                                                               *)
LEMMA StartDrained ==
    ASSUME Drained, (\E l \in Shop!Loops : Shop!Tick(l)) \/ (\E o \in Requests : Shop!Receive(o))
    PROVE Drained'
<1>1. CASE \E l \in Shop!Loops : Shop!Tick(l)
  BY <1>1 DEF Shop!Tick, Shop!Pass, Shop!GoTo, Drained
<1>2. CASE \E o \in Requests : Shop!Receive(o)
  BY <1>2 DEF Shop!Receive, Shop!GoTo, Drained
<1> QED
  BY <1>1, <1>2

(* The server closes only without a request, and Exit waits for both loops.   *)
LEMMA DrainedInductive ==
    ASSUME Shop!OrdersProcessAssumption
    PROVE  Drained /\ [Shop!Next]_(Shop!vars) => Drained'
<1> SUFFICES ASSUME Drained, [Shop!Next]_(Shop!vars) PROVE Drained'
  OBVIOUS
<1>1. CASE (\E l \in Shop!Loops : Shop!Tick(l)) \/ (\E o \in Requests : Shop!Receive(o))
  BY <1>1, StartDrained
<1>2. CASE \E p \in Shop!Procs : Shop!Step(p) \/ Shop!Throws(p)
  BY <1>2, StepDrained
<1>3. CASE \E o \in Orders : Shop!Ages(o)
  BY <1>3 DEF Shop!Ages, Drained, Resting
<1>4. CASE Shop!Signal
  BY <1>4 DEF Shop!Signal, Drained, Resting
<1>5. CASE Shop!ServerClosed
  BY <1>5 DEF Shop!ServerClosed, Drained, Resting
<1>6. CASE Shop!Exit
  BY <1>6 DEF Shop!Exit, Drained, Resting, Shop!Procs
<1>7. CASE UNCHANGED Shop!vars
  BY <1>7 DEF Shop!vars, Drained, Resting
<1> QED
  BY <1>1, <1>2, <1>3, <1>4, <1>5, <1>6, <1>7 DEF Shop!Next

(* main.ts: pool.end() finds no handler and no pass that still needs it,       *)
(* although the loops tick until the last request is answered.               *)
THEOREM PoolEndsLast ==
    ASSUME Shop!OrdersProcessAssumption
    PROVE  Shop!Spec => []Shop!PoolOutlivesUse
<1>1. Shop!Init => Drained
  BY DEF Shop!Init, Drained
<1>2. Drained => Shop!PoolOutlivesUse
  BY DEF Drained, Shop!PoolOutlivesUse, Resting
<1> QED
  BY <1>1, <1>2, DrainedInductive, PTL DEF Shop!Spec
=============================================================================
