------------------------------ MODULE Gateway ------------------------------
(***************************************************************************)
(* shopflow-gateway between a client that repeats a request until it is      *)
(* satisfied and the service that owns the route. Requests of different      *)
(* intents do not meet in the gateway, so there is one intent: any of        *)
(* Intents, sent up to MaxSends times. Of POST /orders the service keeps     *)
(* what OrderSaga shows of it: a saga per client key or per received request. *)
(***************************************************************************)
EXTENDS Integers, FiniteSets

CONSTANTS
    MaxSends,   \* bound of the model: how often the client sends its request
    Key,        \* the Idempotency-Key of the client
    NULL

Routes == {"GET /products", "GET /orders/:id", "POST /orders", "POST /admin/orders/:id/ship"}

Intents ==
    [route : Routes \cup {"GET /health", "unknown", "malformed"}, keyed : {FALSE}]
    \cup [route : {"POST /orders"}, keyed : {TRUE}]

Calls == 1..MaxSends
Attempts == Calls \X (1..2)

ASSUME GatewayAssumption ==
    /\ MaxSends \in Nat \ {0}
    /\ Key \notin Attempts
    /\ NULL \notin {"ok", "created", "rejected", "failed", "edge", "unreachable"}

VARIABLES
    intent,      \* what the client wants
    sent,        \* how often it has asked for it
    attempts,    \* per call: how often the gateway has forwarded it
    afloat,      \* attempts that may still reach the service
    saga,        \* state of the saga of a key, or of an attempt without one
    reply,       \* per attempt: what the service answered
    answer       \* per call: what the gateway answered

vars == <<intent, sent, attempts, afloat, saga, reply, answer>>

Init ==
    /\ intent \in Intents
    /\ sent = 0
    /\ attempts = [c \in Calls |-> 0]
    /\ afloat = {}
    /\ saga = [s \in Attempts \cup {Key} |-> "none"]
    /\ reply = [t \in Attempts |-> NULL]
    /\ answer = [c \in Calls |-> NULL]

-----------------------------------------------------------------------------
(* The client sends its request for the first time, or again because it was  *)
(* told that a service is unavailable or gave up waiting.                    *)
Unsatisfied(c) == answer[c] \in {NULL, "failed", "unreachable"}

(* Liveness, what has no route, and a body that is not JSON are answered at   *)
(* the edge.                                                                 *)
Send ==
    LET c == sent + 1 IN
    /\ c \in Calls
    /\ sent > 0 => Unsatisfied(sent)
    /\ sent' = c
    /\ \/ /\ intent.route \in Routes
          /\ attempts' = [attempts EXCEPT ![c] = 1]
          /\ afloat' = afloat \cup {<<c, 1>>}
          /\ UNCHANGED answer
       \/ /\ intent.route \notin Routes
          /\ answer' = [answer EXCEPT ![c] = "edge"]
          /\ UNCHANGED <<attempts, afloat>>
    /\ UNCHANGED <<intent, saga, reply>>

-----------------------------------------------------------------------------
(* The service behind the route.                                            *)

(* Fault: the Idempotency-Key of the client is not forwarded.               *)
SagaOfUnkeyed(t) == t

(* The saga that an attempt of POST /orders belongs to: the gateway forwards *)
(* the Idempotency-Key of the client, and never invents one.                *)
SagaOf(t) == IF intent.keyed THEN Key ELSE t

(* Fault: an open saga is answered as if it were placed.                    *)
RepliesOptimistic(state) == IF state = "rejected" THEN {"rejected"} ELSE {"created"}

(* An order may be placed while the answer, for its confirmation, is 500.     *)
Replies(state) ==
    IF state = "rejected" THEN {"rejected"}
    ELSE {"failed"} \cup (IF state = "placed" THEN {"created"} ELSE {})

Current(c) == <<c, attempts[c]>>

Forwarding(c) == attempts[c] > 0 /\ answer[c] = NULL

(* The answer to an attempt that the gateway has given up goes nowhere.      *)
ReplyTo(t, r) ==
    reply' = IF Forwarding(t[1]) /\ t = Current(t[1]) THEN [reply EXCEPT ![t] = r] ELSE reply

(* An open saga may be resolved by a replay.                                 *)
Place(t) ==
    /\ intent.route = "POST /orders"
    /\ \E state \in IF saga[SagaOf(t)] \in {"none", "open"} THEN {"open", "placed", "rejected"}
                    ELSE {saga[SagaOf(t)]} :
          /\ saga' = [saga EXCEPT ![SagaOf(t)] = state]
          /\ \E r \in Replies(state) : ReplyTo(t, r)

(* An attempt reaches the service.                                           *)
Serve(t) ==
    /\ t \in afloat
    /\ afloat' = afloat \ {t}
    /\ \/ Place(t)
       \/ /\ intent.route # "POST /orders"
          /\ \E r \in {"ok", "failed"} : ReplyTo(t, r)
          /\ UNCHANGED saga
    /\ UNCHANGED <<intent, sent, attempts, answer>>

(* The recovery worker resolves a saga that was left open.                   *)
Recover(s) ==
    /\ saga[s] = "open"
    /\ \E state \in {"placed", "rejected"} : saga' = [saga EXCEPT ![s] = state]
    /\ UNCHANGED <<intent, sent, attempts, afloat, reply, answer>>

-----------------------------------------------------------------------------
(* forwardToUpstream.                                                        *)

(* retryOnConnectionFailure: only the two reads, and only once.              *)
MayRetry(c) ==
    /\ intent.route \in {"GET /products", "GET /orders/:id"}
    /\ attempts[c] < 2

(* The service's status and bytes are handed back untouched.                *)
PassThrough(c) ==
    /\ Forwarding(c)
    /\ reply[Current(c)] # NULL
    /\ answer' = [answer EXCEPT ![c] = reply[Current(c)]]
    /\ UNCHANGED <<intent, sent, attempts, afloat, saga, reply>>

(* An attempt that failed never reached the service, did so already, or will *)
(* still do so.                                                              *)
Abandon(t) == afloat' \in {afloat, afloat \ {t}}

(* The connection is refused, or breaks before the answer is complete.       *)
ConnectionFails(c) ==
    /\ Forwarding(c)
    /\ \/ /\ MayRetry(c)
          /\ attempts' = [attempts EXCEPT ![c] = @ + 1]
          /\ \E left \in {afloat, afloat \ {Current(c)}} :
                afloat' = left \cup {<<c, attempts[c] + 1>>}
          /\ UNCHANGED answer
       \/ /\ ~MayRetry(c)
          /\ Abandon(Current(c))
          /\ answer' = [answer EXCEPT ![c] = "unreachable"]
          /\ UNCHANGED attempts
    /\ UNCHANGED <<intent, sent, saga, reply>>

(* Fault: one timer for the request, which the retry outlives.              *)
TimesOutOnce(c) ==
    /\ Forwarding(c)
    /\ attempts[c] = 1
    /\ Abandon(Current(c))
    /\ answer' = [answer EXCEPT ![c] = "unreachable"]
    /\ UNCHANGED <<intent, sent, attempts, saga, reply>>

(* AbortSignal.timeout: answered at once, without a second attempt.          *)
TimesOut(c) ==
    /\ Forwarding(c)
    /\ Abandon(Current(c))
    /\ answer' = [answer EXCEPT ![c] = "unreachable"]
    /\ UNCHANGED <<intent, sent, attempts, saga, reply>>

(* The client has what it wants, or has stopped asking.                      *)
Settled ==
    /\ sent > 0 /\ ~Forwarding(sent)
    /\ ~Unsatisfied(sent) \/ sent = MaxSends
    /\ UNCHANGED vars

Next ==
    \/ Send
    \/ \E t \in Attempts : Serve(t)
    \/ \E s \in Attempts \cup {Key} : Recover(s)
    \/ \E c \in Calls : PassThrough(c) \/ ConnectionFails(c) \/ TimesOut(c)
    \/ Settled

Spec == Init /\ [][Next]_vars

(* The timer of an attempt fires in the end. Nothing is assumed of services. *)
Fairness == \A c \in Calls : WF_vars(PassThrough(c) \/ TimesOut(c))

FairSpec == Spec /\ Fairness

-----------------------------------------------------------------------------
TypeOK ==
    /\ intent \in Intents
    /\ sent \in 0..MaxSends
    /\ attempts \in [Calls -> 0..2]
    /\ afloat \subseteq Attempts
    /\ saga \in [Attempts \cup {Key} -> {"none", "open", "placed", "rejected"}]
    /\ reply \in [Attempts -> {NULL, "ok", "created", "rejected", "failed"}]
    /\ answer \in [Calls -> {NULL, "edge", "ok", "created", "rejected", "failed",
                             "unreachable"}]

Placed == {s \in DOMAIN saga : saga[s] = "placed"}

(* A client that repeats POST /orders over timeouts, lost answers and late    *)
(* arrivals gets one order if it uses a key, and never more than it has       *)
(* asked for if it does not: the gateway adds no order of its own.           *)
NoSurplusOrder ==
    Cardinality(Placed \cup {s \in DOMAIN saga : saga[s] = "open"})
        <= IF intent.keyed THEN 1 ELSE sent

(* What the client hears of its order is true of the order that the very call *)
(* is about, also when an earlier call of it arrives after a later one.      *)
AnswersTrue ==
    \A c \in Calls :
        /\ answer[c] = "created" => saga[SagaOf(Current(c))] = "placed"
        /\ answer[c] = "rejected" => saga[SagaOf(Current(c))] = "rejected"

(* Every call is answered, whatever the service does: upstream attempts are   *)
(* bounded in time and number.                                               *)
EveryCallAnswered == \A c \in Calls : sent = c ~> answer[c] # NULL
=============================================================================
