---------------------------- MODULE GatewayProofs ----------------------------
(* What a client hears of its order is true, however often it may repeat its  *)
(* request and in whatever order its attempts arrive.                        *)
EXTENDS Gateway, FiniteSetTheorems, TLAPS

Final == {"placed", "rejected"}

(* A call that is still to come has left no trace.                           *)
NotSent == \A c \in Calls : c > sent => attempts[c] = 0 /\ answer[c] = NULL

(* What the service answered is true of the saga of the attempt.             *)
RepliesTrue ==
    \A t \in Attempts :
        /\ reply[t] = "created" => saga[SagaOf(t)] = "placed"
        /\ reply[t] = "rejected" => saga[SagaOf(t)] = "rejected"

(* AnswersTrue of one call.                                                  *)
AnswerTrue(c) ==
    /\ answer[c] = "created" => saga[SagaOf(Current(c))] = "placed"
    /\ answer[c] = "rejected" => saga[SagaOf(Current(c))] = "rejected"

(* Only what was forwarded has an answer of a service.                       *)
Answered == \A c \in Calls : answer[c] \in {"created", "rejected"} => attempts[c] > 0

(* AnswersTrue alone is not inductive: an answer repeats a reply, and stays    *)
(* true because the sagas of replies are final.                              *)
IInv == TypeOK /\ NotSent /\ Answered /\ RepliesTrue /\ AnswersTrue

(* The attempts and sagas that actions speak of exist.                       *)
LEMMA CurrentIsAttempt ==
    ASSUME TypeOK, NEW c \in Calls, attempts[c] > 0
    PROVE Current(c) \in Attempts
BY DEF TypeOK, Current, Attempts

LEMMA SagaOfType ==
    ASSUME NEW t \in Attempts PROVE SagaOf(t) \in Attempts \cup {Key}
BY DEF SagaOf

(* A saga that is placed or rejected stays so: replays and recovery included. *)
SagasFinal ==
    \A s \in Attempts \cup {Key} : saga[s] \in Final => saga'[s] = saga[s]

LEMMA SagasStayFinal ==
    ASSUME TypeOK, [Next]_vars
    PROVE SagasFinal /\ intent' = intent
<1> USE DEF TypeOK, SagasFinal, Final
<1>1. ASSUME NEW t \in Attempts, Serve(t) PROVE SagasFinal /\ intent' = intent
  <2>1. CASE Place(t)
    <3>1. SagaOf(t) \in Attempts \cup {Key}
      BY SagaOfType
    <3>2. PICK state \in IF saga[SagaOf(t)] \in {"none", "open"} THEN {"open", "placed", "rejected"}
                         ELSE {saga[SagaOf(t)]} :
            saga' = [saga EXCEPT ![SagaOf(t)] = state]
      BY <2>1 DEF Place
    <3> QED
      BY <1>1, <3>1, <3>2 DEF Serve
  <2>2. CASE UNCHANGED saga
    BY <1>1, <2>2 DEF Serve
  <2> QED
    BY <1>1, <2>1, <2>2 DEF Serve
<1>2. ASSUME NEW s \in Attempts \cup {Key}, Recover(s) PROVE SagasFinal /\ intent' = intent
  BY <1>2 DEF Recover
<1>3. CASE Send \/ Settled \/ UNCHANGED vars
  BY <1>3 DEF Send, Settled, vars
<1>4. ASSUME NEW c \in Calls, PassThrough(c) \/ ConnectionFails(c) \/ TimesOut(c)
      PROVE SagasFinal /\ intent' = intent
  BY <1>4 DEF PassThrough, ConnectionFails, TimesOut
<1> QED
  BY <1>1, <1>2, <1>3, <1>4 DEF Next

LEMMA Initially == Init => IInv
<1> SUFFICES ASSUME Init PROVE IInv
  OBVIOUS
<1>1. TypeOK
  BY GatewayAssumption DEF Init, TypeOK
<1>2. NotSent
  BY DEF Init, NotSent
<1>3. RepliesTrue
  BY GatewayAssumption DEF Init, RepliesTrue
<1>4. Answered /\ AnswersTrue
  BY GatewayAssumption DEF Init, Answered, AnswersTrue
<1> QED
  BY <1>1, <1>2, <1>3, <1>4 DEF IInv

LEMMA TypeStep == TypeOK /\ [Next]_vars => TypeOK'
<1> SUFFICES ASSUME TypeOK, [Next]_vars PROVE TypeOK'
  OBVIOUS
<1> USE DEF TypeOK
<1>1. CASE Send
  BY <1>1, GatewayAssumption DEF Send, Calls, Attempts
<1>2. ASSUME NEW t \in Attempts, Serve(t) PROVE TypeOK'
  <2>1. ASSUME NEW r \in {"ok", "created", "rejected", "failed"}, ReplyTo(t, r)
        PROVE reply' \in [Attempts -> {NULL, "ok", "created", "rejected", "failed"}]
    BY <2>1 DEF ReplyTo
  <2>2. CASE Place(t)
    <3>1. PICK state \in {"open", "placed", "rejected", saga[SagaOf(t)]} :
            /\ saga' = [saga EXCEPT ![SagaOf(t)] = state]
            /\ \E r \in Replies(state) : ReplyTo(t, r)
      BY <2>2 DEF Place
    <3>2. Replies(state) \subseteq {"ok", "created", "rejected", "failed"}
      BY DEF Replies
    <3>3. saga' \in [Attempts \cup {Key} -> {"none", "open", "placed", "rejected"}]
      BY <3>1, SagaOfType
    <3> QED
      BY <1>2, <2>1, <3>1, <3>2, <3>3 DEF Serve
  <2>3. CASE intent.route # "POST /orders"
    BY <1>2, <2>1, <2>3 DEF Serve, Place
  <2> QED
    BY <1>2, <2>2, <2>3 DEF Serve
<1>3. ASSUME NEW s \in Attempts \cup {Key}, Recover(s) PROVE TypeOK'
  BY <1>3 DEF Recover
<1>4. ASSUME NEW c \in Calls, PassThrough(c) PROVE TypeOK'
  BY <1>4, CurrentIsAttempt DEF PassThrough, Forwarding
<1>5. ASSUME NEW c \in Calls, ConnectionFails(c) PROVE TypeOK'
  <2>1. CASE MayRetry(c)
    <3>1. attempts[c] \in 0..2 /\ attempts[c] < 2 /\ attempts[c] + 1 \in 1..2
      <4>1. attempts[c] \in 0..2
        OBVIOUS
      <4>2. attempts[c] < 2
        BY <2>1 DEF MayRetry
      <4> QED
        BY <4>1, <4>2
    <3>2. <<c, attempts[c] + 1>> \in Attempts
      BY <3>1 DEF Attempts
    <3>3. afloat' \subseteq Attempts
      BY <1>5, <2>1, <3>2 DEF ConnectionFails
    <3>4. attempts' \in [Calls -> 0..2]
      BY <1>5, <2>1, <3>1 DEF ConnectionFails
    <3> QED
      BY <1>5, <2>1, <3>3, <3>4 DEF ConnectionFails
  <2>2. CASE ~MayRetry(c)
    BY <1>5, <2>2 DEF ConnectionFails, Abandon
  <2> QED
    BY <2>1, <2>2
<1>6. ASSUME NEW c \in Calls, TimesOut(c) PROVE TypeOK'
  BY <1>6 DEF TimesOut, Abandon
<1>7. CASE Settled \/ UNCHANGED vars
  BY <1>7 DEF Settled, vars
<1> QED
  BY <1>1, <1>2, <1>3, <1>4, <1>5, <1>6, <1>7 DEF Next

(* The steps of the forwarding loop of a call leave the other calls alone.    *)
LEMMA ForwardingStep ==
    ASSUME TypeOK, NEW c \in Calls, PassThrough(c) \/ ConnectionFails(c) \/ TimesOut(c)
    PROVE /\ sent' = sent
          /\ attempts[c] > 0 /\ answer[c] = NULL /\ attempts'[c] > 0
          /\ \A d \in Calls : d # c => attempts'[d] = attempts[d] /\ answer'[d] = answer[d]
<1>1. attempts \in [Calls -> 0..2] /\ attempts[c] \in 0..2
  BY DEF TypeOK
<1>2. DOMAIN answer = Calls
  BY DEF TypeOK
<1>3. sent' = sent /\ attempts[c] > 0 /\ answer[c] = NULL
  BY DEF PassThrough, ConnectionFails, TimesOut, Forwarding
<1>4. attempts' = attempts \/ attempts' = [attempts EXCEPT ![c] = attempts[c] + 1]
  BY DEF PassThrough, ConnectionFails, TimesOut
<1>5. attempts'[c] > 0 /\ \A d \in Calls : d # c => attempts'[d] = attempts[d]
  BY <1>1, <1>3, <1>4
<1>6. \A d \in Calls : d # c => answer'[d] = answer[d]
  BY <1>2 DEF PassThrough, ConnectionFails, TimesOut
<1> QED
  BY <1>3, <1>5, <1>6

(* A new call is answered at the edge or not yet.                            *)
LEMMA SendStep ==
    ASSUME TypeOK, NotSent, Send
    PROVE \E n \in Calls :
            /\ n = sent + 1 /\ sent' = n
            /\ answer'[n] \in {NULL, "edge"}
            /\ \A c \in Calls : c # n => attempts'[c] = attempts[c] /\ answer'[c] = answer[c]
<1> DEFINE n == sent + 1
<1>1. n \in Calls /\ sent' = n
  BY DEF Send
<1>2. answer[n] = NULL
  <2>1. n \in Nat /\ sent \in Nat /\ n > sent
    BY DEF TypeOK
  <2> QED
    BY <1>1, <2>1 DEF NotSent
<1>3. DOMAIN answer = Calls /\ DOMAIN attempts = Calls
  BY DEF TypeOK
<1>4. answer' = answer \/ answer' = [answer EXCEPT ![n] = "edge"]
  BY DEF Send
<1>5. attempts' = attempts \/ attempts' = [attempts EXCEPT ![n] = 1]
  BY DEF Send
<1> HIDE DEF n
<1>6. answer'[n] \in {NULL, "edge"}
  BY <1>1, <1>2, <1>3, <1>4
<1>7. \A c \in Calls : c # n => attempts'[c] = attempts[c] /\ answer'[c] = answer[c]
  BY <1>3, <1>4, <1>5
<1> QED
  BY <1>1, <1>6, <1>7 DEF n

LEMMA CallsStep == TypeOK /\ NotSent /\ Answered /\ [Next]_vars => NotSent' /\ Answered'
<1> SUFFICES ASSUME TypeOK, NotSent, Answered, [Next]_vars PROVE NotSent' /\ Answered'
  OBVIOUS
<1> USE DEF TypeOK, NotSent, Answered, Calls
<1>1. CASE Send
  <2>1. PICK n \in Calls :
            /\ n = sent + 1 /\ sent' = n
            /\ answer'[n] \in {NULL, "edge"}
            /\ \A c \in Calls : c # n => attempts'[c] = attempts[c] /\ answer'[c] = answer[c]
    BY <1>1, SendStep
  <2>2. \A c \in Calls : c > n => c > sent /\ c # n
    BY <2>1
  <2>3. NotSent'
    BY <2>1, <2>2
  <2>4. Answered'
    BY <2>1, GatewayAssumption
  <2> QED
    BY <2>3, <2>4
<1>2. ASSUME NEW t \in Attempts, Serve(t) PROVE NotSent' /\ Answered'
  BY <1>2 DEF Serve
<1>3. ASSUME NEW s \in Attempts \cup {Key}, Recover(s) PROVE NotSent' /\ Answered'
  BY <1>3 DEF Recover
<1>4. ASSUME NEW c \in Calls, PassThrough(c) \/ ConnectionFails(c) \/ TimesOut(c) PROVE NotSent' /\ Answered'
  BY <1>4, ForwardingStep, GatewayAssumption
<1>5. CASE Settled \/ UNCHANGED vars
  BY <1>5 DEF Settled, vars
<1> QED
  BY <1>1, <1>2, <1>3, <1>4, <1>5 DEF Next

(* Only Serve gives replies, and it gives the state that it leaves.          *)
LEMMA RepliesStep == TypeOK /\ RepliesTrue /\ [Next]_vars => RepliesTrue'
<1> SUFFICES ASSUME TypeOK, RepliesTrue, [Next]_vars PROVE RepliesTrue'
  OBVIOUS
<1>1. SagasFinal /\ intent' = intent
  BY SagasStayFinal
<1>2. \A t \in Attempts : SagaOf(t)' = SagaOf(t) /\ SagaOf(t) \in Attempts \cup {Key}
  BY <1>1, SagaOfType DEF SagaOf
<1>3. CASE UNCHANGED reply
  BY <1>1, <1>2, <1>3 DEF RepliesTrue, SagasFinal, Final
<1>4. ASSUME NEW t \in Attempts, Serve(t) PROVE RepliesTrue'
  <2>1. CASE Place(t)
    <3>1. PICK state : /\ saga' = [saga EXCEPT ![SagaOf(t)] = state]
                       /\ \E r \in Replies(state) : ReplyTo(t, r)
      BY <2>1 DEF Place
    <3>2. PICK r \in Replies(state) : ReplyTo(t, r)
      BY <3>1
    <3>3. saga'[SagaOf(t)] = state
      BY <1>2, <3>1 DEF TypeOK
    <3>4. (r = "created" => state = "placed") /\ (r = "rejected" => state = "rejected")
      BY DEF Replies
    <3>5. UNCHANGED reply \/ reply' = [reply EXCEPT ![t] = r]
      BY <3>2 DEF ReplyTo
    <3>6. CASE reply' = [reply EXCEPT ![t] = r]
      BY <1>1, <1>2, <3>3, <3>4, <3>6 DEF RepliesTrue, SagasFinal, Final, TypeOK
    <3> QED
      BY <1>3, <3>5, <3>6
  <2>2. CASE UNCHANGED saga /\ \E r \in {"ok", "failed"} : ReplyTo(t, r)
    BY <1>2, <2>2 DEF RepliesTrue, ReplyTo, TypeOK
  <2> QED
    BY <1>4, <2>1, <2>2 DEF Serve
<1>5. ASSUME NEW s \in Attempts \cup {Key}, Recover(s) PROVE RepliesTrue'
  BY <1>3, <1>5 DEF Recover
<1>6. ASSUME NEW c \in Calls, PassThrough(c) \/ ConnectionFails(c) \/ TimesOut(c)
      PROVE RepliesTrue'
  BY <1>3, <1>6 DEF PassThrough, ConnectionFails, TimesOut
<1>7. CASE Send \/ Settled \/ UNCHANGED vars
  BY <1>3, <1>7 DEF Send, Settled, vars
<1> QED
  BY <1>4, <1>5, <1>6, <1>7 DEF Next

(* An answered call makes no more attempts, so its answer stays that of the   *)
(* attempt it came from.                                                     *)
LEMMA AnswersStep == IInv /\ [Next]_vars => AnswersTrue'
<1> SUFFICES ASSUME IInv, [Next]_vars PROVE AnswersTrue'
  OBVIOUS
<1> USE DEF IInv
<1>1. SagasFinal /\ intent' = intent
  BY SagasStayFinal
<1>2. \A t \in Attempts : SagaOf(t)' = SagaOf(t) /\ SagaOf(t) \in Attempts \cup {Key}
  BY <1>1, SagaOfType DEF SagaOf
<1>3. ASSUME NEW c \in Calls, answer'[c] = answer[c],
             answer[c] \in {"created", "rejected"} => attempts'[c] = attempts[c]
      PROVE AnswerTrue(c)'
  <2>1. CASE answer[c] \in {"created", "rejected"}
    <3>1. Current(c) \in Attempts /\ Current(c)' = Current(c)
      BY <1>3, <2>1, CurrentIsAttempt, GatewayAssumption DEF Answered, Current
    <3> QED
      BY <1>1, <1>2, <1>3, <2>1, <3>1 DEF AnswersTrue, AnswerTrue, SagasFinal, Final
  <2>2. CASE answer[c] \notin {"created", "rejected"}
    BY <1>3, <2>2 DEF AnswerTrue
  <2> QED
    BY <2>1, <2>2
<1>4. CASE UNCHANGED <<answer, attempts>>
  BY <1>3, <1>4 DEF AnswersTrue, AnswerTrue
<1>5. CASE Send
  <2>1. PICK n \in Calls :
            /\ answer'[n] \in {NULL, "edge"}
            /\ \A c \in Calls : c # n => attempts'[c] = attempts[c] /\ answer'[c] = answer[c]
    BY <1>5, SendStep
  <2>2. AnswerTrue(n)'
    BY <2>1, GatewayAssumption DEF AnswerTrue
  <2> QED
    BY <1>3, <2>1, <2>2 DEF AnswersTrue, AnswerTrue
<1>6. ASSUME NEW d \in Calls, PassThrough(d) PROVE AnswersTrue'
  <2>1. Current(d) \in Attempts /\ Current(d)' = Current(d)
    BY <1>6, CurrentIsAttempt DEF PassThrough, Forwarding, Current, TypeOK, Calls
  <2>2. answer'[d] = reply[Current(d)]
    BY <1>6 DEF PassThrough, TypeOK
  <2>3. AnswerTrue(d)'
    BY <1>1, <1>2, <1>6, <2>1, <2>2 DEF PassThrough, RepliesTrue, AnswerTrue, SagasFinal, Final
  <2>4. ASSUME NEW c \in Calls, c # d
        PROVE answer'[c] = answer[c] /\ attempts'[c] = attempts[c]
    BY <1>6, <2>4 DEF PassThrough, TypeOK
  <2> QED
    BY <1>3, <2>3, <2>4 DEF AnswersTrue, AnswerTrue
<1>7. ASSUME NEW d \in Calls, ConnectionFails(d) \/ TimesOut(d) PROVE AnswersTrue'
  <2>1. answer'[d] \in {NULL, "unreachable"}
    BY <1>7 DEF ConnectionFails, TimesOut, Forwarding, TypeOK
  <2>2. AnswerTrue(d)'
    BY <2>1, GatewayAssumption DEF AnswerTrue
  <2>3. ASSUME NEW c \in Calls, c # d
        PROVE answer'[c] = answer[c] /\ attempts'[c] = attempts[c]
    BY <1>7, <2>3 DEF ConnectionFails, TimesOut, TypeOK
  <2> QED
    BY <1>3, <2>2, <2>3 DEF AnswersTrue, AnswerTrue
<1>8. ASSUME NEW t \in Attempts, Serve(t) PROVE AnswersTrue'
  BY <1>4, <1>8 DEF Serve
<1>9. ASSUME NEW s \in Attempts \cup {Key}, Recover(s) PROVE AnswersTrue'
  BY <1>4, <1>9 DEF Recover
<1>10. CASE Settled \/ UNCHANGED vars
  BY <1>4, <1>10 DEF Settled, vars
<1> QED
  BY <1>5, <1>6, <1>7, <1>8, <1>9, <1>10 DEF Next

(* The proved result: for every number of calls.                             *)
THEOREM AnswersStayTrue == Spec => []AnswersTrue
<1>1. IInv /\ [Next]_vars => IInv'
  BY TypeStep, CallsStep, RepliesStep, AnswersStep DEF IInv
<1>2. IInv => AnswersTrue
  BY DEF IInv
<1> QED
  BY Initially, <1>1, <1>2, PTL DEF Spec

-----------------------------------------------------------------------------
(* What TLC checks of a call is that it is answered in the end. What it takes   *)
(* for granted there: it has at most two attempts, and it is answered once.   *)
AnsweredOnce ==
    [][\A c \in Calls : answer[c] # NULL => answer'[c] = answer[c] /\ attempts'[c] = attempts[c]]_vars

(* forwardToUpstream counts one retry and no more: every variable, that count  *)
(* of attempts included, keeps its type for every number of calls.           *)
THEOREM TypeCorrect == Spec => []TypeOK
<1>1. IInv => TypeOK
  BY DEF IInv
<1>2. Init => TypeOK
  BY <1>1, Initially
<1> QED
  BY <1>2, TypeStep, PTL DEF Spec

LEMMA AnswerStays ==
    ASSUME TypeOK, NotSent, Next, NEW c \in Calls, answer[c] # NULL
    PROVE answer'[c] = answer[c] /\ attempts'[c] = attempts[c]
<1>1. CASE Send
  <2>1. PICK n \in Calls :
          /\ n = sent + 1 /\ sent' = n
          /\ \A d \in Calls : d # n => attempts'[d] = attempts[d] /\ answer'[d] = answer[d]
    BY <1>1, SendStep
  <2>2. c # sent + 1
    BY DEF NotSent, TypeOK, Calls
  <2> QED
    BY <2>1, <2>2
<1>2. ASSUME NEW d \in Calls, PassThrough(d) \/ ConnectionFails(d) \/ TimesOut(d)
      PROVE answer'[c] = answer[c] /\ attempts'[c] = attempts[c]
  <2>1. d # c
    BY <1>2 DEF PassThrough, ConnectionFails, TimesOut, Forwarding
  <2> QED
    BY <1>2, <2>1 DEF PassThrough, ConnectionFails, TimesOut, TypeOK
<1>3. CASE Settled
  BY <1>3 DEF Settled, vars
<1>4. ASSUME NEW t \in Attempts, Serve(t) PROVE UNCHANGED <<answer, attempts>>
  BY <1>4 DEF Serve
<1>5. ASSUME NEW s \in Attempts \cup {Key}, Recover(s) PROVE UNCHANGED <<answer, attempts>>
  BY <1>5 DEF Recover
<1> QED
  BY <1>1, <1>2, <1>3, <1>4, <1>5 DEF Next

(* A call that has been answered is over: no late reply, no timer that fires   *)
(* afterwards and no second attempt answers it again or forwards it anew.     *)
THEOREM CallsAreAnsweredOnce == Spec => AnsweredOnce
<1>1. TypeOK /\ NotSent /\ [Next]_vars
        => [\A c \in Calls : answer[c] # NULL =>
               answer'[c] = answer[c] /\ attempts'[c] = attempts[c]]_vars
  BY AnswerStays
<1>2. IInv /\ [Next]_vars => IInv'
  BY TypeStep, CallsStep, RepliesStep, AnswersStep DEF IInv
<1>3. IInv => TypeOK /\ NotSent
  BY DEF IInv
<1> QED
  BY Initially, <1>1, <1>2, <1>3, PTL DEF Spec, AnsweredOnce

-----------------------------------------------------------------------------
(* How many orders there can be. An attempt of POST /orders is the first and   *)
(* only one of a call that the client has made, while it travels and when its  *)
(* saga exists.                                                              *)
AfloatAskedFor ==
    \A t \in afloat : t[1] <= sent /\ (intent.route = "POST /orders" => t[2] = 1)

SagasAskedFor ==
    \A s \in Attempts \cup {Key} :
        saga[s] # "none" =>
            IF intent.keyed THEN s = Key ELSE s \in Attempts /\ s[1] <= sent /\ s[2] = 1

AskedFor == AfloatAskedFor /\ SagasAskedFor

LEMMA AskedForStep == TypeOK /\ NotSent /\ AskedFor /\ [Next]_vars => AskedFor'
<1> SUFFICES ASSUME TypeOK, NotSent, AskedFor, [Next]_vars PROVE AskedFor'
  OBVIOUS
<1>1. intent' = intent /\ sent \in Nat /\ afloat \subseteq Attempts
  <2>1. intent' = intent
    BY SagasStayFinal
  <2>2. sent \in Nat /\ afloat \subseteq Attempts
    BY GatewayAssumption DEF TypeOK
  <2> QED
    BY <2>1, <2>2
<1>0. \A t \in Attempts : t[1] \in Nat
  BY GatewayAssumption DEF Attempts, Calls
<1>a. AfloatAskedFor /\ SagasAskedFor
  BY DEF AskedFor
<1>2. ASSUME UNCHANGED saga, sent' \in Nat, sent' >= sent PROVE SagasAskedFor'
  <2>1. ASSUME NEW s \in Attempts \cup {Key}, saga'[s] # "none"
        PROVE  IF intent'.keyed THEN s = Key ELSE s \in Attempts /\ s[1] <= sent' /\ s[2] = 1
    <3>1. saga[s] # "none"
      BY <1>2, <2>1
    <3>2. IF intent.keyed THEN s = Key ELSE s \in Attempts /\ s[1] <= sent /\ s[2] = 1
      BY <1>a, <3>1 DEF SagasAskedFor
    <3>3. s \in Attempts => s[1] \in Nat
      BY <1>0
    <3> QED
      BY <1>1, <1>2, <3>2, <3>3
  <2> QED
    BY <2>1 DEF SagasAskedFor
<1>3. CASE Send
  <2>1. /\ sent' = sent + 1 /\ UNCHANGED saga
        /\ afloat' \subseteq afloat \cup {<<sent', 1>>}
    BY <1>3 DEF Send
  <2>2. ASSUME NEW t \in afloat'
        PROVE  t[1] <= sent' /\ (intent.route = "POST /orders" => t[2] = 1)
    <3>1. CASE t \in afloat
      <4>1. t[1] \in Nat
        BY <1>0, <1>1, <3>1
      <4>2. t[1] <= sent /\ (intent.route = "POST /orders" => t[2] = 1)
        BY <1>a, <3>1 DEF AfloatAskedFor
      <4>3. sent' = sent + 1 /\ sent \in Nat
        BY <1>1, <2>1
      <4>4. t[1] <= sent
        BY <4>2
      <4>5. t[1] <= sent'
        BY <4>1, <4>3, <4>4
      <4> QED
        BY <4>2, <4>5
    <3>2. CASE t = <<sent', 1>>
      <4>1. t[1] = sent' /\ t[2] = 1
        BY <3>2
      <4> QED
        BY <1>1, <2>1, <4>1
    <3> QED
      BY <2>1, <2>2, <3>1, <3>2
  <2>3. AfloatAskedFor'
    BY <1>1, <2>2 DEF AfloatAskedFor
  <2>4. SagasAskedFor'
    BY <1>1, <1>2, <2>1
  <2> QED
    BY <2>3, <2>4 DEF AskedFor
<1>4. ASSUME NEW t \in Attempts, Serve(t) PROVE AskedFor'
  <2>1. AfloatAskedFor' /\ sent' = sent
    BY <1>1, <1>a, <1>4 DEF Serve, AfloatAskedFor
  <2>2. CASE UNCHANGED saga
    <3>1. sent' \in Nat /\ sent' >= sent
      BY <1>1, <2>1
    <3> QED
      BY <1>2, <2>1, <2>2, <3>1 DEF AskedFor
  <2>3. CASE Place(t)
    <3>1. intent.route = "POST /orders" /\ \E state : saga' = [saga EXCEPT ![SagaOf(t)] = state]
      BY <2>3 DEF Place
    <3>2. t[1] <= sent /\ t[2] = 1
      BY <1>a, <1>4, <3>1 DEF Serve, AfloatAskedFor
    <3>3. \A s \in Attempts \cup {Key} : s # SagaOf(t) => saga'[s] = saga[s]
      BY <3>1 DEF TypeOK
    <3> QED
      BY <1>1, <1>a, <2>1, <3>2, <3>3 DEF AskedFor, SagasAskedFor, SagaOf
  <2> QED
    BY <1>4, <2>2, <2>3 DEF Serve
<1>5. ASSUME NEW s \in Attempts \cup {Key}, Recover(s) PROVE AskedFor'
  <2>1. saga[s] # "none" /\ UNCHANGED <<intent, sent, afloat>>
    BY <1>5 DEF Recover
  <2>2. \A r \in Attempts \cup {Key} : r # s => saga'[r] = saga[r]
    BY <1>5 DEF Recover, TypeOK
  <2> QED
    BY <1>a, <2>1, <2>2 DEF AskedFor, AfloatAskedFor, SagasAskedFor
<1>6. ASSUME NEW c \in Calls, PassThrough(c) \/ ConnectionFails(c) \/ TimesOut(c)
      PROVE AskedFor'
  <2>1. sent' = sent /\ UNCHANGED saga /\ c <= sent
    <3>1. sent' = sent /\ answer[c] = NULL /\ attempts[c] > 0 /\ UNCHANGED saga
      BY <1>6, ForwardingStep DEF PassThrough, ConnectionFails, TimesOut
    <3>2. ~(c > sent)
      <4>1. attempts[c] \in Nat
        BY DEF TypeOK
      <4>2. attempts[c] # 0
        BY <3>1, <4>1
      <4> QED
        BY <4>2 DEF NotSent
    <3>3. c \in Nat
      BY GatewayAssumption DEF Calls
    <3>4. c <= sent
      BY <1>1, <3>2, <3>3
    <3> QED
      BY <3>1, <3>4
  <2>2. \/ afloat' \subseteq afloat
        \/ MayRetry(c) /\ afloat' \subseteq afloat \cup {<<c, attempts[c] + 1>>}
    BY <1>6 DEF PassThrough, ConnectionFails, TimesOut, Abandon
  <2>3. MayRetry(c) => intent.route # "POST /orders"
    BY DEF MayRetry
  <2>4. ASSUME NEW t \in afloat'
        PROVE  t[1] <= sent /\ (intent.route = "POST /orders" => t[2] = 1)
    <3>1. CASE t \in afloat
      BY <1>a, <3>1 DEF AfloatAskedFor
    <3>2. CASE MayRetry(c) /\ t = <<c, attempts[c] + 1>>
      <4>1. t[1] = c
        BY <3>2
      <4> QED
        BY <2>1, <2>3, <3>2, <4>1
    <3> QED
      BY <2>2, <2>4, <3>1, <3>2
  <2>5. AfloatAskedFor'
    BY <1>1, <2>1, <2>4 DEF AfloatAskedFor
  <2>6. sent' \in Nat /\ sent' >= sent
    BY <1>1, <2>1
  <2> QED
    BY <1>2, <2>1, <2>5, <2>6 DEF AskedFor
<1>7. CASE Settled \/ UNCHANGED vars
  <2>1. UNCHANGED <<intent, sent, afloat, saga>>
    BY <1>7 DEF Settled, vars
  <2>2. sent' \in Nat /\ sent' >= sent
    BY <1>1, <2>1
  <2> QED
    BY <1>a, <1>2, <2>1, <2>2 DEF AskedFor, AfloatAskedFor
<1> QED
  BY <1>3, <1>4, <1>5, <1>6, <1>7 DEF Next

(* The gateway adds no order of its own: over any number of calls, lost        *)
(* answers and late arrivals, one order with a key, and without one never more *)
(* than were asked for.                                                      *)
THEOREM NoOrderIsSurplus == Spec => []NoSurplusOrder
<1>1. Init => AskedFor
  BY DEF Init, AskedFor, AfloatAskedFor, SagasAskedFor
<1>2. TypeOK /\ AskedFor => NoSurplusOrder
  <2> SUFFICES ASSUME TypeOK, AskedFor PROVE NoSurplusOrder
    OBVIOUS
  <2> DEFINE live == Placed \cup {s \in DOMAIN saga : saga[s] = "open"}
             asked == (1..sent) \X {1}
  <2>1. live \subseteq {s \in Attempts \cup {Key} : saga[s] # "none"}
    BY DEF Placed, TypeOK
  <2>2. CASE intent.keyed
    <3>1. live \subseteq {Key}
      BY <2>1, <2>2 DEF AskedFor, SagasAskedFor
    <3>2. IsFiniteSet({Key}) /\ Cardinality({Key}) = 1
      BY FS_Singleton
    <3>3. Cardinality(live) <= 1
      <4> HIDE DEF live
      <4> QED
        BY <3>1, <3>2, FS_Subset
    <3> QED
      BY <2>2, <3>3 DEF NoSurplusOrder
  <2>3. CASE ~intent.keyed
    <3>1. live \subseteq asked
      <4> SUFFICES ASSUME NEW s \in live PROVE s \in asked
        OBVIOUS
      <4>1. s \in Attempts /\ s[1] <= sent /\ s[2] = 1
        BY <2>1, <2>3 DEF AskedFor, SagasAskedFor
      <4>2. s[1] \in Nat /\ s[1] >= 1 /\ s = <<s[1], s[2]>>
        BY <4>1, GatewayAssumption DEF Attempts, Calls
      <4>3. s[1] \in 1..sent
        BY <4>1, <4>2, GatewayAssumption DEF TypeOK
      <4> QED
        BY <4>1, <4>2, <4>3
    <3>2. sent \in Nat /\ IsFiniteSet(1..sent) /\ Cardinality(1..sent) = sent
      <4>1. sent \in Nat
        BY GatewayAssumption DEF TypeOK
      <4> QED
        BY <4>1, FS_Interval
    <3>3. IsFiniteSet({1}) /\ Cardinality({1}) = 1
      BY FS_Singleton
    <3>4. IsFiniteSet(asked) /\ Cardinality(asked) = Cardinality(1..sent) * Cardinality({1})
      BY <3>2, <3>3, FS_Product, Zenon
    <3>5. Cardinality(asked) = sent
      BY <3>2, <3>3, <3>4
    <3>6. Cardinality(live) <= sent
      <4> HIDE DEF live, asked
      <4> QED
        BY <3>1, <3>4, <3>5, FS_Subset
    <3> QED
      BY <2>3, <3>6 DEF NoSurplusOrder
  <2> QED
    BY <2>2, <2>3
<1>3. IInv /\ [Next]_vars => IInv'
  BY TypeStep, CallsStep, RepliesStep, AnswersStep DEF IInv
<1>4. IInv => TypeOK /\ NotSent
  BY DEF IInv
<1> QED
  BY Initially, <1>1, <1>2, <1>3, <1>4, AskedForStep, PTL DEF Spec
=============================================================================
