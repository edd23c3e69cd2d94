---------------------------- MODULE MCOrderSaga -----------------------------
(* Small instances of OrderSaga: one request alone, or two requests that     *)
(* repeat one client key with the same or with another body.                *)
EXTENDS OrderSaga, TLC

CONSTANTS r1, r2, k1, p1, px

MCProductIds == {p1, px}
MCProducts == {p1}
MCPrice == p1 :> 2
MCMaxInt == 4

\* One request alone.
OneRequest == {r1}
OneKey == r1 :> k1
OneProduct == r1 :> p1
OneQuantity == r1 :> 1
OneStock == p1 :> 1

\* Two requests with the same key.
TwoRequests == {r1, r2}
TwoKeys == r1 :> k1 @@ r2 :> k1
TwoProducts == r1 :> p1 @@ r2 :> p1
TwoQuantities == r1 :> 1 @@ r2 :> 2
TwoStock == p1 :> 2

\* The same key with a second body, whose product does not exist.
OtherBodyProducts == r1 :> p1 @@ r2 :> px

\* Two requests without keys that want more than there is.
RivalKeys == r1 :> NULL @@ r2 :> NULL

\* Executions in which the worker never runs next to a request.
NoOverlap == (\E r \in Requests : pc[r] \notin {"start", "done"}) => pc[Worker] = "idle"

=============================================================================
