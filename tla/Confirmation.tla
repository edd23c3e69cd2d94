---------------------------- MODULE Confirmation ----------------------------
(***************************************************************************)
(* What shopflow-notifications promises about an order's confirmation: the  *)
(* intent is recorded before the provider hears of it, a delivered intent   *)
(* names a message the provider holds, and delivery is never taken back.    *)
(* How often the provider is told is not part of this promise.              *)
(***************************************************************************)
EXTENDS Naturals

CONSTANTS Orders, NoReceipt

VARIABLES
    status,     \* "NONE", or the status of the order's notification
    messages,   \* how many messages about the order the provider accepted
    receipt     \* which of them the notification names

confirmationVars == <<status, messages, receipt>>

Init ==
    /\ status = [o \in Orders |-> "NONE"]
    /\ messages = [o \in Orders |-> 0]
    /\ receipt = [o \in Orders |-> NoReceipt]

Register(o) ==
    /\ status[o] = "NONE"
    /\ status' = [status EXCEPT ![o] = "PENDING"]
    /\ UNCHANGED <<messages, receipt>>

(* The provider accepts a message; a slow one may be accepted at any time.   *)
Accept(o) ==
    /\ status[o] # "NONE"
    /\ messages' = [messages EXCEPT ![o] = @ + 1]
    /\ UNCHANGED <<status, receipt>>

Deliver(o) ==
    /\ status[o] = "PENDING"
    /\ \E id \in 1..messages[o] : receipt' = [receipt EXCEPT ![o] = id]
    /\ status' = [status EXCEPT ![o] = "DELIVERED"]
    /\ UNCHANGED messages

Next == \E o \in Orders : Register(o) \/ Accept(o) \/ Deliver(o)

Spec == Init /\ [][Next]_confirmationVars
=============================================================================
