----------------------- MODULE MCNotificationDelivery -----------------------
(* Small instances of NotificationDelivery: one order, one or two dispatches  *)
(* of its confirmation, and the delivery worker.                             *)
EXTENDS NotificationDelivery, TLC

CONSTANTS d1, d2, o1

OneOrder == {o1}
OneDispatch == {d1}
TwoDispatches == {d1, d2}
SameOrder == [d \in Dispatches |-> o1]
=============================================================================
