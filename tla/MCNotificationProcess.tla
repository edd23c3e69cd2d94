------------------------ MODULE MCNotificationProcess ------------------------
(* Requests for the same or for different orders and the worker, with fewer   *)
(* clients than the three of them need for a step each.                      *)
EXTENDS NotificationProcess
=============================================================================
