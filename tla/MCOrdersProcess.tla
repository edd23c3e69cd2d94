--------------------------- MODULE MCOrdersProcess ---------------------------
(* Batches of two rows for three orders: two that an earlier process has left *)
(* behind in any state, and one whose request races with the recovery.       *)
EXTENDS OrdersProcess

MCBacklog ==
    [saga : {"UNCERTAIN"}, outbox : {"none"}]
    \cup [saga : {"DECREMENTED", "COMPLETED"}, outbox : {"PENDING"}]
=============================================================================
