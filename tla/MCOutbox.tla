------------------------------ MODULE MCOutbox ------------------------------
(* Small instances of Outbox: two handlers of one order (a saga and its      *)
(* replay) next to the loop.                                                 *)
EXTENDS Outbox, TLC

CONSTANTS h1, h2, o1

TwoHandlers == {h1, h2}
OneOrder == {o1}
SameOrder == [h \in Handlers |-> o1]
=============================================================================
