----------------------------- MODULE MCGateway ------------------------------
(* Every intent of a client, sent up to three times.                         *)
EXTENDS Gateway
=============================================================================
