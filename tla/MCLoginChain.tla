---------------------------- MODULE MCLoginChain ----------------------------
(* One account that logs in again and again, on two gateways.  *)
EXTENDS LoginChain

CONSTANT a1

MCaccid == [i \in Login |-> a1]
=============================================================================
