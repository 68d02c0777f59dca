---------------------------- MODULE MCOrderClient ----------------------------
(***************************************************************************)
(* Small instances of OrderClient for TLC: a buy and the placement of a    *)
(* stop order, which share the circuit breaker.                            *)
(***************************************************************************)
EXTENDS OrderClient

MCKind == [o \in Order |-> IF o = 1 THEN "buy" ELSE "stop"]
=============================================================================
