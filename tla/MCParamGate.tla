----------------------------- MODULE MCParamGate -----------------------------
(***************************************************************************)
(* A small instance of ParamGate for TLC.                                  *)
(***************************************************************************)
EXTENDS ParamGate, TLC

CONSTANTS p1, p2, t1, t2, factory, nothing

MCPairs == {p1, p2}
MCThresholds == {t1, t2}
Symmetric == Permutations(MCPairs) \cup Permutations(MCThresholds)
=============================================================================
