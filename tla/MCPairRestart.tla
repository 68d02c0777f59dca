--------------------------- MODULE MCPairRestart ----------------------------
(***************************************************************************)
(* A small instance of PairRestart for TLC.                                *)
(***************************************************************************)
EXTENDS PairRestart

MCGain == <<2, 9>>
MCPct == <<50, 30>>
=============================================================================
