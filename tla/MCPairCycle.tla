---------------------------- MODULE MCPairCycle -----------------------------
(***************************************************************************)
(* Small instances of PairCycle for TLC: one pair, prices of a few ticks.  *)
(***************************************************************************)
EXTENDS PairCycle

MCGain == [k \in Pos |-> k + 1]
MCPct == <<50, 30>>
=============================================================================
