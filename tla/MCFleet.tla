------------------------------- MODULE MCFleet -------------------------------
(* Fleet for TLC.  The pairs are the two of the source; the USDC is counted *)
(* in units of the smallest order.                                          *)
EXTENDS Fleet, TLC

Symmetry == Permutations(Pair)
=============================================================================
