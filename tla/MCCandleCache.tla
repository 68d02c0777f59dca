---------------------------- MODULE MCCandleCache ----------------------------
(***************************************************************************)
(* CandleCache as it is; the numbers of the instance are in the cfg.       *)
(***************************************************************************)
EXTENDS CandleCache
=============================================================================
