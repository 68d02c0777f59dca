---------------------------- MODULE MCWalkForward ----------------------------
(***************************************************************************)
(* A small instance of WalkForward for TLC: bars in units of fifty.        *)
(***************************************************************************)
EXTENDS WalkForward, TLC

CONSTANTS hours, days, c1, c2, c3, c4, chosen

MCFrames == {hours, days}
MCDaily == {days}
MCConfigs == {c1, c2, c3, c4}
MCFrameOf == [c \in MCConfigs |-> IF c = c4 THEN days ELSE hours]
Symmetric == Permutations({c1, c2, c3})
=============================================================================
