----------------------------- MODULE MCFencing -----------------------------
(***************************************************************************)
(* Two bridges, three versions and three starts: the predecessor, its      *)
(* successor, and one more start of either after what the two have left.   *)
(***************************************************************************)
EXTENDS FencingProperties, TLC

CONSTANTS b1, b2

TwoBridges == {b1, b2}
BridgeSymmetry == Permutations(TwoBridges)

\* Groups of two records, none and one.
EndOfIdleMiddle == [v \in 0..3 |-> IF v = 0 THEN 0 ELSE IF v = 3 THEN 3 ELSE 2]
=============================================================================
