------------------------------ MODULE MCBridge ------------------------------
(***************************************************************************)
(* Instances of Bridge for TLC.  Three versions are enough for a batch of  *)
(* several groups, a batch after an acknowledged one, and an idle version  *)
(* in either place; a group has a mutation record and its VersionEnd.  The *)
(* last version of an instance may be one that cannot be delivered.        *)
(***************************************************************************)
EXTENDS BridgeInvariant

\* Version 1 has two records, version 2 moves the watermark only, 3 has two,
\* 4 has one.
EndOfIdleMiddle == [v \in 0..4 |-> <<0, 2, 2, 4, 5>>[v + 1]]

\* Three versions with records.
EndOfAllBusy == [v \in 0..3 |-> <<0, 2, 4, 5>>[v + 1]]

\* Two versions, the last one idle.
EndOfIdleLast == [v \in 0..2 |-> <<0, 2, 2>>[v + 1]]

\* Two versions of two records each.
EndOfBusy == [v \in 0..2 |-> <<0, 2, 4>>[v + 1]]

\* One version of two records.
EndOfOne == [v \in 0..1 |-> <<0, 2>>[v + 1]]

None == {}
Second == {2}
Third == {3}
Fourth == {4}
=============================================================================
