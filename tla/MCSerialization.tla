--------------------------- MODULE MCSerialization --------------------------
(***************************************************************************)
(* Small instance: sizes around 127 framed bytes, where the length varint  *)
(* grows from one byte to two.  61 and 62 framed make 127 together, 62     *)
(* twice makes 128; 140 fits the larger limit only.                        *)
(***************************************************************************)
EXTENDS SerializationProperties

MCPayload == {61, 62, 140}
\* Every group of up to two mutations, three longer ones, and a malformed one.
MCGroups ==
  UNION {[1..n -> MCPayload] : n \in 0..2}
  \cup {<<61, 62, 61>>, <<61, 140, 62>>, <<62, 61, 62, 62>>, <<61, Malformed>>}
MCLimits == {20, 140, 270}
MCEnvelopes == {10, 11}
=============================================================================
