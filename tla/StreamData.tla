----------------------------- MODULE StreamData -----------------------------
(***************************************************************************)
(* The data the bridge moves, cut down to what its properties tell apart.  *)
(*                                                                         *)
(* A CDC stream is a sequence of commit versions 1..MaxVersion.  The       *)
(* serializer turns the mutations of a version into an ordered group of    *)
(* records that ends with the group's VersionEnd; all groups together are  *)
(* the positions 1, 2, 3, ... of one log, and EndOf[v] is the position of  *)
(* the last record of the groups up to version v.  A version whose group   *)
(* is empty (EndOf[v] = EndOf[v - 1]) is one that moves the watermark      *)
(* only.  When a reply's watermark is such a version the listener adds a   *)
(* VersionEnd that belongs to no group: the record -v.                     *)
(***************************************************************************)
EXTENDS Integers, Sequences

CONSTANTS
  MaxVersion,   \* the last commit version of the stream; bounds the model
  EndOf         \* EndOf[v]: last record position of the groups of 1..v

ASSUME StreamAssumption ==
  /\ MaxVersion \in Nat
  /\ EndOf \in [0..MaxVersion -> Nat]
  /\ EndOf[0] = 0
  /\ \A a, b \in 0..MaxVersion : a <= b => EndOf[a] <= EndOf[b]

Version == 1..MaxVersion

\* The records of the groups of all versions up to v.
UpTo(v) == 1..EndOf[v]

\* The records of the group of version v; the last one is its VersionEnd.
Group(v) == EndOf[v - 1] + 1 .. EndOf[v]

\* Nothing in the key range was mutated at v: only the watermark moves.
Idle(v) == EndOf[v] = EndOf[v - 1]

\* Every record the listener can return, watermark VersionEnds included.
Record == 1..EndOf[MaxVersion] \cup {-v : v \in Version}

\* What poll_records() returns for the native reply that carries the versions
\* after lo up to the watermark hi: every group in order, then the watermark
\* VersionEnd when the watermark is beyond the last group.
Reply(lo, hi) ==
  LET groups == EndOf[hi] - EndOf[lo]
      marks  == IF Idle(hi) THEN 1 ELSE 0
  IN  [i \in 1..(groups + marks) |-> IF i <= groups THEN EndOf[lo] + i ELSE -hi]

\* The members of a sequence of records.
Members(s) == {s[i] : i \in DOMAIN s}
=============================================================================
