---------------------------- MODULE VersionGroup ----------------------------
(***************************************************************************)
(* serialize_version_group(): one version group cut into records.          *)
(*                                                                         *)
(* The call is a loop over the native mutations of one commit version.  It *)
(* computes the size each record would have instead of encoding it, closes *)
(* a slice when the next mutation would push the record over the limit,    *)
(* and adds a VersionEnd with the number of mutations.  A mutation is what *)
(* the loop reads of it: the bytes of its protobuf message, which hold its *)
(* version index already.  Positions count from 0, as in the code; a slice *)
(* <<a, b>> is the mutations at a .. b - 1.                                *)
(***************************************************************************)
EXTENDS Integers, Sequences

CONSTANTS
  Payload,     \* the sizes a mutation's message may have
  EndFields    \* bytes of the version and the timestamp inside a VersionEnd

ASSUME VersionGroupAssumption ==
  /\ Payload \subseteq Nat
  /\ EndFields \in Nat

\* An element that is not a native mutation, or whose type code is no byte.
Malformed == -1

VARIABLES
  natives,     \* the group's mutations, in native order
  limit,       \* max_record_bytes
  envelope,    \* bytes of stream_name and timestamp, in every record
  position,    \* mutations the loop has passed
  offset,      \* offset[p + 1]: framed bytes of the first p mutations (history)
  slices,      \* the slices closed so far
  start,       \* where the open slice begins
  batchBytes,  \* framed bytes of the open slice
  phase        \* "idle", "checking", "slicing", "returned", "malformed", "too large"

callVars  == <<natives, limit, envelope>>
sliceVars == <<position, offset, slices, start, batchBytes>>
groupVars == <<callVars, sliceVars, phase>>

-----------------------------------------------------------------------------
(* _varint_bytes, _framed_bytes and the two size formulas of the loop.      *)

\* int.bit_length() of a natural number.
BitLength[n \in Nat] == IF n = 0 THEN 0 ELSE 1 + BitLength[n \div 2]

\* The varint of n carries seven bits a byte; rounded down it loses the last.
VarintRoundsDown(n) == IF n = 0 THEN 1 ELSE (BitLength[n] + 5) \div 7

VarintBytes(n) == IF n = 0 THEN 1 ELSE (BitLength[n] + 6) \div 7

\* Both tags, `batch` and `mutations`, take one byte.
Framed(payload) == 1 + VarintBytes(payload) + payload

\* The size of the record that carries a batch of `bytes` framed bytes.
RecordBytes(bytes) == envelope + Framed(bytes)

\* The size of a VersionEnd; proto3 leaves a zero total out of the message.
EndBytes(env, total) ==
  env + Framed(EndFields + IF total = 0 THEN 0 ELSE 1 + VarintBytes(total))

-----------------------------------------------------------------------------

\* The locals of serialize_version_group for group g, before its loop.
Locals(g, maxRecordBytes, envelopeBytes, in) ==
  /\ natives' = g
  /\ limit' = maxRecordBytes
  /\ envelope' = envelopeBytes
  /\ position' = 0
  /\ offset' = <<0>>
  /\ slices' = <<>>
  /\ start' = 0
  /\ batchBytes' = 0
  /\ phase' = in

GroupInit ==
  /\ natives \in Seq(Payload \cup {Malformed})
  /\ limit \in Nat \ {0}
  /\ envelope \in Nat
  /\ position = 0
  /\ offset = <<0>>
  /\ slices = <<>>
  /\ start = 0
  /\ batchBytes = 0
  /\ phase = "checking"

\* The whole group is read and checked before the first size is computed.
Check ==
  /\ phase = "checking"
  /\ phase' = IF \A i \in DOMAIN natives : natives[i] # Malformed
                THEN "slicing" ELSE "malformed"
  /\ UNCHANGED <<callVars, sliceVars>>

\* The next mutation, framed; the record with it; the record of it alone.
FramedNext == Framed(natives[position + 1])

Grown == RecordBytes(batchBytes + FramedNext)

\* The bytes of the open slice are not left out.
AloneGrown == RecordBytes(batchBytes + FramedNext)

Alone == RecordBytes(FramedNext)

\* A record of exactly the limit counts as too large.
StartsSliceAtLimit == batchBytes = 0 \/ Grown >= limit

\* The next mutation starts a slice: it is the first, or closes the open one.
StartsSlice == batchBytes = 0 \/ Grown > limit

\* The loop advances over the next mutation.
PassMutation ==
  /\ position' = position + 1
  /\ offset' = Append(offset, offset[position + 1] + FramedNext)

Looping == phase = "slicing" /\ position < Len(natives)

JoinSlice ==
  /\ Looping
  /\ ~ StartsSlice
  /\ batchBytes' = batchBytes + FramedNext
  /\ PassMutation
  /\ UNCHANGED <<callVars, slices, start, phase>>

\* The closed slice takes the mutation that did not fit, too.
CloseOpenSliceLate ==
  slices' = IF batchBytes = 0 THEN slices ELSE Append(slices, <<start, position + 1>>)

CloseOpenSlice ==
  slices' = IF batchBytes = 0 THEN slices ELSE Append(slices, <<start, position>>)

OpenSlice ==
  /\ Looping
  /\ StartsSlice
  /\ Alone <= limit
  /\ CloseOpenSlice
  /\ start' = position
  /\ batchBytes' = FramedNext
  /\ PassMutation
  /\ UNCHANGED <<callVars, phase>>

\* RecordTooLargeError: one mutation alone does not fit; it is never split.
RefuseMutation ==
  /\ Looping
  /\ StartsSlice
  /\ Alone > limit
  /\ phase' = "too large"
  /\ UNCHANGED <<callVars, sliceVars>>

\* After the loop: the last slice, the VersionEnd, and the result.
ReturnRecords ==
  /\ phase = "slicing"
  /\ position = Len(natives)
  /\ EndBytes(envelope, Len(natives)) <= limit
  /\ CloseOpenSlice
  /\ start' = position
  /\ batchBytes' = 0
  /\ phase' = "returned"
  /\ UNCHANGED <<callVars, position, offset>>

RefuseVersionEnd ==
  /\ phase = "slicing"
  /\ position = Len(natives)
  /\ EndBytes(envelope, Len(natives)) > limit
  /\ phase' = "too large"
  /\ UNCHANGED <<callVars, sliceVars>>

GroupNext ==
  \/ Check
  \/ JoinSlice
  \/ OpenSlice
  \/ RefuseMutation
  \/ ReturnRecords
  \/ RefuseVersionEnd

GroupSpec == GroupInit /\ [][GroupNext]_groupVars

-----------------------------------------------------------------------------
(* The records returned.                                                    *)

Batch(v, s)    == [kind |-> "batch", version |-> v, from |-> s[1], upto |-> s[2]]
End(v, total)  == [kind |-> "end", version |-> v, total |-> total]

VersionEnd(v) == End(v, Len(natives))

\* The records of the group of commit version v, once the call has returned.
Returned(v) == Append([k \in DOMAIN slices |-> Batch(v, slices[k])], VersionEnd(v))

-----------------------------------------------------------------------------
(* The inductive invariant of the call.                                     *)

\* Computed size of the record with the mutations a .. b - 1.
SliceBytes(a, b) == RecordBytes(offset[b + 1] - offset[a + 1])

GroupTypeOK ==
  /\ natives \in Seq(Payload \cup {Malformed})
  /\ limit \in Nat \ {0}
  /\ envelope \in Nat
  /\ position \in 0..Len(natives)
  /\ offset \in Seq(Nat)
  /\ Len(offset) = position + 1
  /\ slices \in Seq(Nat \X Nat)
  /\ start \in 0..position
  /\ batchBytes \in Nat
  /\ phase \in {"idle", "checking", "slicing", "returned", "malformed", "too large"}

\* Only well-formed mutations are passed, and offset adds up their frames.
OffsetOK ==
  /\ phase \in {"slicing", "returned", "too large"} =>
       \A i \in 1..Len(natives) : natives[i] # Malformed
  /\ offset[1] = 0
  /\ \A i \in 1..position : offset[i + 1] = offset[i] + Framed(natives[i])

\* The open slice: its bytes, and that it fits.
OpenSliceOK ==
  /\ batchBytes = offset[position + 1] - offset[start + 1]
  /\ batchBytes = 0 <=> start = position
  /\ batchBytes > 0 => RecordBytes(batchBytes) <= limit

\* The closed slices: not empty, one after the other from 0 to the open one.
SlicesCover ==
  /\ \A k \in 1..Len(slices) :
       /\ slices[k][1] = IF k = 1 THEN 0 ELSE slices[k - 1][2]
       /\ slices[k][1] < slices[k][2]
       /\ slices[k][2] <= start
  /\ start = IF slices = <<>> THEN 0 ELSE slices[Len(slices)][2]

\* serialize_version_group: a slice closed is a record that fits, by the sizes
\* the loop computes.
SlicesFit ==
  \A k \in 1..Len(slices) : SliceBytes(slices[k][1], slices[k][2]) <= limit

\* serialize_version_group: at every point of the loop the slices closed so far
\* cover the mutations from 0 on without gap or overlap, each fits the limit,
\* and the open slice is accounted for byte by byte.
GroupInv ==
  /\ GroupTypeOK
  /\ OffsetOK
  /\ OpenSliceOK
  /\ SlicesCover
  /\ SlicesFit
=============================================================================
