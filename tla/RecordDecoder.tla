--------------------------- MODULE RecordDecoder ----------------------------
(***************************************************************************)
(* deserialize_record() and the input checks of the serialize functions.   *)
(*                                                                         *)
(* A message is a parsed FDBMutationRecord: which arm of its oneof is set  *)
(* and what the arm holds.  Keys and values are copied by both directions  *)
(* and are left out.  The ranges keep their shape and lose their size: the *)
(* wire's uint64 version exceeds the largest native version, the wire's    *)
(* int32 type code leaves 0..MaxTypeCode on both sides, and a sequence     *)
(* number is 0..MaxSequenceNo on the wire and in the checks.               *)
(***************************************************************************)
EXTENDS Integers, Sequences

CONSTANTS
  MaxNativeVersion,   \* _MAX_VERSION
  MaxSequenceNo,      \* _MAX_SEQUENCE_NO
  MaxTypeCode         \* _MAX_TYPE_CODE

ClearRange == 1

ASSUME RecordDecoderAssumption ==
  /\ MaxNativeVersion \in Nat /\ MaxSequenceNo \in Nat
  /\ MaxTypeCode \in Nat /\ ClearRange <= MaxTypeCode

\* What protobuf can hold in the fields of one FDBMutation.
WireIndex == {<<v, s>> : v \in 0..MaxNativeVersion + 1, s \in 0..MaxSequenceNo}
WireCode  == -1..MaxTypeCode + 1

Unset   == "unset"
NoIndex == <<>>

WireMutation ==
  [index : WireIndex \cup {NoIndex}, arm : {"clear_range", Unset}, code : {ClearRange}]
  \cup [index : WireIndex \cup {NoIndex}, arm : {"single_key"}, code : WireCode]

\* DecodeFailure, for one mutation; "none" when it decodes.
Failure(m) ==
  IF m.index = NoIndex THEN "MISSING_VERSION_INDEX"
  ELSE IF m.index[1] > MaxNativeVersion THEN "VERSION_OUT_OF_RANGE"
  ELSE IF m.arm = Unset THEN "NO_MUTATION_ARM"
  ELSE IF m.arm = "single_key" /\ m.code \notin 0..MaxTypeCode THEN "TYPE_CODE_OUT_OF_RANGE"
  ELSE "none"

\* The Mutation the reader returns: the clear_range arm has no code of its own.
Decoded(m) == [type |-> m.code, index |-> m.index]

Rejected(reason) == [kind |-> "rejected", reason |-> reason]

\* Only the version is compared, not the sequence number.
SameVersion(mutations) ==
  \A i \in DOMAIN mutations : mutations[i].index[1] = mutations[1].index[1]

\* Every mutation is one further than the one before it.
Consecutive(mutations) ==
  \A i \in DOMAIN mutations :
    mutations[i].index = <<mutations[1].index[1], mutations[1].index[2] + i - 1>>

DecodeBatch(ms) ==
  LET bad == {i \in DOMAIN ms : Failure(ms[i]) # "none"}
  IN  IF bad # {} THEN Rejected(Failure(ms[CHOOSE i \in bad : \A j \in bad : i <= j]))
      ELSE IF ms = <<>> THEN Rejected("EMPTY_BATCH")
      ELSE IF ~ Consecutive(ms) THEN Rejected("INCONSISTENT_BATCH")
      ELSE [kind |-> "batch", mutations |-> [i \in DOMAIN ms |-> Decoded(ms[i])]]

DecodeMutation(m) ==
  IF Failure(m) # "none" THEN Rejected(Failure(m))
  ELSE [kind |-> "mutation", mutations |-> <<Decoded(m)>>]

DecodeEnd(version, total) ==
  IF version > MaxNativeVersion THEN Rejected("VERSION_OUT_OF_RANGE")
  ELSE [kind |-> "end", version |-> version, total |-> total]

\* deserialize_record() of a message that parses.
Decode(message) ==
  IF message.body = Unset THEN Rejected("NO_RECORD_ARM")
  ELSE IF message.body = "batch" THEN DecodeBatch(message.mutations)
  ELSE IF message.body = "mutation" THEN DecodeMutation(message.mutations[1])
  ELSE DecodeEnd(message.version, message.total)

-----------------------------------------------------------------------------
(* The other direction: _checks and _wire.                                  *)

\* _wire.mutation_message(): a clear range has an arm of its own.
Encoded(m) ==
  [index |-> m.index, code |-> m.type,
   arm |-> IF m.type = ClearRange THEN "clear_range" ELSE "single_key"]

\* Checks and positions of serialize_batch() on a group's slice.
Acceptable(types, version, first) ==
  /\ version \in 0..MaxNativeVersion
  /\ first \in 0..MaxSequenceNo
  /\ \A i \in DOMAIN types : /\ first + i - 1 \in 0..MaxSequenceNo
                             /\ types[i] \in 0..MaxTypeCode

BatchMessage(types, version, first) ==
  [body |-> "batch",
   mutations |-> [i \in DOMAIN types |->
     Encoded([type |-> types[i], index |-> <<version, first + i - 1>>])]]

EndMessage(version, total) ==
  [body |-> "version_end", version |-> version, total |-> total]

\* serialize_mutation() or serialize_batch() of what was decoded.
TypesOf(record) == [i \in DOMAIN record.mutations |-> record.mutations[i].type]
FirstIndex(record) == record.mutations[1].index

Writable(record) ==
  Acceptable(TypesOf(record), FirstIndex(record)[1], FirstIndex(record)[2])

Rewrite(record) ==
  [BatchMessage(TypesOf(record), FirstIndex(record)[1], FirstIndex(record)[2])
     EXCEPT !.body = record.kind]

-----------------------------------------------------------------------------
(* A message read, written again, and read again.                           *)

CONSTANT MaxBatch   \* mutations in a foreign batch

VARIABLES
  wire,      \* the message on the topic
  reading,   \* what the last read returned
  first      \* what the first read returned

decoderVars == <<wire, reading, first>>

NotRead == [kind |-> "not read"]

Message ==
  {[body |-> Unset]}
  \cup {[body |-> "batch", mutations |-> ms] :
          ms \in UNION {[1..n -> WireMutation] : n \in 0..MaxBatch}}
  \cup {[body |-> "mutation", mutations |-> <<m>>] : m \in WireMutation}
  \cup {[body |-> "version_end", version |-> v, total |-> t] :
          v \in 0..MaxNativeVersion + 1, t \in 0..1}

\* A topic may hold records this bridge did not write.
DecoderInit ==
  /\ wire \in Message
  /\ reading = NotRead
  /\ first = NotRead

Read ==
  /\ reading = NotRead
  /\ reading' = Decode(wire)
  /\ first' = IF first = NotRead THEN Decode(wire) ELSE first
  /\ UNCHANGED wire

\* A consumer forwards what it decoded.
Forward ==
  /\ reading.kind \in {"mutation", "batch"}
  /\ reading = first
  /\ Writable(reading)
  /\ wire' = Rewrite(reading)
  /\ reading' = NotRead
  /\ UNCHANGED first

DecoderNext == Read \/ Forward
=============================================================================
