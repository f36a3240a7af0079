----------------------- MODULE SerializationProperties ----------------------
(***************************************************************************)
(* What the serializer promises of one call, what the reader of a topic    *)
(* may rely on across attempts, and what the reader of one record may.     *)
(***************************************************************************)
EXTENDS GroupStream

vars == <<groupVars, streamVars, processVars, topicVars, decoderVars>>

\* A stream with no foreign record; or one foreign record and no stream.
Init ==
  \/ /\ GroupStreamInit
     /\ wire = [body |-> Unset]
     /\ reading = Decode(wire)
     /\ first = reading
  \/ /\ DecoderInit
     /\ log = [v \in CommitVersion |-> <<>>]
     /\ maxRecordBytes = 1
     /\ released = LastVersion
     /\ StreamIdle

Next ==
  \/ GroupStreamNext /\ UNCHANGED decoderVars
  \/ DecoderNext /\ UNCHANGED <<groupVars, streamVars, processVars, topicVars>>

Spec == Init /\ [][Next]_vars

-----------------------------------------------------------------------------
(* One call.  References: the length of a protobuf varint, and the bytes of *)
(* a record as the protobuf encoder (external) writes it.                   *)

\* Seven bits of the number in each byte, the lowest first.
EncodedVarint[n \in Nat] == IF n < 128 THEN 1 ELSE 1 + EncodedVarint[n \div 128]
EncodedField(payload) == 1 + EncodedVarint[payload] + payload

\* Bytes of the mutations a .. b - 1 of the group, framed.
Bytes(a, b) ==
  LET upTo[i \in a..b] == IF i = a THEN 0 ELSE upTo[i - 1] + EncodedField(natives[i])
  IN  upTo[b]
EncodedBatch(a, b) == envelope + EncodedField(Bytes(a, b))
EncodedEnd(total) ==
  envelope + EncodedField(EndFields + IF total = 0 THEN 0 ELSE 1 + EncodedVarint[total])

\* serialize_version_group: every record it returns fits max_record_bytes, as
\* the encoder writes it and not only as the loop computed it.
RecordsFit ==
  phase = "returned" =>
    /\ \A k \in DOMAIN slices : EncodedBatch(slices[k][1], slices[k][2]) <= limit
    /\ EncodedEnd(Len(natives)) <= limit

\* serialize_version_group: greedy slicing is as good as any.  No other cut of
\* the group into records that fit has fewer of them.
FewestRecords ==
  phase = "returned" =>
    \A cuts \in SUBSET (1..Len(natives) - 1) :
      LET ends  == cuts \cup {Len(natives)}
          From(e) == IF \E c \in cuts : c < e THEN CHOOSE c \in cuts : c < e /\ \A d \in cuts : d < e => d <= c ELSE 0
      IN  (\A e \in ends : EncodedBatch(From(e), e) <= limit) => Len(slices) <= Cardinality(ends)

\* serialize_version_group: a group is refused for its size only when it
\* cannot be delivered under this limit at all: a mutation, or the version end,
\* fits no record even by itself.
RefusesOnlyUndeliverable ==
  phase = "too large" =>
    \/ \E i \in 1..Len(natives) : EncodedBatch(i - 1, i) > limit
    \/ EncodedEnd(Len(natives)) > limit

-----------------------------------------------------------------------------
(* The topic, over restarts that cut a group anew.                          *)

\* SERIALIZATION-SPEC section 6: whatever was published of an attempt that was
\* given up, a reader sees every group start at position 0, go on without a gap
\* and end with a VersionEnd that counts exactly what it has read.
ReaderContract == ~ reader.broken

\* poll_records and acknowledge: what is released to FoundationDB was taken
\* over by the reader, each group once, with every native mutation of it.
ReleasedIsTaken ==
  /\ \A v \in 1..released : log[v] # <<>> => <<v, Len(log[v])>> \in reader.taken
  /\ \A t \in reader.taken : t[2] = Len(log[t[1]])

\* How often the topic carries a mutation, and how often a version end.
Copies(v, i) ==
  Cardinality({p \in DOMAIN topic : /\ topic[p].kind = "batch" /\ topic[p].version = v
                                    /\ topic[p].from <= i /\ i < topic[p].upto})
EndCopies(v) == Cardinality({p \in DOMAIN topic : topic[p].kind = "end" /\ topic[p].version = v})

\* demo/workload.py verify_workload: it accepts what was consumed exactly when
\* every mutation of the workload arrived once, every group with its version
\* end, and no version end twice; the order and the slices do not matter.
VerifierExact ==
  Verified(verifier) <=>
    /\ \A x \in Coordinates : Copies(x[1], x[2]) = 1
    /\ \A v \in CommitVersion : IF log[v] = <<>> THEN EndCopies(v) <= 1 ELSE EndCopies(v) = 1

\* deserialize_record: "Every returned Mutation / MutationBatch can be
\* serialized again", and reading that gives the same mutations.
ReadableIsWritable ==
  first.kind \in {"mutation", "batch"} => Writable(first) /\ reading \in {NotRead, first}
=============================================================================
