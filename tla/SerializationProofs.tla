------------------------ MODULE SerializationProofs -------------------------
(***************************************************************************)
(* Proofs about the serializer and the readers of the topic, for every     *)
(* log, limit, envelope and number of restarts.                            *)
(*                                                                         *)
(* Whatever a reader decodes it can write again (ReadableIsWritable).  The *)
(* records of interrupted and repeated calls of serialize_version_group    *)
(* keep the reader contract (ReaderContract) and lose no group             *)
(* (ReleasedIsTaken); verify_workload() tells what the topic holds         *)
(* (VerifierExact).  The records of one call fit the limit (RecordsFit),   *)
(* are as few as possible (FewestRecords), and are refused only when they  *)
(* must be (RefusesOnlyUndeliverable).                                     *)
(***************************************************************************)
EXTENDS SerializationProperties, VersionGroupProofs, FiniteSetTheorems, FunctionTheorems

(***************************************************************************)
(* One record, read and written again.                                     *)
(***************************************************************************)
\* A record that deserialize_record() returned and the serializer accepts.
GoodMutations(ms, v, s) ==
  /\ v \in 0..MaxNativeVersion
  /\ Len(ms) \in Nat \ {0}
  /\ ms = [i \in 1..Len(ms) |-> [type |-> ms[i].type, index |-> <<v, s + i - 1>>]]
  /\ \A i \in 1..Len(ms) : /\ ms[i].type \in 0..MaxTypeCode
                           /\ s + i - 1 \in 0..MaxSequenceNo

GoodRecord(r) ==
  /\ r = [kind |-> r.kind, mutations |-> r.mutations]
  /\ r.kind \in {"mutation", "batch"}
  /\ r.kind = "mutation" => Len(r.mutations) = 1
  /\ \E v, s \in Nat : GoodMutations(r.mutations, v, s)

\* What decodes is in range.
LEMMA DecodedInRange ==
  ASSUME NEW m \in WireMutation, Failure(m) = "none"
  PROVE  \E v \in 0..MaxNativeVersion, s \in 0..MaxSequenceNo :
           /\ m.index = <<v, s>>
           /\ m.code \in 0..MaxTypeCode
  <1>1. m.index # NoIndex
    BY DEF Failure
  <1>2. m.index \in WireIndex
    BY <1>1 DEF WireMutation
  <1>3. PICK v \in 0..MaxNativeVersion + 1, s \in 0..MaxSequenceNo : m.index = <<v, s>>
    BY <1>2 DEF WireIndex
  <1>4. v <= MaxNativeVersion
    <2>1. ~ (m.index[1] > MaxNativeVersion)
      BY <1>1 DEF Failure
    <2>. QED BY <2>1, <1>3, RecordDecoderAssumption
  <1>5. m.arm # Unset /\ (m.arm = "single_key" => m.code \in 0..MaxTypeCode)
    BY <1>1, <1>3, <1>4, RecordDecoderAssumption DEF Failure
  <1>6. m.arm = "clear_range" => m.code = ClearRange
    BY DEF WireMutation
  <1>7. m.arm \in {"clear_range", Unset, "single_key"}
    BY DEF WireMutation
  <1>8. m.code \in 0..MaxTypeCode
    BY <1>5, <1>6, <1>7, RecordDecoderAssumption DEF ClearRange
  <1>9. v \in 0..MaxNativeVersion
    BY <1>3, <1>4, RecordDecoderAssumption
  <1>. QED BY <1>3, <1>8, <1>9

\* Encoding and decoding one mutation.
LEMMA EncodedDecodes ==
  ASSUME NEW t \in 0..MaxTypeCode, NEW v \in 0..MaxNativeVersion, NEW s \in Nat
  PROVE  LET m == Encoded([type |-> t, index |-> <<v, s>>])
         IN  Failure(m) = "none" /\ Decoded(m) = [type |-> t, index |-> <<v, s>>]
  <1>. DEFINE m == Encoded([type |-> t, index |-> <<v, s>>])
  <1>1. m.index = <<v, s>> /\ m.code = t /\ m.arm \in {"clear_range", "single_key"}
    BY DEF Encoded
  <1>2. <<v, s>> # << >> /\ <<v, s>>[1] = v
    OBVIOUS
  <1>3. ~(v > MaxNativeVersion)
    BY RecordDecoderAssumption
  <1>. HIDE DEF m
  <1>4. Failure(m) = "none"
    BY <1>1, <1>2, <1>3 DEF Failure, NoIndex, Unset
  <1>5. Decoded(m) = [type |-> t, index |-> <<v, s>>]
    BY <1>1 DEF Decoded
  <1>. QED BY <1>4, <1>5 DEF m

\* What a read returns is a good record, unless the message is rejected or a
\* version end.
LEMMA DecodedIsGood ==
  ASSUME NEW message \in Message, Decode(message).kind \in {"mutation", "batch"}
  PROVE  GoodRecord(Decode(message))
  <1>1. CASE message.body = "batch"
    <2>0. PICK n \in 0..MaxBatch :
            \E ms \in [1..n -> WireMutation] : message.mutations = ms
      BY <1>1 DEF Message, Unset
    <2>1. PICK ms \in [1..n -> WireMutation] : message.mutations = ms
      BY <2>0
    <2>2. Decode(message) = DecodeBatch(ms)
      BY <1>1, <2>1 DEF Decode, Unset
    <2>. DEFINE bad == {i \in DOMAIN ms : Failure(ms[i]) # "none"}
                mutations == [i \in DOMAIN ms |-> Decoded(ms[i])]
    <2>3. bad = {} /\ ms # << >> /\ Consecutive(ms)
      BY <2>2 DEF DecodeBatch, Rejected
    <2>4. Decode(message) = [kind |-> "batch", mutations |-> mutations]
      BY <2>2, <2>3 DEF DecodeBatch
    <2>5. \A i \in 1..n : Failure(ms[i]) = "none" /\ ms[i] \in WireMutation
      BY <2>3
    <2>6. n \in Nat \ {0}
      BY <2>1, <2>3
    <2>7. PICK v \in 0..MaxNativeVersion, s \in 0..MaxSequenceNo : ms[1].index = <<v, s>>
      BY <2>5, <2>6, DecodedInRange
    <2>8. \A i \in 1..n : ms[i].index = <<v, s + i - 1>>
      <3>1. \A i \in DOMAIN ms : ms[i].index = <<ms[1].index[1], ms[1].index[2] + i - 1>>
        BY <2>3 DEF Consecutive
      <3>2. DOMAIN ms = 1..n /\ ms[1].index[1] = v /\ ms[1].index[2] = s
        BY <2>7
      <3>. QED BY <3>1, <3>2
    <2>9. ASSUME NEW i \in 1..n
          PROVE  ms[i].code \in 0..MaxTypeCode /\ s + i - 1 \in 0..MaxSequenceNo
      <3>1. PICK w \in 0..MaxNativeVersion, t \in 0..MaxSequenceNo :
              ms[i].index = <<w, t>> /\ ms[i].code \in 0..MaxTypeCode
        BY <2>5, DecodedInRange
      <3>2. s + i - 1 = t
        BY <2>8, <3>1
      <3>. QED BY <3>1, <3>2
    <2>10. /\ Len(mutations) = n
           /\ mutations = [i \in 1..n |-> [type |-> ms[i].code, index |-> <<v, s + i - 1>>]]
      <3>1. mutations = [i \in 1..n |-> Decoded(ms[i])]
        OBVIOUS
      <3>2. Len(mutations) = n
        BY <2>6, <3>1
      <3>. QED BY <2>8, <3>1, <3>2 DEF Decoded
    <2>. HIDE DEF mutations
    <2>11. GoodMutations(mutations, v, s)
      <3>1. \A i \in 1..n : mutations[i].type = ms[i].code
        BY <2>10
      <3>2. mutations = [i \in 1..n |-> [type |-> mutations[i].type, index |-> <<v, s + i - 1>>]]
        BY <2>10, <3>1
      <3>. QED BY <2>6, <2>9, <2>10, <3>1, <3>2 DEF GoodMutations
    <2>12. v \in Nat /\ s \in Nat
      BY RecordDecoderAssumption
    <2>. QED BY <2>4, <2>11, <2>12 DEF GoodRecord
  <1>2. CASE message.body = "mutation"
    <2>1. PICK m \in WireMutation : message.mutations = <<m>>
      BY <1>2 DEF Message, Unset
    <2>2. Decode(message) = DecodeMutation(m)
      BY <1>2, <2>1 DEF Decode, Unset
    <2>3. Failure(m) = "none" /\ Decode(message) = [kind |-> "mutation", mutations |-> <<Decoded(m)>>]
      BY <2>2 DEF DecodeMutation, Rejected
    <2>4. PICK v \in 0..MaxNativeVersion, s \in 0..MaxSequenceNo :
            m.index = <<v, s>> /\ m.code \in 0..MaxTypeCode
      BY <2>3, DecodedInRange
    <2>5. GoodMutations(<<Decoded(m)>>, v, s)
      BY <2>4, RecordDecoderAssumption DEF GoodMutations, Decoded
    <2>6. v \in Nat /\ s \in Nat
      BY RecordDecoderAssumption
    <2>. QED BY <2>3, <2>5, <2>6 DEF GoodRecord
  <1>3. CASE message.body = Unset
    BY <1>3 DEF Decode, Rejected
  <1>4. CASE message.body = "version_end"
    BY <1>4 DEF Decode, DecodeEnd, Rejected, Unset
  <1>. QED BY <1>1, <1>2, <1>3, <1>4 DEF Message

\* The round trip of serialization/__init__: what is readable is accepted by the
\* checks, and reading the record written gives the same mutations.
LEMMA RoundTrip ==
  ASSUME NEW r, GoodRecord(r)
  PROVE  Writable(r) /\ Decode(Rewrite(r)) = r
  <1>1. PICK v \in Nat, s \in Nat : GoodMutations(r.mutations, v, s)
    BY DEF GoodRecord
  <1>. DEFINE n == Len(r.mutations)
              ms == [i \in 1..n |-> Encoded([type |-> r.mutations[i].type, index |-> <<v, s + i - 1>>])]
  <1>2. n \in Nat \ {0} /\ v \in 0..MaxNativeVersion
    BY <1>1 DEF GoodMutations
  <1>3. r.mutations = [i \in 1..n |-> [type |-> r.mutations[i].type, index |-> <<v, s + i - 1>>]]
    BY <1>1 DEF GoodMutations
  <1>4. \A i \in 1..n : r.mutations[i].type \in 0..MaxTypeCode /\ s + i - 1 \in 0..MaxSequenceNo
    BY <1>1 DEF GoodMutations
  <1>. HIDE DEF n
  <1>5. DOMAIN r.mutations = 1..n
    BY <1>3
  <1>6. FirstIndex(r) = <<v, s>>
    <2>1. 1 \in 1..n /\ s + 1 - 1 = s
      BY <1>2
    <2>2. r.mutations[1] = [type |-> r.mutations[1].type, index |-> <<v, s + 1 - 1>>]
      BY <2>1, <1>3
    <2>. QED BY <2>1, <2>2 DEF FirstIndex
  <1>7. TypesOf(r) = [i \in 1..n |-> r.mutations[i].type]
    BY <1>5 DEF TypesOf
  <1>8. Writable(r)
    <2>1. s \in 0..MaxSequenceNo
      <3>1. 1 \in 1..n /\ s + 1 - 1 = s
        BY <1>2
      <3>. QED BY <3>1, <1>4
    <2>. QED BY <2>1, <1>2, <1>4, <1>6, <1>7 DEF Writable, Acceptable
  <1>9. Rewrite(r) = [body |-> r.kind, mutations |-> ms]
    <2>1. DOMAIN TypesOf(r) = 1..n /\ FirstIndex(r)[1] = v /\ FirstIndex(r)[2] = s
      BY <1>6, <1>7
    <2>2. BatchMessage(TypesOf(r), v, s) = [body |-> "batch", mutations |-> ms]
      BY <2>1, <1>7 DEF BatchMessage
    <2>3. Rewrite(r) = [[body |-> "batch", mutations |-> ms] EXCEPT !.body = r.kind]
      BY <2>1, <2>2, Zenon DEF Rewrite
    <2>. HIDE DEF ms
    <2>. QED BY <2>3
  <1>10. ASSUME NEW i \in 1..n
         PROVE  /\ Failure(ms[i]) = "none"
                /\ Decoded(ms[i]) = r.mutations[i]
                /\ ms[i].index = <<v, s + i - 1>>
    <2>1. s + i - 1 \in Nat
      OBVIOUS
    <2>2. r.mutations[i] = [type |-> r.mutations[i].type, index |-> <<v, s + i - 1>>]
      BY <1>3
    <2>3. ms[i] = Encoded([type |-> r.mutations[i].type, index |-> <<v, s + i - 1>>])
      OBVIOUS
    <2>. HIDE DEF ms
    <2>4. Failure(ms[i]) = "none" /\ Decoded(ms[i]) = [type |-> r.mutations[i].type, index |-> <<v, s + i - 1>>]
      BY <2>1, <2>3, <1>2, <1>4, EncodedDecodes
    <2>. QED BY <2>2, <2>3, <2>4 DEF Encoded
  <1>11. DOMAIN ms = 1..n
    OBVIOUS
  <1>. HIDE DEF ms
  <1>12. CASE r.kind = "batch"
    <2>1. {i \in DOMAIN ms : Failure(ms[i]) # "none"} = {}
      BY <1>10, <1>11
    <2>2. ms # << >>
      BY <1>2, <1>11
    <2>3. Consecutive(ms)
      <3>1. 1 \in 1..n /\ s + 1 - 1 = s
        BY <1>2
      <3>2. ms[1].index[1] = v /\ ms[1].index[2] = s
        BY <3>1, <1>10
      <3>. QED BY <3>2, <1>10, <1>11 DEF Consecutive
    <2>4. DecodeBatch(ms) = [kind |-> "batch", mutations |-> [i \in DOMAIN ms |-> Decoded(ms[i])]]
      BY <2>1, <2>2, <2>3 DEF DecodeBatch
    <2>5. [i \in DOMAIN ms |-> Decoded(ms[i])] = r.mutations
      BY <1>3, <1>10, <1>11
    <2>6. Decode(Rewrite(r)) = DecodeBatch(ms)
      BY <1>9, <1>12 DEF Decode, Unset
    <2>. QED BY <2>4, <2>5, <2>6, <1>8, <1>12 DEF GoodRecord
  <1>13. CASE r.kind = "mutation"
    <2>1. n = 1
      BY <1>13 DEF GoodRecord, n
    <2>2. Failure(ms[1]) = "none" /\ Decoded(ms[1]) = r.mutations[1]
      BY <2>1, <1>10
    <2>3. DecodeMutation(ms[1]) = [kind |-> "mutation", mutations |-> <<r.mutations[1]>>]
      BY <2>2 DEF DecodeMutation
    <2>4. <<r.mutations[1]>> = r.mutations
      BY <2>1, <1>3
    <2>5. Decode(Rewrite(r)) = DecodeMutation(ms[1])
      BY <1>9, <1>13 DEF Decode, Unset
    <2>. QED BY <2>3, <2>4, <2>5, <1>8, <1>13 DEF GoodRecord
  <1>. QED BY <1>12, <1>13 DEF GoodRecord

\* Before the first read any message may be on the topic; later it is the one
\* read first, or that one written again.
DecoderInv ==
  /\ first = NotRead => reading = NotRead /\ wire \in Message
  /\ first.kind \in {"mutation", "batch"} =>
       /\ GoodRecord(first)
       /\ reading = first \/ (reading = NotRead /\ Decode(wire) = first)
  /\ first # NotRead /\ first.kind \notin {"mutation", "batch"} => reading = first

LEMMA NotReadKind == NotRead.kind = "not read"
  BY DEF NotRead

LEMMA DecoderInvariant == Spec => []DecoderInv
  <1>1. Init => DecoderInv
    <2>1. CASE wire = [body |-> Unset] /\ reading = Decode(wire) /\ first = reading
      <3>1. reading = Rejected("NO_RECORD_ARM")
        BY <2>1 DEF Decode
      <3>2. first.kind = "rejected" /\ first # NotRead
        <4>1. first = [kind |-> "rejected", reason |-> "NO_RECORD_ARM"]
          BY <2>1, <3>1, Zenon DEF Rejected
        <4>2. first.kind = "rejected"
          BY <4>1
        <4>3. NotRead.kind # "rejected"
          BY NotReadKind
        <4>. QED BY <4>2, <4>3, Zenon
      <3>. QED BY <2>1, <3>2 DEF DecoderInv
    <2>2. CASE DecoderInit
      BY <2>2, NotReadKind DEF DecoderInit, DecoderInv
    <2>. QED BY <2>1, <2>2 DEF Init
  <1>2. DecoderInv /\ [Next]_vars => DecoderInv'
    <2>. SUFFICES ASSUME DecoderInv, [Next]_vars PROVE DecoderInv'
      OBVIOUS
    <2>1. CASE Read
      <3>1. CASE first = NotRead
        <4>1. wire \in Message /\ wire' = wire /\ first' = Decode(wire) /\ reading' = Decode(wire)
          BY <2>1, <3>1 DEF Read, DecoderInv
        <4>2. first'.kind \in {"mutation", "batch"} => GoodRecord(first')
          BY <4>1, DecodedIsGood
        <4>3. first' = NotRead => first'.kind = "not read"
          BY NotReadKind
        <4>. QED BY <4>1, <4>2, <4>3 DEF DecoderInv
      <3>2. CASE first # NotRead
        BY <2>1, <3>2 DEF Read, DecoderInv
      <3>. QED BY <3>1, <3>2
    <2>2. CASE Forward
      <3>1. reading = first /\ first.kind \in {"mutation", "batch"} /\ first' = first
            /\ reading' = NotRead /\ wire' = Rewrite(first)
        BY <2>2 DEF Forward
      <3>2. GoodRecord(first)
        BY <3>1 DEF DecoderInv
      <3>3. Decode(wire') = first
        BY <3>1, <3>2, RoundTrip
      <3>4. first # NotRead
        BY <3>1, NotReadKind
      <3>. QED BY <3>1, <3>2, <3>3, <3>4 DEF DecoderInv
    <2>3. CASE UNCHANGED decoderVars
      BY <2>3 DEF decoderVars, DecoderInv
    <2>. QED BY <2>1, <2>2, <2>3 DEF Next, DecoderNext, vars
  <1>. QED BY <1>1, <1>2, PTL DEF Spec

\* deserialize_record: every mutation or batch it returns can be serialized
\* again, whatever foreign record it came from, and reads the same for ever.
THEOREM ReadableRecordsAreWritable == Spec => []ReadableIsWritable
  <1>1. DecoderInv => ReadableIsWritable
    <2>. SUFFICES ASSUME DecoderInv, first.kind \in {"mutation", "batch"}
                  PROVE  Writable(first) /\ reading \in {NotRead, first}
      BY DEF ReadableIsWritable
    <2>1. GoodRecord(first) /\ reading \in {NotRead, first}
      BY DEF DecoderInv
    <2>. QED BY <2>1, RoundTrip
  <1>. QED BY <1>1, DecoderInvariant, PTL

-----------------------------------------------------------------------------
(***************************************************************************)
(* The stream.  The records still to be published continue what the reader *)
(* has read, attempt after attempt.                                        *)
(***************************************************************************)
BatchRecord == [kind : {"batch"}, version : CommitVersion, from : Nat, upto : Nat]
EndRecord   == [kind : {"end"}, version : CommitVersion, total : Nat]

StreamTypeOK ==
  /\ log \in [CommitVersion -> Seq(Payload \cup {Malformed})]
  /\ maxRecordBytes \in Nat \ {0} /\ timestamp \in Nat
  /\ released \in 0..LastVersion /\ watermark \in 0..LastVersion /\ version \in 0..LastVersion
  /\ records \in Seq(BatchRecord \cup EndRecord)
  /\ reader \in [open : Nat, count : Nat, last : Nat,
                 taken : SUBSET (CommitVersion \X Nat), broken : BOOLEAN]

\* A call is made on the group of `version`, and only while serializing.
CallOK ==
  /\ stage \in {"polling", "publishing", "published"} => phase = "idle"
  /\ stage = "serializing" /\ phase # "idle" => version \in CommitVersion /\ natives = log[version]
  /\ stage = "serializing" => watermark \in CommitVersion
  /\ stage = "published" => records = << >>

\* The group the reader is in, and how far, when it comes to the record at i.
OpenAt(i)  == IF i = 1 THEN reader.open
              ELSE IF records[i - 1].kind = "batch" THEN records[i - 1].version ELSE 0
CountAt(i) == IF i = 1 THEN reader.count
              ELSE IF records[i - 1].kind = "batch" THEN records[i - 1].upto ELSE 0

\* The record at i begins a group, goes on where the group stands, or ends it.
Continues(i) ==
  LET r == records[i]
      Stands(n) == OpenAt(i) = r.version /\ CountAt(i) = n
  IN  /\ r.kind = "batch" => r.from < r.upto /\ (r.from = 0 \/ Stands(r.from))
      /\ r.kind = "end" => r.total = Len(log[r.version]) /\ (r.total = 0 \/ Stands(r.total))

ChainInv == ~ reader.broken /\ \A i \in 1..Len(records) : Continues(i)

StreamInv == GroupInv /\ StreamTypeOK /\ CallOK /\ ChainInv

\* The end of version u is among the first n records, or read already.
Ended(u, n) ==
  \/ u <= reader.last
  \/ \E j \in 1..n : records[j].kind = "end" /\ records[j].version = u

\* The groups up to v have ended after n more records.
EndedUpTo(v, n) == \A u \in 1..v : log[u] # << >> => Ended(u, n)

TakenInv ==
  /\ \A t \in reader.taken : t[2] = Len(log[t[1]])
  /\ \A v \in CommitVersion : v <= reader.last /\ log[v] # << >> => <<v, Len(log[v])>> \in reader.taken
  /\ EndedUpTo(released, 0)
  /\ \A i \in 1..Len(records) :
       records[i].kind = "end" => EndedUpTo(records[i].version - 1, i - 1)
  /\ stage = "serializing" =>
       EndedUpTo(IF phase \in {"idle", "returned"} THEN version ELSE version - 1, Len(records))
  /\ stage \in {"publishing", "published"} => EndedUpTo(watermark, Len(records))

-----------------------------------------------------------------------------
\* A call begun or hung up.
LEMMA LocalsInv ==
  ASSUME NEW g \in Seq(Payload \cup {Malformed}), NEW l \in Nat \ {0}, NEW e \in Nat,
         NEW p \in {"idle", "checking"}, Locals(g, l, e, p)
  PROVE  GroupInv'
  <1>0. /\ natives' = g /\ limit' = l /\ envelope' = e /\ position' = 0 /\ offset' = <<0>>
        /\ slices' = << >> /\ start' = 0 /\ batchBytes' = 0 /\ phase' = p
    BY DEF Locals
  <1>1. GroupTypeOK'
    <2>1. offset' \in Seq(Nat) /\ Len(offset') = 0 + 1 /\ slices' \in Seq(Nat \X Nat)
      BY <1>0
    <2>2. 0 \in 0..Len(g) /\ 0 \in 0..0 /\ 0 \in Nat
      OBVIOUS
    <2>3. phase' \in {"idle", "checking", "slicing", "returned", "malformed", "too large"}
      BY <1>0, Zenon
    <2>. QED BY <1>0, <2>1, <2>2, <2>3, Zenon DEF GroupTypeOK
  <1>2. OffsetOK'
    <2>1. phase' \notin {"slicing", "returned", "too large"}
      BY <1>0
    <2>2. offset'[1] = 0 /\ 1..position' = {}
      BY <1>0
    <2>. QED BY <2>1, <2>2 DEF OffsetOK
  <1>3. OpenSliceOK'
    BY <1>0 DEF OpenSliceOK
  <1>4. SlicesCover'
    BY <1>0 DEF SlicesCover
  <1>5. SlicesFit'
    BY <1>0 DEF SlicesFit
  <1>. QED BY <1>1, <1>2, <1>3, <1>4, <1>5 DEF GroupInv

LEMMA HangUpInv ==
  ASSUME HangUp
  PROVE  GroupInv' /\ phase' = "idle"
  <1>1. << >> \in Seq(Payload \cup {Malformed}) /\ 1 \in Nat \ {0} /\ 0 \in Nat
    OBVIOUS
  <1>2. Locals(<< >>, 1, 0, "idle")
    BY DEF HangUp
  <1>3. GroupInv'
    BY <1>1, <1>2, LocalsInv
  <1>. QED BY <1>2, <1>3 DEF Locals

\* A non-empty set of versions has a least element.
LEMMA LeastIs ==
  ASSUME NEW S \in SUBSET Nat, S # {}
  PROVE  Least(S) \in S /\ \A y \in S : Least(S) <= y
  BY LeastElement DEF Least

\* What the reader decodes of a batch published.
LEMMA BatchDecodes ==
  ASSUME NEW r \in BatchRecord, r.from < r.upto
  PROVE  LET d == Decode(AsMessage(r))
         IN  /\ d.kind = "batch"
             /\ Len(d.mutations) = r.upto - r.from /\ DOMAIN d.mutations = 1..(r.upto - r.from)
             /\ d.mutations[1].index = <<r.version, r.from>>
             /\ \A i \in 1..(r.upto - r.from) :
                  d.mutations[i].index = <<r.version, r.from + i - 1>>
  <1>. DEFINE n == r.upto - r.from
              ms == [i \in 1..n |-> Encoded([type |-> 0, index |-> <<r.version, r.from + i - 1>>])]
  <1>1. /\ r.kind = "batch" /\ r.version \in CommitVersion /\ r.from \in Nat /\ r.upto \in Nat
        /\ n \in Nat \ {0}
    BY DEF BatchRecord
  <1>2. r.version \in 0..MaxNativeVersion
    BY <1>1, GroupStreamAssumption, RecordDecoderAssumption DEF CommitVersion
  <1>. HIDE DEF n
  <1>3. AsMessage(r) = [body |-> "batch", mutations |-> ms]
    BY <1>1 DEF AsMessage, BatchMessage, n
  <1>4. ASSUME NEW i \in 1..n
        PROVE  /\ Failure(ms[i]) = "none"
               /\ Decoded(ms[i]) = [type |-> 0, index |-> <<r.version, r.from + i - 1>>]
               /\ ms[i].index = <<r.version, r.from + i - 1>>
    <2>1. r.from + i - 1 \in Nat /\ 0 \in 0..MaxTypeCode
      BY <1>1, RecordDecoderAssumption
    <2>2. ms[i] = Encoded([type |-> 0, index |-> <<r.version, r.from + i - 1>>])
      OBVIOUS
    <2>. HIDE DEF ms
    <2>. QED BY <2>1, <2>2, <1>2, EncodedDecodes DEF Encoded
  <1>5. DOMAIN ms = 1..n /\ Len(ms) = n
    BY <1>1
  <1>. HIDE DEF ms
  <1>6. 1 \in 1..n /\ r.from + 1 - 1 = r.from
    BY <1>1
  <1>7. {i \in DOMAIN ms : Failure(ms[i]) # "none"} = {}
    BY <1>4, <1>5
  <1>8. ms # << >>
    BY <1>5, <1>6
  <1>9. ms[1].index = <<r.version, r.from>> /\ Decoded(ms[1]).index = <<r.version, r.from>>
    <2>1. ms[1].index = <<r.version, r.from + 1 - 1>>
      BY <1>4, <1>6
    <2>2. Decoded(ms[1]) = [type |-> 0, index |-> <<r.version, r.from + 1 - 1>>]
      BY <1>4, <1>6
    <2>. QED BY <2>1, <2>2, <1>6
  <1>10. Consecutive(ms)
    BY <1>4, <1>5, <1>9 DEF Consecutive
  <1>. DEFINE decoded == [i \in DOMAIN ms |-> Decoded(ms[i])]
  <1>11. Decode(AsMessage(r)) = [kind |-> "batch", mutations |-> decoded]
    BY <1>3, <1>7, <1>8, <1>10 DEF Decode, DecodeBatch, Unset
  <1>12. /\ Len(decoded) = n /\ DOMAIN decoded = 1..n /\ decoded[1].index = <<r.version, r.from>>
         /\ \A i \in 1..n : decoded[i].index = <<r.version, r.from + i - 1>>
    BY <1>1, <1>4, <1>5, <1>6, <1>9
  <1>. HIDE DEF decoded
  <1>. QED BY <1>11, <1>12 DEF n

\* What the reader decodes of a version end published.
LEMMA EndDecodes ==
  ASSUME NEW r \in EndRecord
  PROVE  Decode(AsMessage(r)) = [kind |-> "end", version |-> r.version, total |-> r.total]
  <1>1. r.kind = "end" /\ ~ (r.version > MaxNativeVersion)
    BY GroupStreamAssumption, RecordDecoderAssumption DEF EndRecord, CommitVersion
  <1>. QED BY <1>1 DEF AsMessage, EndMessage, Decode, DecodeEnd, Unset

\* The records of the call that returns: the slices of the group, end to end
\* from its first mutation to its last, then its version end.
LEMMA ReturnedIs ==
  ASSUME StreamInv, RunSerializer, phase' = "returned"
  PROVE  LET R == (Returned(version))'
             n == Len(R) - 1
             total == Len(log[version])
         IN  /\ version \in CommitVersion /\ total \in Nat
             /\ R \in Seq(BatchRecord \cup EndRecord) /\ n \in Nat
             /\ \A k \in 1..n : /\ R[k].kind = "batch" /\ R[k].version = version
                                /\ R[k].from = IF k = 1 THEN 0 ELSE R[k - 1].upto
                                /\ R[k].from < R[k].upto /\ R[k].upto <= total
             /\ R[n + 1].kind = "end" /\ R[n + 1].version = version /\ R[n + 1].total = total
             /\ total = IF n = 0 THEN 0 ELSE R[n].upto
  <1>. DEFINE R == (Returned(version))'
              m == Len(slices')
              total == Len(log[version])
  <1>1. ReturnRecords /\ version' = version /\ log' = log
    BY DEF RunSerializer, GroupNext, Check, JoinSlice, Looping, OpenSlice, RefuseMutation,
           RefuseVersionEnd
  <1>2. phase = "slicing" /\ position = Len(natives) /\ start' = position /\ natives' = natives
    BY <1>1 DEF ReturnRecords, callVars
  <1>3. version \in CommitVersion /\ natives = log[version]
    BY <1>2 DEF StreamInv, CallOK, RunSerializer
  <1>4. GroupInv'
    BY <1>1, GroupNextInv DEF StreamInv, GroupNext
  <1>5. slices' \in Seq(Nat \X Nat) /\ m \in Nat /\ DOMAIN slices' = 1..m
    <2>1. slices' \in Seq(Nat \X Nat)
      BY <1>4 DEF GroupInv, GroupTypeOK
    <2>. QED BY <2>1
  <1>6. /\ \A k \in 1..m : /\ slices'[k][1] = IF k = 1 THEN 0 ELSE slices'[k - 1][2]
                           /\ slices'[k][1] < slices'[k][2] /\ slices'[k][2] <= start'
        /\ start' = IF slices' = << >> THEN 0 ELSE slices'[m][2]
    BY <1>4 DEF GroupInv, SlicesCover
  <1>7. total \in Nat /\ start' = total
    <2>1. natives \in Seq(Payload \cup {Malformed})
      BY DEF StreamInv, GroupInv, GroupTypeOK
    <2>2. Len(natives) \in Nat
      BY <2>1
    <2>. QED BY <2>2, <1>2, <1>3
  <1>. DEFINE B == [k \in 1..m |-> [kind |-> "batch", version |-> version,
                                    from |-> slices'[k][1], upto |-> slices'[k][2]]]
              E == [kind |-> "end", version |-> version, total |-> total]
  <1>8. R = Append(B, E)
    BY <1>1, <1>2, <1>3, <1>5 DEF Returned, Batch, VersionEnd, End
  <1>. HIDE DEF R, m, total
  <1>9. \A k \in 1..m : slices'[k] \in Nat \X Nat
    BY <1>5
  <1>10. B \in Seq(BatchRecord)
    <2>1. ASSUME NEW k \in 1..m
          PROVE  [kind |-> "batch", version |-> version,
                  from |-> slices'[k][1], upto |-> slices'[k][2]] \in BatchRecord
      BY <1>3, <1>9 DEF BatchRecord
    <2>2. B \in [1..m -> BatchRecord]
      BY <2>1
    <2>3. m \in Nat
      BY <1>5
    <2>. HIDE DEF B
    <2>. QED BY <2>2, <2>3
  <1>11. E \in EndRecord
    BY <1>3, <1>7 DEF EndRecord
  <1>12. Len(B) = m
    BY <1>5
  <1>13. \A k \in 1..m : /\ B[k].kind = "batch" /\ B[k].version = version
                         /\ B[k].from = slices'[k][1] /\ B[k].upto = slices'[k][2]
    OBVIOUS
  <1>14. E.kind = "end" /\ E.version = version /\ E.total = total
    OBVIOUS
  <1>. HIDE DEF B, E
  <1>15. B \in Seq(BatchRecord \cup EndRecord) /\ E \in BatchRecord \cup EndRecord
    BY <1>10, <1>11
  <1>16. /\ R \in Seq(BatchRecord \cup EndRecord) /\ Len(R) = m + 1
         /\ \A k \in 1..m : R[k] = B[k]
         /\ R[m + 1] = E
    BY <1>8, <1>12, <1>15
  <1>17. slices' = << >> <=> m = 0
    BY <1>5 DEF m
  <1>18. /\ \A k \in 1..m : /\ R[k].kind = "batch" /\ R[k].version = version
                            /\ R[k].from = slices'[k][1] /\ R[k].upto = slices'[k][2]
         /\ R[m + 1].kind = "end" /\ R[m + 1].version = version /\ R[m + 1].total = total
    BY <1>13, <1>14, <1>16
  <1>19. total = IF m = 0 THEN 0 ELSE R[m].upto
    BY <1>5, <1>6, <1>7, <1>17, <1>18
  <1>20. \A k \in 1..m : /\ R[k].from = IF k = 1 THEN 0 ELSE R[k - 1].upto
                         /\ R[k].from < R[k].upto /\ R[k].upto <= total
    <2>1. ASSUME NEW k \in 1..m, k # 1 PROVE R[k - 1].upto = slices'[k - 1][2]
      <3>1. k - 1 \in 1..m
        BY <1>5, <2>1
      <3>. QED BY <3>1, <1>18
    <2>. QED BY <2>1, <1>6, <1>7, <1>18
  <1>21. Len(R) - 1 = m
    BY <1>5, <1>16
  <1>. QED BY <1>3, <1>5, <1>7, <1>16, <1>18, <1>19, <1>20, <1>21 DEF R, total
\* A record stays where it is in the chain when others are put behind it.
LEMMA ContinuesStays ==
  ASSUME StreamInv, UNCHANGED <<reader, log>>, NEW i \in 1..Len(records),
         \A j \in 1..Len(records) : records'[j] = records[j]
  PROVE  Continues(i)'
  <1>1. Continues(i) /\ Len(records) \in Nat
    BY DEF StreamInv, ChainInv, StreamTypeOK
  <1>2. records'[i] = records[i]
    OBVIOUS
  <1>3. i # 1 => records'[i - 1] = records[i - 1]
    BY <1>1
  <1>4. OpenAt(i)' = OpenAt(i) /\ CountAt(i)' = CountAt(i)
    BY <1>3 DEF OpenAt, CountAt
  <1>. QED BY <1>1, <1>2, <1>4 DEF Continues

LEMMA ChainStays ==
  ASSUME StreamInv, UNCHANGED <<reader, log>>, records' \in {records, << >>}
  PROVE  ChainInv'
  <1>1. CASE records' = << >>
    BY <1>1 DEF ChainInv, StreamInv
  <1>2. CASE records' = records
    <2>1. \A i \in 1..Len(records) : Continues(i)'
      BY <1>2, ContinuesStays
    <2>. QED BY <1>2, <2>1 DEF ChainInv, StreamInv
  <1>. QED BY <1>1, <1>2

\* What Publish does to the queue and to the reader.
LEMMA PublishReads ==
  ASSUME StreamInv, Publish
  PROVE  LET r == records[1]
         IN  /\ Len(records) \in Nat \ {0} /\ Len(records') = Len(records) - 1
             /\ records' \in Seq(BatchRecord \cup EndRecord)
             /\ \A i \in 1..Len(records') : records'[i] = records[i + 1]
             /\ reader' \in [open : Nat, count : Nat, last : Nat,
                             taken : SUBSET (CommitVersion \X Nat), broken : BOOLEAN]
             /\ ~ reader'.broken
             /\ r \in BatchRecord \cup EndRecord
             /\ r.kind = "batch" => /\ reader'.open = r.version /\ reader'.count = r.upto
                                    /\ reader'.last = reader.last /\ reader'.taken = reader.taken
             /\ r.kind = "end" => /\ reader'.open = 0 /\ reader'.count = 0
                                  /\ reader'.last = IF r.version > reader.last THEN r.version ELSE reader.last
                                  /\ reader'.taken = IF r.version > reader.last /\ r.total > 0
                                                       THEN reader.taken \cup {<<r.version, r.total>>}
                                                       ELSE reader.taken
  <1>. DEFINE r == records[1]
              Reader == [open : Nat, count : Nat, last : Nat,
                         taken : SUBSET (CommitVersion \X Nat), broken : BOOLEAN]
  <1>1. records \in Seq(BatchRecord \cup EndRecord) /\ reader \in Reader
    BY DEF StreamInv, StreamTypeOK
  <1>2. records # << >> /\ records' = Tail(records)
    BY DEF Publish
  <1>3. /\ Len(records) \in Nat \ {0} /\ Len(records') = Len(records) - 1
        /\ records' \in Seq(BatchRecord \cup EndRecord)
        /\ \A i \in 1..Len(records') : records'[i] = records[i + 1]
        /\ r \in BatchRecord \cup EndRecord /\ Head(records) = r
    BY <1>1, <1>2
  <1>4. Continues(1) /\ ~ reader.broken
    BY <1>3 DEF StreamInv, ChainInv
  <1>. HIDE DEF r
  <1>5. /\ r.kind = "batch" => r.from < r.upto /\ (r.from = 0 \/ (reader.open = r.version /\ reader.count = r.from))
        /\ r.kind = "end" => r.total = 0 \/ (reader.open = r.version /\ reader.count = r.total)
    BY <1>4 DEF Continues, OpenAt, CountAt, r
  <1>6. CASE r \in BatchRecord
    <2>1. r.kind = "batch" /\ r.version \in CommitVersion /\ r.from \in Nat /\ r.upto \in Nat /\ r.from < r.upto
      BY <1>5, <1>6 DEF BatchRecord
    <2>. DEFINE d == Decode(AsMessage(r))
    <2>2. d.kind = "batch" /\ Len(d.mutations) = r.upto - r.from /\ d.mutations[1].index = <<r.version, r.from>>
      BY <2>1, <1>6, BatchDecodes
    <2>3. reader' = ReadBatch(reader, d.mutations)
      <3>1. \/ d.kind = "batch" /\ reader' = ReadBatch(reader, d.mutations)
            \/ d.kind = "end" /\ reader' = ReadEnd(reader, d.version, d.total)
        BY <1>3 DEF Publish
      <3>. HIDE DEF d
      <3>. QED BY <3>1, <2>2
    <2>. HIDE DEF d
    <2>4. reader' = [reader EXCEPT !.open = r.version, !.count = r.from + (r.upto - r.from), !.broken = FALSE]
      <3>1. d.mutations[1].index[1] = r.version /\ d.mutations[1].index[2] = r.from
        BY <2>2
      <3>. QED BY <3>1, <1>4, <1>5, <2>1, <2>2, <2>3 DEF ReadBatch
    <2>5. r.from + (r.upto - r.from) = r.upto /\ r.version \in Nat
      BY <2>1 DEF CommitVersion
    <2>6. /\ reader' \in Reader /\ ~ reader'.broken
          /\ reader'.open = r.version /\ reader'.count = r.upto
          /\ reader'.last = reader.last /\ reader'.taken = reader.taken
      BY <1>1, <2>1, <2>4, <2>5
    <2>. QED BY <1>3, <2>1, <2>6 DEF r
  <1>7. CASE r \in EndRecord
    <2>1. r.kind = "end" /\ r.version \in CommitVersion /\ r.total \in Nat
      BY <1>7 DEF EndRecord
    <2>2. Decode(AsMessage(r)) = [kind |-> "end", version |-> r.version, total |-> r.total]
      BY <1>7, EndDecodes
    <2>3. reader' = ReadEnd(reader, r.version, r.total)
      <3>. DEFINE d == Decode(AsMessage(r))
      <3>1. \/ d.kind = "batch" /\ reader' = ReadBatch(reader, d.mutations)
            \/ d.kind = "end" /\ reader' = ReadEnd(reader, d.version, d.total)
        BY <1>3 DEF Publish
      <3>2. d.kind = "end" /\ d.version = r.version /\ d.total = r.total
        BY <2>2
      <3>. HIDE DEF d
      <3>. QED BY <3>1, <3>2
    <2>. DEFINE last == IF r.version > reader.last THEN r.version ELSE reader.last
                taken == IF r.version > reader.last /\ r.total > 0
                           THEN reader.taken \cup {<<r.version, r.total>>} ELSE reader.taken
    <2>4. reader' = [reader EXCEPT !.open = 0, !.count = 0, !.broken = FALSE, !.last = last, !.taken = taken]
      BY <1>1, <1>4, <1>5, <2>1, <2>3 DEF ReadEnd
    <2>5. last \in Nat /\ taken \in SUBSET (CommitVersion \X Nat)
      BY <1>1, <2>1 DEF CommitVersion
    <2>. HIDE DEF last, taken
    <2>6. /\ reader' \in Reader /\ ~ reader'.broken
          /\ reader'.open = 0 /\ reader'.count = 0
          /\ reader'.last = last /\ reader'.taken = taken
      BY <1>1, <2>4, <2>5
    <2>. QED BY <1>3, <2>1, <2>6 DEF r, last, taken
  <1>. QED BY <1>3, <1>6, <1>7

LEMMA PublishChain ==
  ASSUME StreamInv, Publish
  PROVE  ChainInv'
  <1>1. /\ Len(records) \in Nat \ {0} /\ Len(records') = Len(records) - 1
        /\ \A i \in 1..Len(records') : records'[i] = records[i + 1]
        /\ ~ reader'.broken
        /\ records[1].kind = "batch" => reader'.open = records[1].version /\ reader'.count = records[1].upto
        /\ records[1].kind = "end" => reader'.open = 0 /\ reader'.count = 0
    BY PublishReads
  <1>2. records[1].kind \in {"batch", "end"}
    BY PublishReads DEF BatchRecord, EndRecord
  <1>3. log' = log
    BY DEF Publish
  <1>4. ASSUME NEW i \in 1..Len(records') PROVE Continues(i)'
    <2>1. i + 1 \in 1..Len(records) /\ i + 1 # 1 /\ i + 1 - 1 = i
      BY <1>1
    <2>2. Continues(i + 1)
      BY <2>1 DEF StreamInv, ChainInv
    <2>3. records'[i] = records[i + 1]
      BY <1>1
    <2>4. OpenAt(i)' = OpenAt(i + 1) /\ CountAt(i)' = CountAt(i + 1)
      <3>1. CASE i = 1
        BY <1>1, <1>2, <2>1, <3>1 DEF OpenAt, CountAt
      <3>2. CASE i # 1
        <4>1. i - 1 \in 1..Len(records') /\ i - 1 + 1 = i
          BY <1>1, <3>2
        <4>2. records'[i - 1] = records[i]
          BY <1>1, <4>1
        <4>. QED BY <2>1, <3>2, <4>2 DEF OpenAt, CountAt
      <3>. QED BY <3>1, <3>2
    <2>. QED BY <1>3, <2>2, <2>3, <2>4 DEF Continues
  <1>. QED BY <1>1, <1>4 DEF ChainInv
\* Records put behind those still to be published.
LEMMA Appended ==
  ASSUME NEW s \in Seq(BatchRecord \cup EndRecord), NEW t \in Seq(BatchRecord \cup EndRecord)
  PROVE  /\ s \o t \in Seq(BatchRecord \cup EndRecord)
         /\ Len(s) \in Nat /\ Len(t) \in Nat /\ Len(s \o t) = Len(s) + Len(t)
         /\ \A i \in 1..Len(s) : (s \o t)[i] = s[i]
         /\ \A k \in 1..Len(t) : (s \o t)[Len(s) + k] = t[k]
  OBVIOUS

LEMMA SerializerChain ==
  ASSUME StreamInv, RunSerializer
  PROVE  ChainInv' /\ records' \in Seq(BatchRecord \cup EndRecord)
  <1>0. /\ log' = log /\ reader' = reader /\ version' = version
        /\ records \in Seq(BatchRecord \cup EndRecord)
    BY DEF RunSerializer, topicVars, StreamInv, StreamTypeOK
  <1>1. CASE phase' # "returned"
    <2>1. records' = records
      BY <1>1 DEF RunSerializer
    <2>. QED BY <1>0, <2>1, ChainStays
  <1>2. CASE phase' = "returned"
    <2>. DEFINE R == (Returned(version))'
                n == Len(R) - 1
                m == Len(records)
                total == Len(log[version])
    <2>1. records' = records \o R
      BY <1>2 DEF RunSerializer
    <2>2. /\ version \in CommitVersion /\ total \in Nat
          /\ R \in Seq(BatchRecord \cup EndRecord) /\ n \in Nat
          /\ \A k \in 1..n : /\ R[k].kind = "batch" /\ R[k].version = version
                             /\ R[k].from = IF k = 1 THEN 0 ELSE R[k - 1].upto
                             /\ R[k].from < R[k].upto
          /\ R[n + 1].kind = "end" /\ R[n + 1].version = version /\ R[n + 1].total = total
          /\ total = IF n = 0 THEN 0 ELSE R[n].upto
      BY <1>2, ReturnedIs
    <2>. HIDE DEF R, total
    <2>3. /\ records' \in Seq(BatchRecord \cup EndRecord)
          /\ m \in Nat /\ Len(R) = n + 1 /\ Len(records') = m + n + 1
          /\ \A i \in 1..m : records'[i] = records[i]
          /\ \A k \in 1..Len(R) : records'[m + k] = R[k]
      BY <1>0, <2>1, <2>2, Appended
    <2>. HIDE DEF n, m
    <2>4. ASSUME NEW i \in 1..m PROVE Continues(i)'
      BY <1>0, <2>3, ContinuesStays DEF m
    <2>5. ASSUME NEW i \in 1..Len(records'), i \notin 1..m PROVE Continues(i)'
      <3>. DEFINE k == i - m
      <3>0. k \in 1..n + 1 /\ i = m + k
        BY <2>2, <2>3, <2>5
      <3>. HIDE DEF k
      <3>1. records'[i] = R[k]
        BY <2>3, <3>0
      <3>2. ASSUME k # 1
            PROVE  OpenAt(i)' = version /\ CountAt(i)' = R[k - 1].upto
        <4>1. k - 1 \in 1..n /\ i # 1 /\ i - 1 = m + (k - 1) /\ k - 1 \in 1..Len(R)
          BY <2>2, <2>3, <3>0, <3>2
        <4>2. records'[i - 1] = R[k - 1]
          BY <2>3, <4>1
        <4>3. R[k - 1].kind = "batch" /\ R[k - 1].version = version
          BY <2>2, <4>1
        <4>. QED BY <4>1, <4>2, <4>3 DEF OpenAt, CountAt
      <3>3. CASE k \in 1..n
        <4>1. R[k].kind = "batch" /\ R[k].version = version /\ R[k].from < R[k].upto
          BY <2>2, <3>3
        <4>2. R[k].from = 0 \/ (OpenAt(i)' = version /\ CountAt(i)' = R[k].from)
          BY <2>2, <3>2, <3>3
        <4>. QED BY <3>1, <4>1, <4>2 DEF Continues
      <3>4. CASE k = n + 1
        <4>1. R[k].kind = "end" /\ R[k].version = version /\ R[k].total = total
          BY <2>2, <3>4
        <4>2. total = 0 \/ (OpenAt(i)' = version /\ CountAt(i)' = total)
          <5>1. CASE n = 0
            BY <2>2, <5>1
          <5>2. CASE n # 0
            <6>1. k # 1 /\ k - 1 = n
              <7>1. n \in Nat
                BY <2>2
              <7>. QED BY <3>4, <5>2, <7>1
            <6>. QED BY <2>2, <3>2, <5>2, <6>1
          <5>. QED BY <5>1, <5>2
        <4>3. total = Len(log'[version])
          BY <1>0 DEF total
        <4>. QED BY <3>1, <4>1, <4>2, <4>3 DEF Continues
      <3>. QED BY <2>2, <3>0, <3>3, <3>4
    <2>. QED BY <1>0, <2>3, <2>4, <2>5 DEF ChainInv, StreamInv
  <1>. QED BY <1>1, <1>2

LEMMA FinishChain ==
  ASSUME StreamInv, FinishReply
  PROVE  ChainInv' /\ records' \in Seq(BatchRecord \cup EndRecord)
  <1>0. /\ log' = log /\ reader' = reader /\ watermark' = watermark
        /\ records \in Seq(BatchRecord \cup EndRecord) /\ watermark \in 0..LastVersion
    BY DEF FinishReply, topicVars, StreamInv, StreamTypeOK
  <1>1. CASE records' = records
    BY <1>0, <1>1, ChainStays
  <1>2. CASE records' # records
    <2>1. /\ records' = Append(records, [kind |-> "end", version |-> watermark, total |-> 0])
          /\ log[watermark] = << >> /\ watermark \in CommitVersion
      BY <1>2 DEF FinishReply, End, StreamInv, CallOK
    <2>. DEFINE e == [kind |-> "end", version |-> watermark, total |-> 0]
    <2>2. e \in EndRecord
      BY <2>1 DEF EndRecord
    <2>3. e.kind = "end" /\ e.version = watermark /\ e.total = 0
      OBVIOUS
    <2>. HIDE DEF e
    <2>4. /\ records' \in Seq(BatchRecord \cup EndRecord)
          /\ Len(records) \in Nat /\ Len(records') = Len(records) + 1
          /\ \A i \in 1..Len(records) : records'[i] = records[i]
          /\ records'[Len(records) + 1] = e
      BY <1>0, <2>1, <2>2 DEF e
    <2>5. ASSUME NEW i \in 1..Len(records') PROVE Continues(i)'
      <3>1. CASE i \in 1..Len(records)
        BY <1>0, <2>4, <3>1, ContinuesStays
      <3>2. CASE i \notin 1..Len(records)
        <4>1. i = Len(records) + 1
          BY <2>4, <3>2
        <4>2. records'[i] = e
          BY <2>4, <4>1
        <4>3. Len(log'[watermark]) = 0
          BY <1>0, <2>1
        <4>. QED BY <2>3, <4>2, <4>3 DEF Continues
      <3>. QED BY <3>1, <3>2
    <2>. QED BY <1>0, <2>4, <2>5 DEF ChainInv, StreamInv
  <1>. QED BY <1>1, <1>2

\* StreamInv holds initially, and every step keeps it.
LEMMA StreamInitInv == Init => StreamInv
  <1>. SUFFICES ASSUME Init PROVE StreamInv
    OBVIOUS
  <1>1. /\ StreamIdle
        /\ log \in [CommitVersion -> Seq(Payload \cup {Malformed})]
        /\ maxRecordBytes \in Nat \ {0}
        /\ released \in 0..LastVersion
    <2>0. << >> \in Seq(Payload \cup {Malformed}) /\ LastVersion \in Nat
      BY GroupStreamAssumption, RecordDecoderAssumption
    <2>1. CASE GroupStreamInit
      <3>1. log \in [CommitVersion -> Seq(Payload \cup {Malformed})]
        BY <2>1, GroupStreamAssumption, Zenon DEF GroupStreamInit
      <3>2. maxRecordBytes \in Nat \ {0}
        BY <2>1, GroupStreamAssumption DEF GroupStreamInit
      <3>. QED BY <2>0, <2>1, <3>1, <3>2 DEF GroupStreamInit
    <2>2. CASE /\ log = [v \in CommitVersion |-> << >>] /\ maxRecordBytes = 1
               /\ released = LastVersion /\ StreamIdle
      BY <2>0, <2>2
    <2>. QED BY <2>1, <2>2 DEF Init
  <1>2. GroupInv
    <2>0. /\ natives = << >> /\ limit = 1 /\ envelope = 0 /\ position = 0 /\ offset = <<0>>
          /\ slices = << >> /\ start = 0 /\ batchBytes = 0 /\ phase = "idle"
      BY <1>1 DEF StreamIdle, NoCall
    <2>1. GroupTypeOK
      BY <2>0 DEF GroupTypeOK
    <2>2. OffsetOK
      BY <2>0 DEF OffsetOK
    <2>3. OpenSliceOK
      BY <2>0 DEF OpenSliceOK
    <2>4. SlicesCover
      BY <2>0 DEF SlicesCover
    <2>5. SlicesFit
      BY <2>0 DEF SlicesFit
    <2>. QED BY <2>1, <2>2, <2>3, <2>4, <2>5 DEF GroupInv
  <1>3. StreamTypeOK
    <2>1. LastVersion \in Nat
      BY GroupStreamAssumption, RecordDecoderAssumption
    <2>. QED BY <1>1, <2>1 DEF StreamIdle, StreamTypeOK, Reader0
  <1>4. CallOK
    BY <1>1 DEF StreamIdle, NoCall, CallOK
  <1>5. ChainInv
    BY <1>1 DEF StreamIdle, ChainInv, Reader0
  <1>. QED BY <1>2, <1>3, <1>4, <1>5 DEF StreamInv

LEMMA StreamNextInv == StreamInv /\ [Next]_vars => StreamInv'
  <1>. SUFFICES ASSUME StreamInv, [Next]_vars PROVE StreamInv'
    OBVIOUS
  <1>0. StreamTypeOK /\ CallOK /\ GroupInv
    BY DEF StreamInv
  <1>1. ASSUME NEW w \in CommitVersion, NEW env \in Envelopes, Poll(w, env) PROVE StreamInv'
    <2>1. /\ UNCHANGED groupVars /\ UNCHANGED <<reader, log>> /\ phase' = phase
          /\ UNCHANGED <<maxRecordBytes, released>>
          /\ stage = "polling" /\ stage' = "serializing" /\ records' = << >>
          /\ watermark' = w /\ version' = released /\ timestamp' = env
      BY <1>1 DEF Poll, topicVars, groupVars
    <2>2. GroupInv'
      BY <1>0, <2>1, GroupNextInv
    <2>3. StreamTypeOK'
      <3>1. env \in Nat /\ w \in 0..LastVersion /\ << >> \in Seq(BatchRecord \cup EndRecord)
        BY GroupStreamAssumption, RecordDecoderAssumption DEF CommitVersion
      <3>. QED BY <1>0, <2>1, <3>1, Zenon DEF StreamTypeOK
    <2>4. CallOK'
      BY <1>0, <2>1 DEF CallOK
    <2>5. ChainInv'
      BY <2>1, ChainStays
    <2>. QED BY <2>2, <2>3, <2>4, <2>5 DEF StreamInv
  <1>2. CASE SerializeGroup
    <2>1. /\ UNCHANGED <<reader, log>> /\ UNCHANGED <<maxRecordBytes, released, timestamp, watermark, records, stage>>
          /\ stage = "serializing"
          /\ version' = Least(GroupsAfter(version)) /\ GroupsAfter(version) # {}
          /\ Locals(log[version'], maxRecordBytes, timestamp, "checking")
      BY <1>2 DEF SerializeGroup, topicVars, processVars
    <2>2. version' \in CommitVersion
      <3>1. version \in 0..LastVersion /\ watermark \in 0..LastVersion /\ LastVersion \in Nat
        BY <1>0, GroupStreamAssumption, RecordDecoderAssumption DEF StreamTypeOK
      <3>2. GroupsAfter(version) \in SUBSET CommitVersion /\ CommitVersion \in SUBSET Nat
        BY <3>1 DEF GroupsAfter, CommitVersion
      <3>3. Least(GroupsAfter(version)) \in GroupsAfter(version)
        BY <2>1, <3>2, LeastIs
      <3>. QED BY <2>1, <3>2, <3>3
    <2>3. log[version'] \in Seq(Payload \cup {Malformed})
      BY <1>0, <2>2 DEF StreamTypeOK
    <2>4. GroupInv'
      BY <1>0, <2>1, <2>3, LocalsInv DEF StreamTypeOK
    <2>5. StreamTypeOK'
      <3>1. version' \in 0..LastVersion
        BY <2>2, GroupStreamAssumption, RecordDecoderAssumption DEF CommitVersion
      <3>. QED BY <1>0, <2>1, <3>1, Zenon DEF StreamTypeOK
    <2>6. CallOK'
      BY <1>0, <2>1, <2>2 DEF CallOK, Locals
    <2>7. ChainInv'
      BY <2>1, ChainStays
    <2>. QED BY <2>4, <2>5, <2>6, <2>7 DEF StreamInv
  <1>3. CASE RunSerializer
    <2>1. /\ stage = "serializing" /\ stage' \in {"serializing", "failed"}
          /\ UNCHANGED <<reader, log, maxRecordBytes, released, timestamp, watermark, version>>
          /\ GroupNext
      BY <1>3 DEF RunSerializer, topicVars, processVars
    <2>2. GroupInv'
      BY <1>0, <2>1, GroupNextInv
    <2>3. ChainInv' /\ records' \in Seq(BatchRecord \cup EndRecord)
      BY <1>3, SerializerChain
    <2>4. StreamTypeOK'
      BY <1>0, <2>1, <2>3, Zenon DEF StreamTypeOK
    <2>5. phase # "idle" /\ natives' = natives
      BY <2>1 DEF GroupNext, Check, JoinSlice, Looping, OpenSlice, RefuseMutation, ReturnRecords,
                  RefuseVersionEnd, callVars
    <2>6. CallOK'
      BY <1>0, <2>1, <2>5 DEF CallOK
    <2>. QED BY <2>2, <2>3, <2>4, <2>6 DEF StreamInv
  <1>4. CASE FinishReply
    <2>1. /\ HangUp /\ stage' \in {"failed", "publishing"}
          /\ UNCHANGED <<reader, log, maxRecordBytes, released, timestamp, watermark, version>>
      BY <1>4 DEF FinishReply, topicVars, processVars
    <2>2. GroupInv' /\ phase' = "idle"
      BY <2>1, HangUpInv
    <2>3. ChainInv' /\ records' \in Seq(BatchRecord \cup EndRecord)
      BY <1>4, FinishChain
    <2>4. StreamTypeOK'
      BY <1>0, <2>1, <2>3, Zenon DEF StreamTypeOK
    <2>5. CallOK'
      BY <2>1, <2>2 DEF CallOK
    <2>. QED BY <2>2, <2>3, <2>4, <2>5 DEF StreamInv
  <1>5. CASE Publish
    <2>1. /\ UNCHANGED groupVars /\ phase' = phase /\ stage = "publishing"
          /\ UNCHANGED <<log, maxRecordBytes, released, timestamp, watermark, version>>
          /\ stage' = IF Len(records) = 1 THEN "published" ELSE stage
      BY <1>5 DEF Publish, processVars, groupVars
    <2>2. GroupInv'
      BY <1>0, <2>1, GroupNextInv
    <2>3. ChainInv'
      BY <1>5, PublishChain
    <2>4. /\ Len(records) \in Nat \ {0} /\ Len(records') = Len(records) - 1
          /\ records' \in Seq(BatchRecord \cup EndRecord)
          /\ reader' \in [open : Nat, count : Nat, last : Nat,
                          taken : SUBSET (CommitVersion \X Nat), broken : BOOLEAN]
      BY <1>5, PublishReads
    <2>5. StreamTypeOK'
      BY <1>0, <2>1, <2>4, Zenon DEF StreamTypeOK
    <2>6. Len(records) = 1 => records' = << >>
      BY <2>4
    <2>7. CallOK'
      BY <1>0, <2>1, <2>6 DEF CallOK
    <2>. QED BY <2>2, <2>3, <2>5, <2>7 DEF StreamInv
  <1>6. CASE Release
    <2>1. /\ UNCHANGED groupVars /\ phase' = phase /\ stage = "published" /\ stage' = "polling"
          /\ UNCHANGED <<reader, log, maxRecordBytes, timestamp, watermark, version, records>>
          /\ released' = watermark
      BY <1>6 DEF Release, processVars, topicVars, groupVars
    <2>2. GroupInv'
      BY <1>0, <2>1, GroupNextInv
    <2>3. StreamTypeOK'
      BY <1>0, <2>1, Zenon DEF StreamTypeOK
    <2>4. CallOK'
      BY <1>0, <2>1 DEF CallOK
    <2>5. ChainInv'
      BY <2>1, ChainStays
    <2>. QED BY <2>2, <2>3, <2>4, <2>5 DEF StreamInv
  <1>7. ASSUME NEW l \in Limits, Resume(l) PROVE StreamInv'
    <2>1. /\ HangUp /\ stage' = "polling" /\ records' = << >> /\ maxRecordBytes' = l
          /\ UNCHANGED <<reader, log, timestamp, watermark, version, released>>
      BY <1>7 DEF Resume, topicVars
    <2>2. GroupInv' /\ phase' = "idle"
      BY <2>1, HangUpInv
    <2>3. StreamTypeOK'
      <3>1. l \in Nat \ {0} /\ << >> \in Seq(BatchRecord \cup EndRecord)
        BY GroupStreamAssumption
      <3>. QED BY <1>0, <2>1, <3>1, Zenon DEF StreamTypeOK
    <2>4. CallOK'
      BY <2>1, <2>2 DEF CallOK
    <2>5. ChainInv'
      BY <2>1, ChainStays
    <2>. QED BY <2>2, <2>3, <2>4, <2>5 DEF StreamInv
  <1>8. CASE UNCHANGED <<groupVars, streamVars, processVars, topicVars>>
    <2>1. /\ UNCHANGED groupVars /\ phase' = phase /\ natives' = natives
          /\ UNCHANGED <<reader, log, maxRecordBytes, timestamp, watermark, version, records,
                         released, stage>>
      BY <1>8 DEF groupVars, callVars, streamVars, processVars, topicVars
    <2>2. GroupInv'
      BY <1>0, <2>1, GroupNextInv
    <2>3. StreamTypeOK'
      BY <1>0, <2>1, Zenon DEF StreamTypeOK
    <2>4. CallOK'
      BY <1>0, <2>1 DEF CallOK
    <2>5. ChainInv'
      BY <2>1, ChainStays
    <2>. QED BY <2>2, <2>3, <2>4, <2>5 DEF StreamInv
  <1>. QED BY <1>1, <1>2, <1>3, <1>4, <1>5, <1>6, <1>7, <1>8 DEF Next, GroupStreamNext, vars

LEMMA StreamInvariant == Spec => []StreamInv
  BY StreamInitInv, StreamNextInv, PTL DEF Spec

\* SERIALIZATION-SPEC section 6, over any number of attempts at a group, cut
\* into other slices each time.
THEOREM ReadersSeeWholeGroups == Spec => []ReaderContract
  <1>1. StreamInv => ReaderContract
    BY DEF StreamInv, ChainInv, ReaderContract
  <1>. QED BY <1>1, StreamInvariant, PTL
-----------------------------------------------------------------------------
(***************************************************************************)
(* What is released was taken over.  Version ends are queued and read in   *)
(* the order of their versions, so when a reply is published every group   *)
(* up to its watermark has ended.                                          *)
(***************************************************************************)
\* Only records behind the first n change: what had ended still has.
LEMMA EndedStays ==
  ASSUME NEW n \in Nat, NEW m \in Nat, n <= m, NEW v \in Int, EndedUpTo(v, n),
         UNCHANGED <<reader, log>>, \A j \in 1..n : records'[j] = records[j]
  PROVE  \A u \in 1..v : log'[u] # << >> =>
           \/ u <= reader'.last
           \/ \E j \in 1..m : records'[j].kind = "end" /\ records'[j].version = u
  <1>1. ASSUME NEW u \in 1..v, log'[u] # << >>
        PROVE  \/ u <= reader'.last
               \/ \E j \in 1..m : records'[j].kind = "end" /\ records'[j].version = u
    <2>1. u <= reader.last \/ \E j \in 1..n : records[j].kind = "end" /\ records[j].version = u
      BY <1>1 DEF EndedUpTo, Ended
    <2>2. \A j \in 1..n : j \in 1..m
      OBVIOUS
    <2>. QED BY <2>1, <2>2
  <1>. QED BY <1>1

\* The parts of TakenInv that the reader and the log alone decide.
TakenOK ==
  /\ \A t \in reader.taken : t[2] = Len(log[t[1]])
  /\ \A v \in CommitVersion : v <= reader.last /\ log[v] # << >> => <<v, Len(log[v])>> \in reader.taken

QueueOK == \A i \in 1..Len(records) :
             records[i].kind = "end" => EndedUpTo(records[i].version - 1, i - 1)

LEMMA TakenStays ==
  ASSUME TakenInv, UNCHANGED <<reader, log>>
  PROVE  TakenOK' /\ (released' = released => EndedUpTo(released, 0)')
  BY DEF TakenInv, TakenOK, EndedUpTo, Ended

LEMMA QueueStays ==
  ASSUME TakenInv, StreamInv, UNCHANGED <<reader, log>>, records' \in {records, << >>}
  PROVE  QueueOK'
  <1>1. CASE records' = << >>
    BY <1>1 DEF QueueOK
  <1>2. CASE records' = records
    BY <1>2 DEF QueueOK, TakenInv, EndedUpTo, Ended
  <1>. QED BY <1>1, <1>2

LEMMA QueuedVersion ==
  ASSUME StreamInv, NEW i \in 1..Len(records)
  PROVE  records[i].version \in CommitVersion /\ records[i].kind \in {"batch", "end"}
  <1>1. records[i] \in BatchRecord \cup EndRecord
    BY DEF StreamInv, StreamTypeOK
  <1>. QED BY <1>1 DEF BatchRecord, EndRecord

LEMMA PollTaken ==
  ASSUME StreamInv, TakenInv, NEW w \in CommitVersion, NEW env \in Envelopes, Poll(w, env)
  PROVE  TakenInv'
  <1>1. /\ UNCHANGED <<reader, log>> /\ phase' = phase /\ released' = released
        /\ stage = "polling" /\ stage' = "serializing" /\ records' = << >> /\ version' = released
    BY DEF Poll, topicVars, groupVars
  <1>2. phase' = "idle" /\ Len(records') = 0
    BY <1>1 DEF StreamInv, CallOK
  <1>3. TakenOK' /\ EndedUpTo(released, 0)' /\ QueueOK'
    BY <1>1, TakenStays, QueueStays
  <1>4. EndedUpTo(version, Len(records))'
    BY <1>1, <1>2, <1>3 DEF EndedUpTo, Ended
  <1>. QED BY <1>1, <1>2, <1>3, <1>4 DEF TakenInv, TakenOK, QueueOK

LEMMA SerializeGroupTaken ==
  ASSUME StreamInv, TakenInv, SerializeGroup
  PROVE  TakenInv'
  <1>1. /\ UNCHANGED <<reader, log, records, released, watermark, stage>>
        /\ stage = "serializing" /\ phase \in {"idle", "returned"} /\ phase' = "checking"
        /\ version' = Least(GroupsAfter(version)) /\ GroupsAfter(version) # {}
    BY DEF SerializeGroup, topicVars, Locals
  <1>2. /\ version \in Nat /\ watermark \in Nat
        /\ records \in Seq(BatchRecord \cup EndRecord) /\ Len(records) \in Nat
    BY GroupStreamAssumption, RecordDecoderAssumption DEF StreamInv, StreamTypeOK
  <1>3. TakenOK' /\ EndedUpTo(released, 0)' /\ QueueOK'
    BY <1>1, TakenStays, QueueStays
  <1>4. GroupsAfter(version) \in SUBSET Nat
    BY <1>2 DEF GroupsAfter
  <1>5. version' \in GroupsAfter(version) /\ \A y \in GroupsAfter(version) : version' <= y
    BY <1>1, <1>4, LeastIs
  <1>6. EndedUpTo(version, Len(records))
    BY <1>1 DEF TakenInv
  <1>7. ASSUME NEW u \in 1..version' - 1, log'[u] # << >>
        PROVE  \/ u <= reader'.last
               \/ \E j \in 1..Len(records') : records'[j].kind = "end" /\ records'[j].version = u
    <2>1. version' \in Nat /\ version' <= watermark
      BY <1>2, <1>4, <1>5 DEF GroupsAfter
    <2>2. u <= version
      <3>1. SUFFICES ASSUME u > version PROVE FALSE
        BY <1>2, <2>1
      <3>2. u \in GroupsAfter(version)
        BY <1>1, <1>2, <1>7, <2>1, <3>1 DEF GroupsAfter
      <3>3. version' <= u
        BY <1>5, <3>2
      <3>4. \A w \in Nat : \A x \in 1..w - 1 : ~ (w <= x)
        OBVIOUS
      <3>. QED BY <1>7, <2>1, <3>3, <3>4, Zenon
    <2>3. u \in 1..version
      BY <1>2, <2>1, <2>2
    <2>. QED BY <1>1, <1>2, <1>6, <1>7, <2>3, EndedStays
  <1>8. EndedUpTo(version - 1, Len(records))'
    BY <1>7 DEF EndedUpTo, Ended
  <1>. QED BY <1>1, <1>3, <1>8 DEF TakenInv, TakenOK, QueueOK

LEMMA RunSerializerTaken ==
  ASSUME StreamInv, TakenInv, RunSerializer
  PROVE  TakenInv'
  <1>1. /\ UNCHANGED <<reader, log, released, watermark, version>>
        /\ stage = "serializing" /\ stage' \in {"serializing", "failed"} /\ GroupNext
    BY DEF RunSerializer, topicVars, processVars
  <1>2. phase \notin {"idle", "returned"} /\ phase' # "idle"
    BY <1>1 DEF GroupNext, Check, JoinSlice, Looping, OpenSlice, RefuseMutation, ReturnRecords,
                RefuseVersionEnd
  <1>3. /\ version \in Nat /\ records \in Seq(BatchRecord \cup EndRecord) /\ Len(records) \in Nat
    BY GroupStreamAssumption, RecordDecoderAssumption DEF StreamInv, StreamTypeOK
  <1>4. TakenOK' /\ EndedUpTo(released, 0)'
    BY <1>1, TakenStays
  <1>5. EndedUpTo(version - 1, Len(records))
    BY <1>1, <1>2 DEF TakenInv
  <1>6. CASE phase' # "returned"
    <2>1. records' = records
      BY <1>6 DEF RunSerializer
    <2>2. QueueOK'
      BY <1>1, <2>1, QueueStays
    <2>3. EndedUpTo(version - 1, Len(records))'
      BY <1>1, <1>5, <2>1 DEF EndedUpTo, Ended
    <2>. QED BY <1>1, <1>2, <1>4, <1>6, <2>2, <2>3 DEF TakenInv, TakenOK, QueueOK
  <1>7. CASE phase' = "returned"
    <2>. DEFINE R == (Returned(version))'
                n == Len(R) - 1
                m == Len(records)
    <2>1. records' = records \o R
      BY <1>7 DEF RunSerializer
    <2>2. /\ R \in Seq(BatchRecord \cup EndRecord) /\ n \in Nat
          /\ \A k \in 1..n : R[k].kind = "batch"
          /\ R[n + 1].kind = "end" /\ R[n + 1].version = version
      BY <1>7, ReturnedIs
    <2>. HIDE DEF R
    <2>3. /\ m \in Nat /\ Len(R) = n + 1 /\ Len(records') = m + n + 1
          /\ \A i \in 1..m : records'[i] = records[i]
          /\ \A k \in 1..Len(R) : records'[m + k] = R[k]
      BY <1>3, <2>1, <2>2, Appended
    <2>. HIDE DEF n, m
    <2>4. \A u \in 1..version - 1 : log'[u] # << >> =>
            \/ u <= reader'.last
            \/ \E j \in 1..m + n : records'[j].kind = "end" /\ records'[j].version = u
      <3>1. m + n \in Nat /\ m <= m + n /\ version - 1 \in Int
        BY <1>3, <2>2, <2>3
      <3>2. EndedUpTo(version - 1, m)
        BY <1>5 DEF m
      <3>. QED BY <1>1, <2>3, <3>1, <3>2, EndedStays
    <2>5. records'[m + n + 1].kind = "end" /\ records'[m + n + 1].version = version
      <3>1. n + 1 \in 1..Len(R) /\ m + (n + 1) = m + n + 1
        BY <2>2, <2>3
      <3>. QED BY <2>2, <2>3, <3>1
    <2>6. ASSUME NEW i \in 1..Len(records'), records'[i].kind = "end"
          PROVE  \A u \in 1..records'[i].version - 1 : log'[u] # << >> =>
                   \/ u <= reader'.last
                   \/ \E j \in 1..i - 1 : records'[j].kind = "end" /\ records'[j].version = u
      <3>1. CASE i \in 1..m
        <4>1. records'[i] = records[i] /\ i - 1 \in Nat
          BY <2>3, <3>1
        <4>2. EndedUpTo(records[i].version - 1, i - 1) /\ i \in 1..Len(records)
          BY <2>6, <3>1, <4>1 DEF TakenInv, m
        <4>3. records[i].version - 1 \in Int
          BY <4>2, QueuedVersion DEF CommitVersion
        <4>4. \A j \in 1..i - 1 : records'[j] = records[j]
          BY <2>3, <3>1
        <4>. QED BY <1>1, <4>1, <4>2, <4>3, <4>4, EndedStays
      <3>2. CASE i = m + n + 1
        <4>1. i - 1 = m + n
          BY <2>2, <2>3, <3>2
        <4>. QED BY <2>4, <2>5, <3>2, <4>1
      <3>3. CASE i \notin 1..m /\ i # m + n + 1
        <4>. DEFINE k == i - m
        <4>1. k \in 1..n /\ k \in 1..Len(R) /\ m + k = i
          BY <2>2, <2>3, <3>3
        <4>. HIDE DEF k
        <4>2. records'[i].kind = "batch"
          BY <2>2, <2>3, <4>1
        <4>. QED BY <2>6, <4>2
      <3>. QED BY <3>1, <3>2, <3>3
    <2>7. QueueOK'
      BY <2>6 DEF QueueOK, EndedUpTo, Ended
    <2>8. ASSUME NEW u \in 1..version', log'[u] # << >>
          PROVE  \/ u <= reader'.last
                 \/ \E j \in 1..Len(records') : records'[j].kind = "end" /\ records'[j].version = u
      <3>1. CASE u = version
        <4>1. m + n + 1 \in 1..Len(records')
          BY <2>2, <2>3
        <4>. QED BY <2>5, <3>1, <4>1
      <3>2. CASE u # version
        <4>1. u \in 1..version - 1
          BY <1>1, <1>3, <3>2
        <4>2. \A j \in 1..m + n : j \in 1..Len(records')
          BY <2>2, <2>3
        <4>. QED BY <2>4, <2>8, <4>1, <4>2
      <3>. QED BY <3>1, <3>2
    <2>9. EndedUpTo(version, Len(records))'
      BY <2>8 DEF EndedUpTo, Ended
    <2>. QED BY <1>1, <1>4, <1>7, <2>7, <2>9 DEF TakenInv, TakenOK, QueueOK
  <1>. QED BY <1>6, <1>7
LEMMA FinishReplyTaken ==
  ASSUME StreamInv, TakenInv, FinishReply
  PROVE  TakenInv'
  <1>1. /\ UNCHANGED <<reader, log, released, watermark>>
        /\ stage = "serializing" /\ phase \in {"idle", "returned"} /\ GroupsAfter(version) = {}
        /\ stage' \in {"failed", "publishing"}
    BY DEF FinishReply, topicVars
  <1>2. /\ version \in Nat /\ watermark \in Nat
        /\ records \in Seq(BatchRecord \cup EndRecord) /\ Len(records) \in Nat
    BY GroupStreamAssumption, RecordDecoderAssumption DEF StreamInv, StreamTypeOK
  <1>3. TakenOK' /\ EndedUpTo(released, 0)'
    BY <1>1, TakenStays
  <1>4. EndedUpTo(watermark, Len(records))
    <2>1. EndedUpTo(version, Len(records))
      BY <1>1 DEF TakenInv
    <2>2. ASSUME NEW u \in 1..watermark, log[u] # << >> PROVE u \in 1..version
      <3>1. u \notin GroupsAfter(version)
        BY <1>1
      <3>. QED BY <1>2, <2>2, <3>1 DEF GroupsAfter
    <2>. QED BY <2>1, <2>2 DEF EndedUpTo
  <1>5. /\ Len(records') \in Nat /\ Len(records) <= Len(records')
        /\ \A i \in 1..Len(records) : records'[i] = records[i]
        /\ \A i \in 1..Len(records') : i \notin 1..Len(records) =>
             i = Len(records) + 1 /\ records'[i].version = watermark
    <2>1. CASE records' = records
      BY <1>2, <2>1
    <2>2. CASE records' # records
      <3>. DEFINE e == [kind |-> "end", version |-> watermark, total |-> 0]
      <3>1. records' = Append(records, e)
        BY <2>2 DEF FinishReply, End
      <3>2. e.version = watermark
        OBVIOUS
      <3>. HIDE DEF e
      <3>3. /\ Len(records') = Len(records) + 1
            /\ \A i \in 1..Len(records) : records'[i] = records[i]
            /\ records'[Len(records) + 1] = e
        BY <1>2, <3>1
      <3>. QED BY <1>2, <3>2, <3>3
    <2>. QED BY <2>1, <2>2
  <1>6. ASSUME NEW i \in 1..Len(records'), records'[i].kind = "end"
        PROVE  \A u \in 1..records'[i].version - 1 : log'[u] # << >> =>
                 \/ u <= reader'.last
                 \/ \E j \in 1..i - 1 : records'[j].kind = "end" /\ records'[j].version = u
    <2>1. CASE i \in 1..Len(records)
      <3>1. records'[i] = records[i] /\ i - 1 \in Nat
        BY <1>5, <2>1
      <3>2. EndedUpTo(records[i].version - 1, i - 1)
        BY <1>6, <2>1, <3>1 DEF TakenInv
      <3>3. records[i].version - 1 \in Int
        BY <2>1, QueuedVersion DEF CommitVersion
      <3>4. \A j \in 1..i - 1 : records'[j] = records[j]
        BY <1>2, <1>5, <2>1
      <3>. QED BY <1>1, <3>1, <3>2, <3>3, <3>4, EndedStays
    <2>2. CASE i \notin 1..Len(records)
      <3>1. i - 1 = Len(records) /\ records'[i].version = watermark
        BY <1>2, <1>5, <2>2
      <3>2. \A u \in 1..watermark : log'[u] # << >> =>
              \/ u <= reader'.last
              \/ \E j \in 1..Len(records) : records'[j].kind = "end" /\ records'[j].version = u
        <4>1. Len(records) <= Len(records) /\ watermark \in Int
          BY <1>2
        <4>. QED BY <1>1, <1>2, <1>4, <1>5, <4>1, EndedStays
      <3>3. \A u \in 1..watermark - 1 : u \in 1..watermark
        BY <1>2
      <3>. QED BY <3>1, <3>2, <3>3
    <2>. QED BY <2>1, <2>2
  <1>7. QueueOK'
    BY <1>6 DEF QueueOK, EndedUpTo, Ended
  <1>8. EndedUpTo(watermark, Len(records))'
    <2>1. \A u \in 1..watermark : log'[u] # << >> =>
            \/ u <= reader'.last
            \/ \E j \in 1..Len(records') : records'[j].kind = "end" /\ records'[j].version = u
      <3>1. watermark \in Int
        BY <1>2
      <3>. QED BY <1>1, <1>2, <1>4, <1>5, <3>1, EndedStays
    <2>. QED BY <1>1, <2>1 DEF EndedUpTo, Ended
  <1>. QED BY <1>1, <1>3, <1>7, <1>8 DEF TakenInv, TakenOK, QueueOK

LEMMA PublishTaken ==
  ASSUME StreamInv, TakenInv, Publish
  PROVE  TakenInv'
  <1>. DEFINE r == records[1]
              last == reader'.last
  <1>1. /\ UNCHANGED <<log, released, watermark, version>> /\ stage = "publishing"
        /\ stage' \in {"publishing", "published"}
    BY DEF Publish
  <1>2. /\ Len(records) \in Nat \ {0} /\ Len(records') = Len(records) - 1
        /\ \A i \in 1..Len(records') : records'[i] = records[i + 1]
        /\ r \in BatchRecord \cup EndRecord
        /\ r.kind = "batch" => last = reader.last /\ reader'.taken = reader.taken
        /\ r.kind = "end" => /\ last = IF r.version > reader.last THEN r.version ELSE reader.last
                             /\ reader'.taken = IF r.version > reader.last /\ r.total > 0
                                                  THEN reader.taken \cup {<<r.version, r.total>>}
                                                  ELSE reader.taken
    BY PublishReads
  <1>3. /\ r.kind \in {"batch", "end"} /\ r.version \in CommitVersion
        /\ CommitVersion \in SUBSET Nat /\ reader.last \in Nat
    <2>1. LastVersion \in Nat /\ reader.last \in Nat
      BY GroupStreamAssumption, RecordDecoderAssumption DEF StreamInv, StreamTypeOK
    <2>. QED BY <1>2, <2>1, QueuedVersion DEF CommitVersion
  <1>4. r.kind = "end" => r.total = Len(log[r.version])
    BY <1>2 DEF StreamInv, ChainInv, Continues
  <1>5. r.kind = "end" => \A u \in 1..r.version - 1 : log[u] # << >> => u <= reader.last
    BY <1>2 DEF TakenInv, EndedUpTo, Ended
  <1>. HIDE DEF r, last
  <1>7. last \in Nat /\ reader.last <= last
    <2>1. CASE r.kind = "batch"
      BY <1>2, <1>3, <2>1
    <2>2. CASE r.kind = "end" /\ r.version > reader.last
      <3>1. last = r.version
        BY <1>2, <2>2, Zenon
      <3>2. r.version \in Nat
        BY <1>3
      <3>. QED BY <1>3, <2>2, <3>1, <3>2
    <2>3. CASE r.kind = "end" /\ ~ (r.version > reader.last)
      BY <1>2, <1>3, <2>3
    <2>. QED BY <1>3, <2>1, <2>2, <2>3
  \* What had ended has: the record published is the first of the queue.
  <1>6. ASSUME NEW u, NEW i \in 1..Len(records), Ended(u, i), u \in Nat
        PROVE  \/ u <= last
               \/ \E j \in 1..i - 1 : records'[j].kind = "end" /\ records'[j].version = u
    <2>1. last \in Nat /\ reader.last <= last
      BY <1>7
    <2>2. CASE u <= reader.last
      BY <1>3, <1>6, <2>1, <2>2
    <2>3. CASE \E j \in 1..i : records[j].kind = "end" /\ records[j].version = u
      <3>1. PICK j \in 1..i : records[j].kind = "end" /\ records[j].version = u
        BY <2>3
      <3>2. CASE j = 1
        <4>1. r.kind = "end" /\ r.version = u
          BY <3>1, <3>2 DEF r
        <4>. QED BY <1>2, <1>3, <1>6, <4>1
      <3>3. CASE j # 1
        <4>1. j - 1 \in 1..Len(records') /\ j - 1 \in 1..i - 1 /\ j - 1 + 1 = j
          BY <1>2, <3>3
        <4>2. records'[j - 1] = records[j]
          BY <1>2, <4>1
        <4>. QED BY <3>1, <4>1, <4>2
      <3>. QED BY <3>2, <3>3
    <2>. QED BY <1>6, <2>2, <2>3 DEF Ended
  <1>8. TakenOK'
    <2>1. TakenOK
      BY DEF TakenInv, TakenOK
    <2>2. CASE r.kind = "batch"
      BY <1>1, <1>2, <2>1, <2>2 DEF TakenOK, last
    <2>3. CASE r.kind = "end"
      <3>1. \A t \in reader'.taken : t[2] = Len(log[t[1]])
        BY <1>2, <1>4, <2>1, <2>3 DEF TakenOK
      <3>2. ASSUME NEW v \in CommitVersion, v <= last, log[v] # << >>
            PROVE  <<v, Len(log[v])>> \in reader'.taken
        <4>1. CASE v <= reader.last
          BY <1>2, <2>1, <2>3, <3>2, <4>1 DEF TakenOK
        <4>2. CASE ~ (v <= reader.last)
          <5>1. r.version > reader.last /\ v <= r.version
            BY <1>2, <1>3, <2>3, <3>2, <4>2
          <5>2. v = r.version
            <6>1. SUFFICES ASSUME v # r.version PROVE FALSE
              OBVIOUS
            <6>2. v \in 1..r.version - 1
              BY <1>3, <5>1, <6>1 DEF CommitVersion
            <6>. QED BY <1>5, <2>3, <3>2, <4>2, <6>2
          <5>3. r.total > 0
            <6>1. log[v] \in Seq(Payload \cup {Malformed})
              BY DEF StreamInv, StreamTypeOK
            <6>2. Len(log[v]) \in Nat /\ Len(log[v]) # 0
              BY <3>2, <6>1
            <6>. QED BY <1>4, <2>3, <5>2, <6>2
          <5>. QED BY <1>2, <1>4, <2>3, <5>1, <5>2, <5>3
        <4>. QED BY <4>1, <4>2
      <3>. QED BY <1>1, <3>1, <3>2 DEF TakenOK, last
    <2>. QED BY <1>3, <2>2, <2>3
  <1>9. EndedUpTo(released, 0)'
    <2>1. ASSUME NEW u \in 1..released, log[u] # << >> PROVE u <= last
      <3>1. u <= reader.last
        BY <2>1 DEF TakenInv, EndedUpTo, Ended
      <3>2. last \in Nat /\ u \in Nat
        BY <1>2, <1>3
      <3>. QED BY <1>3, <1>7, <3>1, <3>2
    <2>. QED BY <1>1, <2>1 DEF EndedUpTo, Ended, last
  <1>10. QueueOK'
    <2>1. ASSUME NEW i \in 1..Len(records'), records'[i].kind = "end",
                 NEW u \in 1..records'[i].version - 1, log'[u] # << >>
          PROVE  \/ u <= last
                 \/ \E j \in 1..i - 1 : records'[j].kind = "end" /\ records'[j].version = u
      <3>1. i + 1 \in 1..Len(records) /\ i \in 1..Len(records) /\ i + 1 - 1 = i
        BY <1>2
      <3>2. records'[i] = records[i + 1]
        BY <1>2
      <3>3. EndedUpTo(records[i + 1].version - 1, i)
        BY <2>1, <3>1, <3>2 DEF TakenInv
      <3>4. Ended(u, i) /\ u \in Nat
        BY <1>1, <2>1, <3>2, <3>3 DEF EndedUpTo
      <3>. QED BY <1>6, <3>1, <3>4
    <2>. QED BY <2>1 DEF QueueOK, EndedUpTo, Ended, last
  <1>11. EndedUpTo(watermark, Len(records))'
    <2>1. EndedUpTo(watermark, Len(records))
      BY <1>1 DEF TakenInv
    <2>2. ASSUME NEW u \in 1..watermark, log[u] # << >>
          PROVE  \/ u <= last
                 \/ \E j \in 1..Len(records') : records'[j].kind = "end" /\ records'[j].version = u
      <3>1. Ended(u, Len(records)) /\ u \in Nat
        BY <2>1, <2>2 DEF EndedUpTo
      <3>2. Len(records) \in 1..Len(records)
        BY <1>2
      <3>. QED BY <1>2, <1>6, <3>1, <3>2
    <2>. QED BY <1>1, <2>2 DEF EndedUpTo, Ended, last
  <1>. QED BY <1>1, <1>8, <1>9, <1>10, <1>11 DEF TakenInv, TakenOK, QueueOK

LEMMA ReleaseTaken ==
  ASSUME StreamInv, TakenInv, Release
  PROVE  TakenInv'
  <1>1. /\ UNCHANGED <<reader, log, records>> /\ stage = "published" /\ stage' = "polling"
        /\ released' = watermark
    BY DEF Release, topicVars
  <1>2. TakenOK' /\ QueueOK'
    BY <1>1, TakenStays, QueueStays
  <1>3. EndedUpTo(watermark, Len(records)) /\ Len(records) = 0
    BY <1>1 DEF TakenInv, StreamInv, CallOK
  <1>4. EndedUpTo(released, 0)'
    BY <1>1, <1>3 DEF EndedUpTo, Ended
  <1>. QED BY <1>1, <1>2, <1>4 DEF TakenInv, TakenOK, QueueOK

LEMMA ResumeTaken ==
  ASSUME StreamInv, TakenInv, NEW l \in Limits, Resume(l)
  PROVE  TakenInv'
  <1>1. UNCHANGED <<reader, log, released>> /\ stage' = "polling" /\ records' = << >>
    BY DEF Resume, topicVars
  <1>2. TakenOK' /\ EndedUpTo(released, 0)' /\ QueueOK'
    BY <1>1, TakenStays, QueueStays
  <1>. QED BY <1>1, <1>2 DEF TakenInv, TakenOK, QueueOK

LEMMA TakenInvariant == Spec => []TakenInv
  <1>1. Init => TakenInv
    <2>. SUFFICES ASSUME Init PROVE TakenInv
      OBVIOUS
    <2>1. /\ reader = Reader0 /\ records = << >> /\ stage = "polling"
      BY DEF Init, GroupStreamInit, StreamIdle
    <2>2. /\ reader.taken = {} /\ reader.last = 0
      BY <2>1 DEF Reader0
    <2>3. EndedUpTo(released, 0)
      <3>1. CASE released = 0
        BY <3>1 DEF EndedUpTo
      <3>2. CASE released = LastVersion /\ log = [v \in CommitVersion |-> << >>]
        BY <3>2 DEF EndedUpTo, CommitVersion
      <3>. QED BY <3>1, <3>2 DEF Init, GroupStreamInit
    <2>4. \A v \in CommitVersion : ~ (v <= reader.last)
      BY <2>2, GroupStreamAssumption, RecordDecoderAssumption DEF CommitVersion
    <2>. QED BY <2>1, <2>2, <2>3, <2>4 DEF TakenInv
  <1>2. StreamInv /\ TakenInv /\ [Next]_vars => TakenInv'
    <2>. SUFFICES ASSUME StreamInv, TakenInv, [Next]_vars PROVE TakenInv'
      OBVIOUS
    <2>1. ASSUME NEW w \in CommitVersion, NEW env \in Envelopes, Poll(w, env) PROVE TakenInv'
      BY <2>1, PollTaken
    <2>2. ASSUME NEW l \in Limits, Resume(l) PROVE TakenInv'
      BY <2>2, ResumeTaken
    <2>3. CASE UNCHANGED <<groupVars, streamVars, processVars, topicVars>>
      BY <2>3 DEF groupVars, streamVars, topicVars, TakenInv, EndedUpTo, Ended
    <2>. QED BY <2>1, <2>2, <2>3, SerializeGroupTaken, RunSerializerTaken, FinishReplyTaken,
                PublishTaken, ReleaseTaken
             DEF Next, GroupStreamNext, vars
  <1>. QED BY <1>1, <1>2, StreamInvariant, PTL DEF Spec

\* poll_records and acknowledge: no version is released before the reader has
\* every group up to it, whole, however often the bridge restarted in between.
THEOREM ReleasedGroupsAreTaken == Spec => []ReleasedIsTaken
  <1>1. StreamInv /\ TakenInv => ReleasedIsTaken
    <2>. SUFFICES ASSUME StreamInv, TakenInv PROVE ReleasedIsTaken
      OBVIOUS
    <2>1. ASSUME NEW v \in 1..released, log[v] # << >>
          PROVE  <<v, Len(log[v])>> \in reader.taken
      <3>1. v \in CommitVersion
        BY GroupStreamAssumption, RecordDecoderAssumption
        DEF StreamInv, StreamTypeOK, CommitVersion
      <3>2. v <= reader.last
        BY <2>1 DEF TakenInv, EndedUpTo, Ended
      <3>. QED BY <2>1, <3>1, <3>2 DEF TakenInv
    <2>. QED BY <2>1 DEF TakenInv, ReleasedIsTaken
  <1>. QED BY <1>1, StreamInvariant, TakenInvariant, PTL

\* The slicing invariant holds of every call the stream makes.
THEOREM StreamSlicing == Spec => []GroupInv
  <1>1. StreamInv => GroupInv
    BY DEF StreamInv
  <1>. QED BY <1>1, StreamInvariant, PTL
-----------------------------------------------------------------------------
(***************************************************************************)
(* The demo's verifier.  Its sets are what the topic holds, and it has     *)
(* noticed a duplicate exactly when the topic holds one.                   *)
(***************************************************************************)
\* The record at p carries mutation i of version v; it ends version v.
Carries(p, v, i) ==
  topic[p].kind = "batch" /\ topic[p].version = v /\ topic[p].from <= i /\ i < topic[p].upto
Ends(p, v) == topic[p].kind = "end" /\ topic[p].version = v

\* Two records carry the same mutation, or end the same version.
Repeats(p, q) ==
  \E v \in CommitVersion : \/ Ends(p, v) /\ Ends(q, v)
                           \/ \E i \in Nat : Carries(p, v, i) /\ Carries(q, v, i)
Repeated == \E q \in 1..Len(topic) : \E p \in 1..q - 1 : Repeats(p, q)

\* A record of the log: a slice of its group, or the end of it.
OfLog(r) == /\ r.kind = "batch" => r.from < r.upto /\ r.upto <= Len(log[r.version])
            /\ r.kind = "end" => r.total = Len(log[r.version])

VerifierInv ==
  /\ topic \in Seq(BatchRecord \cup EndRecord)
  /\ \A i \in 1..Len(records) : OfLog(records[i])
  /\ \A p \in 1..Len(topic) : OfLog(topic[p])
  /\ verifier \in [seqs : SUBSET (CommitVersion \X Nat), totals : SUBSET (CommitVersion \X Nat),
                   duplicate : BOOLEAN]
  /\ \A v \in CommitVersion : \A i \in Nat :
       <<v, i>> \in verifier.seqs <=> \E p \in 1..Len(topic) : Carries(p, v, i)
  /\ \A v \in CommitVersion : \A n \in Nat :
       <<v, n>> \in verifier.totals <=> n = Len(log[v]) /\ \E p \in 1..Len(topic) : Ends(p, v)
  /\ verifier.duplicate <=> Repeated

\* What Publish does to the topic and to the verifier.
LEMMA PublishVerifies ==
  ASSUME StreamInv, Publish
  PROVE  LET r == records[1]
             mine == {<<r.version, i>> : i \in r.from..r.upto - 1}
         IN  /\ r \in BatchRecord \cup EndRecord
             /\ topic' = Append(topic, r)
             /\ r.kind = "batch" =>
                  verifier' = [verifier EXCEPT !.seqs = verifier.seqs \cup mine,
                                               !.duplicate = verifier.duplicate \/ mine \cap verifier.seqs # {}]
             /\ r.kind = "end" =>
                  verifier' = [verifier EXCEPT !.totals = verifier.totals \cup {<<r.version, r.total>>},
                                               !.duplicate = verifier.duplicate \/
                                                 \E t \in verifier.totals : t[1] = r.version]
  <1>. DEFINE r == records[1]
              mine == {<<r.version, i>> : i \in r.from..r.upto - 1}
              d == Decode(AsMessage(r))
  <1>1. records \in Seq(BatchRecord \cup EndRecord) /\ records # << >>
    BY DEF StreamInv, StreamTypeOK, Publish
  <1>2. Len(records) \in Nat \ {0} /\ r \in BatchRecord \cup EndRecord /\ Head(records) = r
    BY <1>1
  <1>3. topic' = Append(topic, r)
    BY <1>2 DEF Publish
  <1>4. \/ d.kind = "batch" /\ verifier' = CheckMutations(verifier, d.mutations)
        \/ d.kind = "end" /\ verifier' = CheckEnd(verifier, d.version, d.total)
    BY <1>2 DEF Publish
  <1>5. r.kind = "batch" => r.from < r.upto
    BY <1>2 DEF StreamInv, ChainInv, Continues
  <1>. HIDE DEF r
  <1>6. CASE r \in BatchRecord
    <2>1. r.kind = "batch" /\ r.from \in Nat /\ r.upto \in Nat /\ r.from < r.upto
      BY <1>5, <1>6 DEF BatchRecord
    <2>2. /\ d.kind = "batch" /\ DOMAIN d.mutations = 1..(r.upto - r.from)
          /\ \A i \in 1..(r.upto - r.from) : d.mutations[i].index = <<r.version, r.from + i - 1>>
      BY <1>6, <2>1, BatchDecodes
    <2>. HIDE DEF d
    <2>3. {d.mutations[i].index : i \in DOMAIN d.mutations} = mine
      <3>1. ASSUME NEW i \in DOMAIN d.mutations PROVE d.mutations[i].index \in mine
        <4>1. r.from + i - 1 \in r.from..r.upto - 1
          BY <2>1, <2>2
        <4>. QED BY <2>2, <4>1
      <3>2. ASSUME NEW i \in r.from..r.upto - 1
            PROVE  \E k \in DOMAIN d.mutations : <<r.version, i>> = d.mutations[k].index
        <4>1. i - r.from + 1 \in 1..(r.upto - r.from) /\ r.from + (i - r.from + 1) - 1 = i
          BY <2>1
        <4>. QED BY <2>2, <4>1
      <3>. QED BY <3>1, <3>2
    <2>4. verifier' = CheckMutations(verifier, d.mutations)
      BY <1>4, <2>2
    <2>. HIDE DEF mine
    <2>5. verifier' = [verifier EXCEPT !.seqs = verifier.seqs \cup mine,
                                       !.duplicate = verifier.duplicate \/ mine \cap verifier.seqs # {}]
      BY <2>3, <2>4, Zenon DEF CheckMutations
    <2>. QED BY <1>2, <1>3, <2>1, <2>5 DEF r, mine
  <1>7. CASE r \in EndRecord
    <2>1. r.kind = "end"
      BY <1>7 DEF EndRecord
    <2>2. d.kind = "end" /\ d.version = r.version /\ d.total = r.total
      BY <1>7, EndDecodes
    <2>. HIDE DEF d
    <2>3. verifier' = CheckEnd(verifier, r.version, r.total)
      BY <1>4, <2>2
    <2>4. verifier' = [verifier EXCEPT !.totals = verifier.totals \cup {<<r.version, r.total>>},
                                       !.duplicate = verifier.duplicate \/
                                         \E t \in verifier.totals : t[1] = r.version]
      BY <2>3, Zenon DEF CheckEnd
    <2>. QED BY <1>2, <1>3, <2>1, <2>4 DEF r
  <1>. QED BY <1>2, <1>6, <1>7 DEF r

\* Every record queued is one of the log.
LEMMA QueueOfLog ==
  ASSUME StreamInv, VerifierInv, GroupStreamNext
  PROVE  log' = log /\ \A i \in 1..Len(records') : OfLog(records'[i])
  <1>1. log' = log
    BY DEF GroupStreamNext, Poll, SerializeGroup, RunSerializer, FinishReply, Publish, Release,
           Resume
  <1>2. /\ records \in Seq(BatchRecord \cup EndRecord) /\ Len(records) \in Nat
        /\ \A i \in 1..Len(records) : OfLog(records[i])
    BY DEF StreamInv, StreamTypeOK, VerifierInv
  <1>3. CASE records' \in {records, << >>}
    BY <1>1, <1>2, <1>3
  <1>4. CASE RunSerializer /\ phase' = "returned"
    <2>. DEFINE R == (Returned(version))'
                n == Len(R) - 1
                m == Len(records)
                total == Len(log[version])
    <2>1. records' = records \o R
      BY <1>4 DEF RunSerializer
    <2>2. /\ R \in Seq(BatchRecord \cup EndRecord) /\ n \in Nat
          /\ \A k \in 1..n : /\ R[k].kind = "batch" /\ R[k].version = version
                             /\ R[k].from < R[k].upto /\ R[k].upto <= total
          /\ R[n + 1].kind = "end" /\ R[n + 1].version = version /\ R[n + 1].total = total
      BY <1>4, ReturnedIs
    <2>. HIDE DEF R
    <2>3. /\ m \in Nat /\ Len(R) = n + 1 /\ Len(records') = m + n + 1
          /\ \A i \in 1..m : records'[i] = records[i]
          /\ \A k \in 1..Len(R) : records'[m + k] = R[k]
      BY <1>2, <2>1, <2>2, Appended
    <2>4. \A k \in 1..n + 1 : OfLog(R[k])
      BY <2>2 DEF OfLog
    <2>5. ASSUME NEW i \in 1..Len(records') PROVE OfLog(records'[i])
      <3>1. CASE i \in 1..m
        BY <1>2, <2>3, <3>1
      <3>2. CASE i \notin 1..m
        <4>. HIDE DEF n, m
        <4>1. i - m \in 1..n + 1 /\ i - m \in 1..Len(R) /\ m + (i - m) = i
          BY <2>2, <2>3, <3>2
        <4>2. records'[m + (i - m)] = R[i - m]
          BY <2>3, <4>1
        <4>. QED BY <2>4, <4>1, <4>2
      <3>. QED BY <3>1, <3>2
    <2>. QED BY <1>1, <2>5
  <1>5. CASE RunSerializer /\ phase' # "returned"
    BY <1>3, <1>5 DEF RunSerializer
  <1>6. CASE FinishReply /\ records' # records
    <2>. DEFINE e == [kind |-> "end", version |-> watermark, total |-> 0]
    <2>1. records' = Append(records, e) /\ log[watermark] = << >>
      BY <1>6 DEF FinishReply, End
    <2>2. OfLog(e)
      BY <2>1 DEF OfLog
    <2>. HIDE DEF e
    <2>3. \A i \in 1..Len(records') :
             (i \in 1..Len(records) /\ records'[i] = records[i]) \/ records'[i] = e
      BY <1>2, <2>1
    <2>. QED BY <1>1, <1>2, <2>2, <2>3
  <1>7. CASE Publish
    <2>1. /\ Len(records) \in Nat \ {0} /\ Len(records') = Len(records) - 1
          /\ \A i \in 1..Len(records') : records'[i] = records[i + 1]
      BY <1>7, PublishReads
    <2>2. \A i \in 1..Len(records') : i + 1 \in 1..Len(records)
      BY <2>1
    <2>. QED BY <1>1, <1>2, <2>1, <2>2
  <1>8. \/ records' \in {records, << >>} \/ RunSerializer \/ Publish
        \/ FinishReply /\ records' # records
    BY DEF GroupStreamNext, Poll, SerializeGroup, FinishReply, Release, Resume
  <1>. QED BY <1>3, <1>4, <1>5, <1>6, <1>7, <1>8
\* One more record at the end of the topic: what the positions before it hold
\* is unchanged.
LEMMA TopicGrows ==
  ASSUME VerifierInv, NEW r \in BatchRecord \cup EndRecord, topic' = Append(topic, r), log' = log, OfLog(r),
         NEW n, n = Len(topic) + 1
  PROVE  /\ n \in Nat \ {0} /\ Len(topic') = n
         /\ topic' \in Seq(BatchRecord \cup EndRecord)
         /\ \A p \in 1..Len(topic') : OfLog(topic[p])'
         /\ \A p \in 1..n - 1 : \A v, i : Carries(p, v, i)' <=> Carries(p, v, i)
         /\ \A p \in 1..n - 1 : \A v : Ends(p, v)' <=> Ends(p, v)
         /\ topic'[n] = r
  <1>1. topic \in Seq(BatchRecord \cup EndRecord) /\ \A p \in 1..Len(topic) : OfLog(topic[p])
    BY DEF VerifierInv
  <1>2. /\ n \in Nat \ {0} /\ Len(topic') = n
        /\ topic' \in Seq(BatchRecord \cup EndRecord)
        /\ \A p \in 1..n - 1 : topic'[p] = topic[p]
        /\ topic'[n] = r
    BY <1>1
  <1>3. \A p \in 1..Len(topic') :
             (p \in 1..Len(topic) /\ topic'[p] = topic[p]) \/ topic'[p] = r
    BY <1>1
  <1>4. \A p \in 1..Len(topic') : OfLog(topic[p])'
    BY <1>1, <1>3 DEF OfLog
  <1>. QED BY <1>2, <1>4 DEF Carries, Ends

LEMMA RepeatedGrows ==
  ASSUME NEW n \in Nat \ {0}, n = Len(topic) + 1, Len(topic') = n, Len(topic) \in Nat,
         \A p \in 1..n - 1 : \A v, i : Carries(p, v, i)' <=> Carries(p, v, i),
         \A p \in 1..n - 1 : \A v : Ends(p, v)' <=> Ends(p, v)
  PROVE  Repeated' <=> Repeated \/ \E p \in 1..n - 1 : Repeats(p, n)'
  <1>1. \A p, q \in 1..n - 1 : Repeats(p, q)' <=> Repeats(p, q)
    BY DEF Repeats
  <1>2. Repeated' <=> \E q \in 1..n : \E p \in 1..q - 1 : Repeats(p, q)'
    BY DEF Repeated
  <1>3. Repeated <=> \E q \in 1..n - 1 : \E p \in 1..q - 1 : Repeats(p, q)
    <2>1. Len(topic) = n - 1
      OBVIOUS
    <2>. QED BY <2>1 DEF Repeated
  <1>4. \A q : q \in 1..n <=> q \in 1..n - 1 \/ q = n
    OBVIOUS
  <1>5. \A q \in 1..n - 1 : \A p \in 1..q - 1 : p \in 1..n - 1
    OBVIOUS
  <1>. QED BY <1>1, <1>2, <1>3, <1>4, <1>5, Zenon

LEMMA PublishBatchVerified ==
  ASSUME StreamInv, VerifierInv, Publish, records[1].kind = "batch"
  PROVE  VerifierInv'
  <1>0. PICK n : n = Len(topic) + 1
    OBVIOUS
  <1>. DEFINE r == records[1]
              mine == {<<r.version, i>> : i \in r.from..r.upto - 1}
              repeated == verifier.duplicate \/ mine \cap verifier.seqs # {}
              Verifier == [seqs : SUBSET (CommitVersion \X Nat), totals : SUBSET (CommitVersion \X Nat),
                           duplicate : BOOLEAN]
  <1>1. /\ r \in BatchRecord \cup EndRecord /\ topic' = Append(topic, r)
        /\ verifier' = [verifier EXCEPT !.seqs = verifier.seqs \cup mine, !.duplicate = repeated]
    BY PublishVerifies
  <1>2. log' = log /\ \A i \in 1..Len(records') : OfLog(records[i])'
    <2>1. log' = log /\ \A i \in 1..Len(records') : OfLog(records'[i])
      BY QueueOfLog DEF GroupStreamNext
    <2>. QED BY <2>1 DEF OfLog
  <1>3. OfLog(r)
    <2>1. records \in Seq(BatchRecord \cup EndRecord) /\ records # << >>
      BY DEF StreamInv, StreamTypeOK, Publish
    <2>2. 1 \in 1..Len(records)
      BY <2>1
    <2>. QED BY <2>2 DEF VerifierInv
  <1>4. /\ r.kind = "batch" /\ r.version \in CommitVersion /\ r.from \in Nat /\ r.upto \in Nat
    BY <1>1 DEF BatchRecord, EndRecord
  <1>5. /\ n \in Nat \ {0} /\ Len(topic') = n
        /\ topic' \in Seq(BatchRecord \cup EndRecord)
        /\ \A p \in 1..Len(topic') : OfLog(topic[p])'
        /\ \A p \in 1..n - 1 : \A v, i : Carries(p, v, i)' <=> Carries(p, v, i)
        /\ \A p \in 1..n - 1 : \A v : Ends(p, v)' <=> Ends(p, v)
        /\ topic'[n] = r
    BY <1>0, <1>1, <1>2, <1>3, TopicGrows
  <1>6. verifier \in Verifier
    BY DEF VerifierInv
  <1>7. mine \in SUBSET (CommitVersion \X Nat)
    <2>1. \A i \in r.from..r.upto - 1 : i \in Nat
      BY <1>4
    <2>. QED BY <1>4, <2>1
  <1>8. \A v, i : <<v, i>> \in mine <=> v = r.version /\ i \in r.from..r.upto - 1
    OBVIOUS
  <1>9. ASSUME NEW v, NEW i \in Nat PROVE <<v, i>> \in mine <=> Carries(n, v, i)'
    <2>1. Carries(n, v, i)' <=> v = r.version /\ r.from <= i /\ i < r.upto
      BY <1>4, <1>5 DEF Carries
    <2>2. i \in r.from..r.upto - 1 <=> r.from <= i /\ i < r.upto
      BY <1>4
    <2>. QED BY <1>8, <2>1, <2>2, Zenon
  <1>10. \A v : ~ Ends(n, v)'
    BY <1>4, <1>5 DEF Ends
  <1>. HIDE DEF r, mine
  <1>11. /\ verifier'.seqs = verifier.seqs \cup mine /\ verifier'.totals = verifier.totals
         /\ verifier'.duplicate = repeated
    BY <1>1, <1>6, Zenon
  <1>12. Len(topic) = n - 1 /\ Len(topic) \in Nat /\ \A p : p \in 1..n <=> p \in 1..n - 1 \/ p = n
    <2>1. Len(topic) \in Nat
      BY DEF VerifierInv
    <2>. QED BY <1>0, <1>5, <2>1
  <1>13. /\ \A v \in CommitVersion : \A i \in Nat :
              <<v, i>> \in verifier.seqs <=> \E p \in 1..n - 1 : Carries(p, v, i)
         /\ \A v \in CommitVersion : \A k \in Nat :
              <<v, k>> \in verifier.totals <=> k = Len(log[v]) /\ \E p \in 1..n - 1 : Ends(p, v)
         /\ verifier.duplicate <=> Repeated
    BY <1>12 DEF VerifierInv
  <1>14. \A v \in CommitVersion : \A i \in Nat :
           <<v, i>> \in verifier'.seqs <=> \E p \in 1..n : Carries(p, v, i)'
    BY <1>5, <1>9, <1>11, <1>12, <1>13, Zenon
  <1>15. \A v \in CommitVersion : \A k \in Nat :
           <<v, k>> \in verifier'.totals <=> k = Len(log[v]) /\ \E p \in 1..n : Ends(p, v)'
    BY <1>5, <1>10, <1>11, <1>12, <1>13, Zenon
  <1>16. (\E p \in 1..n - 1 : Repeats(p, n)') <=> mine \cap verifier.seqs # {}
    <2>1. ASSUME NEW p \in 1..n - 1, Repeats(p, n)' PROVE mine \cap verifier.seqs # {}
      <3>1. PICK v \in CommitVersion, i \in Nat : Carries(p, v, i)' /\ Carries(n, v, i)'
        BY <1>10, <2>1 DEF Repeats
      <3>2. <<v, i>> \in mine /\ <<v, i>> \in verifier.seqs
        BY <1>5, <1>9, <1>13, <3>1, Zenon
      <3>. QED BY <3>2
    <2>2. ASSUME NEW x \in mine \cap verifier.seqs PROVE \E p \in 1..n - 1 : Repeats(p, n)'
      <3>1. PICK v \in CommitVersion, i \in Nat : x = <<v, i>>
        BY <1>7, <2>2
      <3>2. <<v, i>> \in mine /\ <<v, i>> \in verifier.seqs
        BY <2>2, <3>1
      <3>3. PICK p \in 1..n - 1 : Carries(p, v, i)
        BY <1>13, <3>2, Zenon
      <3>4. Carries(p, v, i)' /\ Carries(n, v, i)'
        BY <1>5, <1>9, <3>2, <3>3, Zenon
      <3>. QED BY <3>4 DEF Repeats
    <2>. QED BY <2>1, <2>2, Zenon
  <1>17. verifier'.duplicate <=> Repeated'
    <2>1. Repeated' <=> Repeated \/ \E p \in 1..n - 1 : Repeats(p, n)'
      BY <1>0, <1>5, <1>12, RepeatedGrows
    <2>2. repeated <=> Repeated \/ \E p \in 1..n - 1 : Repeats(p, n)'
      BY <1>13, <1>16, Zenon
    <2>. QED BY <1>11, <2>1, <2>2, Zenon
  <1>18. verifier' \in Verifier
    <2>1. repeated \in BOOLEAN
      BY <1>6, Zenon
    <2>. HIDE DEF repeated
    <2>. QED BY <1>1, <1>6, <1>7, <2>1
  <1>. QED BY <1>2, <1>5, <1>14, <1>15, <1>17, <1>18 DEF VerifierInv
LEMMA PublishEndVerified ==
  ASSUME StreamInv, VerifierInv, Publish, records[1].kind = "end"
  PROVE  VerifierInv'
  <1>0. PICK n : n = Len(topic) + 1
    OBVIOUS
  <1>. DEFINE r == records[1]
              mine == <<r.version, r.total>>
              repeated == verifier.duplicate \/ \E t \in verifier.totals : t[1] = r.version
              Verifier == [seqs : SUBSET (CommitVersion \X Nat), totals : SUBSET (CommitVersion \X Nat),
                           duplicate : BOOLEAN]
  <1>1. /\ r \in BatchRecord \cup EndRecord /\ topic' = Append(topic, r)
        /\ verifier' = [verifier EXCEPT !.totals = verifier.totals \cup {mine}, !.duplicate = repeated]
    BY PublishVerifies
  <1>2. log' = log /\ \A i \in 1..Len(records') : OfLog(records[i])'
    <2>1. log' = log /\ \A i \in 1..Len(records') : OfLog(records'[i])
      BY QueueOfLog DEF GroupStreamNext
    <2>. QED BY <2>1 DEF OfLog
  <1>3. OfLog(r)
    <2>1. records \in Seq(BatchRecord \cup EndRecord) /\ records # << >>
      BY DEF StreamInv, StreamTypeOK, Publish
    <2>2. 1 \in 1..Len(records)
      BY <2>1
    <2>. QED BY <2>2 DEF VerifierInv
  <1>4. r.kind = "end" /\ r.version \in CommitVersion /\ r.total \in Nat /\ r.total = Len(log[r.version])
    BY <1>1, <1>3 DEF BatchRecord, EndRecord, OfLog
  <1>5. /\ n \in Nat \ {0} /\ Len(topic') = n
        /\ topic' \in Seq(BatchRecord \cup EndRecord)
        /\ \A p \in 1..Len(topic') : OfLog(topic[p])'
        /\ \A p \in 1..n - 1 : \A v, i : Carries(p, v, i)' <=> Carries(p, v, i)
        /\ \A p \in 1..n - 1 : \A v : Ends(p, v)' <=> Ends(p, v)
        /\ topic'[n] = r
    BY <1>0, <1>1, <1>2, <1>3, TopicGrows
  <1>6. verifier \in Verifier
    BY DEF VerifierInv
  <1>7. mine \in CommitVersion \X Nat
    BY <1>4
  <1>8. \A v : Ends(n, v)' <=> v = r.version
    BY <1>4, <1>5 DEF Ends
  <1>9. \A v, i : ~ Carries(n, v, i)'
    BY <1>4, <1>5 DEF Carries
  <1>10. \A v, k : <<v, k>> = mine <=> v = r.version /\ k = Len(log[v])
    BY <1>4
  <1>. HIDE DEF r, mine
  <1>11. /\ verifier'.seqs = verifier.seqs /\ verifier'.totals = verifier.totals \cup {mine}
         /\ verifier'.duplicate = repeated
    BY <1>1, <1>6, Zenon
  <1>12. Len(topic) = n - 1 /\ Len(topic) \in Nat /\ \A p : p \in 1..n <=> p \in 1..n - 1 \/ p = n
    <2>1. Len(topic) \in Nat
      BY DEF VerifierInv
    <2>. QED BY <1>0, <1>5, <2>1
  <1>13. /\ \A v \in CommitVersion : \A i \in Nat :
              <<v, i>> \in verifier.seqs <=> \E p \in 1..n - 1 : Carries(p, v, i)
         /\ \A v \in CommitVersion : \A k \in Nat :
              <<v, k>> \in verifier.totals <=> k = Len(log[v]) /\ \E p \in 1..n - 1 : Ends(p, v)
         /\ verifier.duplicate <=> Repeated
    BY <1>12 DEF VerifierInv
  <1>14. ASSUME NEW v \in CommitVersion, NEW i \in Nat
         PROVE  <<v, i>> \in verifier'.seqs <=> \E p \in 1..n : Carries(p, v, i)'
    <2>1. (\E p \in 1..n : Carries(p, v, i)') <=> \E p \in 1..n - 1 : Carries(p, v, i)
      BY <1>5, <1>9, <1>12, Zenon
    <2>. QED BY <1>11, <1>13, <2>1, Zenon
  <1>15. ASSUME NEW v \in CommitVersion, NEW k \in Nat
         PROVE  <<v, k>> \in verifier'.totals <=> k = Len(log[v]) /\ \E p \in 1..n : Ends(p, v)'
    <2>1. <<v, k>> \in verifier'.totals <=> <<v, k>> \in verifier.totals \/ <<v, k>> = mine
      BY <1>11
    <2>2. (\E p \in 1..n : Ends(p, v)') <=> (\E p \in 1..n - 1 : Ends(p, v)) \/ v = r.version
      BY <1>5, <1>8, <1>12, Zenon
    <2>. QED BY <1>10, <1>13, <2>1, <2>2, Zenon
  <1>16. (\E p \in 1..n - 1 : Repeats(p, n)') <=> \E t \in verifier.totals : t[1] = r.version
    <2>1. ASSUME NEW p \in 1..n - 1, Repeats(p, n)' PROVE \E t \in verifier.totals : t[1] = r.version
      <3>1. PICK v \in CommitVersion : Ends(p, v)' /\ Ends(n, v)'
        BY <1>9, <2>1 DEF Repeats
      <3>2. Ends(p, r.version) /\ r.version = v
        BY <1>5, <1>8, <3>1, Zenon
      <3>3. <<r.version, Len(log[r.version])>> \in verifier.totals
        BY <1>4, <1>13, <3>2 DEF r
      <3>. QED BY <3>3
    <2>2. ASSUME NEW t \in verifier.totals, t[1] = r.version PROVE \E p \in 1..n - 1 : Repeats(p, n)'
      <3>1. PICK v \in CommitVersion, k \in Nat : t = <<v, k>>
        BY <1>6
      <3>2. v = r.version /\ <<v, k>> \in verifier.totals
        BY <2>2, <3>1
      <3>3. PICK p \in 1..n - 1 : Ends(p, v)
        BY <1>13, <3>2, Zenon
      <3>4. Ends(p, v)' /\ Ends(n, v)'
        BY <1>5, <1>8, <3>2, <3>3, Zenon
      <3>. QED BY <3>4 DEF Repeats
    <2>. QED BY <2>1, <2>2, Zenon
  <1>17. verifier'.duplicate <=> Repeated'
    <2>1. Repeated' <=> Repeated \/ \E p \in 1..n - 1 : Repeats(p, n)'
      BY <1>0, <1>5, <1>12, RepeatedGrows
    <2>2. repeated <=> Repeated \/ \E p \in 1..n - 1 : Repeats(p, n)'
      BY <1>13, <1>16, Zenon
    <2>. QED BY <1>11, <2>1, <2>2, Zenon
  <1>18. verifier' \in Verifier
    <2>1. repeated \in BOOLEAN
      BY <1>6, Zenon
    <2>. HIDE DEF repeated
    <2>. QED BY <1>1, <1>6, <1>7, <2>1
  <1>. QED BY <1>2, <1>5, <1>14, <1>15, <1>17, <1>18 DEF VerifierInv

LEMMA VerifierInvariant == Spec => []VerifierInv
  <1>1. Init => VerifierInv
    <2>. SUFFICES ASSUME Init PROVE VerifierInv
      OBVIOUS
    <2>1. records = << >> /\ topic = << >> /\ verifier = Verifier0
      BY DEF Init, GroupStreamInit, StreamIdle
    <2>2. Len(topic) = 0 /\ Len(records) = 0
      BY <2>1
    <2>3. verifier.seqs = {} /\ verifier.totals = {} /\ ~ verifier.duplicate
      BY <2>1 DEF Verifier0
    <2>4. ~ Repeated
      BY <2>2 DEF Repeated
    <2>5. verifier \in [seqs : SUBSET (CommitVersion \X Nat), totals : SUBSET (CommitVersion \X Nat),
                        duplicate : BOOLEAN]
      BY <2>1 DEF Verifier0
    <2>6. topic \in Seq(BatchRecord \cup EndRecord)
      BY <2>1
    <2>. QED BY <2>2, <2>3, <2>4, <2>5, <2>6 DEF VerifierInv
  <1>2. StreamInv /\ VerifierInv /\ [Next]_vars => VerifierInv'
    <2>. SUFFICES ASSUME StreamInv, VerifierInv, [Next]_vars PROVE VerifierInv'
      OBVIOUS
    <2>1. CASE Publish
      <3>1. 1 \in 1..Len(records)
        BY <2>1, PublishReads
      <3>2. records[1].kind \in {"batch", "end"}
        BY <3>1, QueuedVersion
      <3>. QED BY <2>1, <3>2, PublishBatchVerified, PublishEndVerified
    <2>2. CASE GroupStreamNext /\ ~ Publish
      <3>1. topic' = topic /\ verifier' = verifier
        BY <2>2
        DEF GroupStreamNext, Poll, SerializeGroup, RunSerializer, FinishReply, Release, Resume,
                    topicVars
      <3>2. log' = log /\ \A i \in 1..Len(records') : OfLog(records'[i])
        BY <2>2, QueueOfLog
      <3>. QED BY <3>1, <3>2 DEF VerifierInv, OfLog, Carries, Ends, Repeated, Repeats
    <2>3. CASE UNCHANGED <<groupVars, streamVars, processVars, topicVars>>
      <3>1. UNCHANGED <<log, records, topic, verifier>>
        BY <2>3 DEF streamVars, topicVars
      <3>. QED BY <3>1 DEF VerifierInv, OfLog, Carries, Ends, Repeated, Repeats
    <2>. QED BY <2>1, <2>2, <2>3 DEF Next, vars
  <1>. QED BY <1>1, <1>2, StreamInvariant, PTL DEF Spec
\* A finite set with one element, or with at most one.
LEMMA OneElement ==
  ASSUME NEW S, IsFiniteSet(S)
  PROVE  /\ Cardinality(S) = 1 <=> (\E x \in S : TRUE) /\ \A x, y \in S : x = y
         /\ Cardinality(S) <= 1 <=> \A x, y \in S : x = y
  <1>1. Cardinality(S) = 1 <=> \E x : S = {x}
    BY FS_Singleton
  <1>2. Cardinality(S) = 0 <=> S = {}
    BY FS_EmptySet
  <1>3. Cardinality(S) \in Nat
    BY FS_CardinalityType
  <1>4. Cardinality(S) <= 1 <=> Cardinality(S) = 0 \/ Cardinality(S) = 1
    BY <1>3
  <1>5. (\E x : S = {x}) <=> (\E x \in S : TRUE) /\ \A x, y \in S : x = y
    <2>1. ASSUME NEW x \in S, \A y, z \in S : y = z PROVE S = {x}
      BY <2>1
    <2>. QED BY <2>1
  <1>6. (\A x, y \in S : x = y) <=> S = {} \/ ((\E x \in S : TRUE) /\ \A x, y \in S : x = y)
    OBVIOUS
  <1>. QED BY <1>1, <1>2, <1>4, <1>5, <1>6, Zenon

\* The mutations of the log, finitely many.
LEMMA CoordinatesAre ==
  ASSUME StreamInv
  PROVE  /\ IsFiniteSet(Coordinates)
         /\ \A x : x \in Coordinates <=> \E v \in CommitVersion : \E i \in 0..Len(log[v]) - 1 : x = <<v, i>>
         /\ \A v \in CommitVersion : Len(log[v]) \in Nat /\ (log[v] = << >> <=> Len(log[v]) = 0)
         /\ CommitVersion \in SUBSET Nat
  <1>. DEFINE Of(v) == {<<v, i>> : i \in 0..Len(log[v]) - 1}
              f == [v \in CommitVersion |-> Of(v)]
              T == {Of(v) : v \in CommitVersion}
  <1>1. CommitVersion \in SUBSET Nat /\ IsFiniteSet(CommitVersion)
    <2>1. LastVersion \in Int
      BY GroupStreamAssumption, RecordDecoderAssumption
    <2>. QED BY <2>1, FS_Interval DEF CommitVersion
  <1>2. \A v \in CommitVersion : Len(log[v]) \in Nat /\ (log[v] = << >> <=> Len(log[v]) = 0)
    <2>1. \A v \in CommitVersion : log[v] \in Seq(Payload \cup {Malformed})
      BY DEF StreamInv, StreamTypeOK
    <2>. QED BY <2>1
  <1>3. ASSUME NEW v \in CommitVersion PROVE IsFiniteSet(Of(v))
    <2>. DEFINE I == 0..Len(log[v]) - 1
                g == [i \in I |-> <<v, i>>]
    <2>1. IsFiniteSet(I)
      <3>1. Len(log[v]) - 1 \in Int
        BY <1>2
      <3>. QED BY <3>1, FS_Interval
    <2>2. g \in Surjection(I, Of(v))
      BY DEF Surjection
    <2>. HIDE DEF I, g, Of
    <2>. QED BY <2>1, <2>2, FS_Surjection
  <1>4. f \in Surjection(CommitVersion, T)
    BY DEF Surjection
  <1>5. IsFiniteSet(T)
    <2>. HIDE DEF f, T
    <2>. QED BY <1>1, <1>4, FS_Surjection
  <1>6. \A U \in T : IsFiniteSet(U)
    <2>. HIDE DEF Of
    <2>. QED BY <1>3
  <1>7. Coordinates = UNION T
    BY DEF Coordinates
  <1>8. IsFiniteSet(Coordinates)
    <2>. HIDE DEF T
    <2>. QED BY <1>5, <1>6, <1>7, FS_UNION
  <1>9. \A x : x \in Coordinates <=> \E v \in CommitVersion : \E i \in 0..Len(log[v]) - 1 : x = <<v, i>>
    BY DEF Coordinates
  <1>. QED BY <1>1, <1>2, <1>8, <1>9

\* Copies and EndCopies count positions.
LEMMA CopiesCount ==
  ASSUME VerifierInv, NEW v, NEW i
  PROVE  LET P == {p \in 1..Len(topic) : Carries(p, v, i)}
             Q == {p \in 1..Len(topic) : Ends(p, v)}
         IN  /\ Copies(v, i) = 1 <=> (\E p \in P : TRUE) /\ \A p, q \in P : p = q
             /\ EndCopies(v) = 1 <=> (\E p \in Q : TRUE) /\ \A p, q \in Q : p = q
             /\ EndCopies(v) <= 1 <=> \A p, q \in Q : p = q
  <1>. DEFINE P == {p \in 1..Len(topic) : Carries(p, v, i)}
              Q == {p \in 1..Len(topic) : Ends(p, v)}
  <1>1. DOMAIN topic = 1..Len(topic) /\ Len(topic) \in Nat
    BY DEF VerifierInv
  <1>2. Copies(v, i) = Cardinality(P) /\ EndCopies(v) = Cardinality(Q)
    BY <1>1 DEF Copies, EndCopies, Carries, Ends
  <1>3. IsFiniteSet(1..Len(topic))
    BY <1>1, FS_Interval
  <1>4. IsFiniteSet(P) /\ IsFiniteSet(Q)
    BY <1>3, FS_Subset
  <1>. HIDE DEF P, Q
  <1>5. /\ Cardinality(P) = 1 <=> (\E p \in P : TRUE) /\ \A p, q \in P : p = q
        /\ Cardinality(Q) = 1 <=> (\E p \in Q : TRUE) /\ \A p, q \in Q : p = q
        /\ Cardinality(Q) <= 1 <=> \A p, q \in Q : p = q
    BY <1>4, OneElement
  <1>. QED BY <1>2, <1>5 DEF P, Q

\* Nothing is repeated: each mutation and each end has one position at most.
LEMMA NotRepeated ==
  ASSUME VerifierInv
  PROVE  ~ Repeated <=>
           \A v \in CommitVersion :
             /\ \A p, q \in 1..Len(topic) : Ends(p, v) /\ Ends(q, v) => p = q
             /\ \A i \in Nat : \A p, q \in 1..Len(topic) : Carries(p, v, i) /\ Carries(q, v, i) => p = q
  <1>1. Len(topic) \in Nat
    BY DEF VerifierInv
  <1>2. Repeated <=> \E p, q \in 1..Len(topic) : p < q /\ Repeats(p, q)
    BY <1>1 DEF Repeated
  <1>3. \A p, q \in 1..Len(topic) : Repeats(p, q) <=> Repeats(q, p)
    BY DEF Repeats
  <1>4. \A p, q \in 1..Len(topic) : p # q <=> p < q \/ q < p
    BY <1>1
  <1>5. Repeated <=> \E p, q \in 1..Len(topic) : p # q /\ Repeats(p, q)
    BY <1>2, <1>3, <1>4, Zenon
  <1>. QED BY <1>5 DEF Repeats

\* demo/workload.py verify_workload: whatever was replayed or cut anew, the
\* demo's verdict is the truth about the topic.
THEOREM VerifierIsExact == Spec => []VerifierExact
  <1>. DEFINE Whole == /\ \A x \in Coordinates : Copies(x[1], x[2]) = 1
                       /\ \A v \in CommitVersion :
                            IF log[v] = << >> THEN EndCopies(v) <= 1 ELSE EndCopies(v) = 1
  <1>1. ASSUME StreamInv, VerifierInv PROVE VerifierExact
    <2>. DEFINE c == verifier
                n == Len(topic)
    <2>1. /\ IsFiniteSet(Coordinates)
          /\ \A x : x \in Coordinates <=> \E v \in CommitVersion : \E i \in 0..Len(log[v]) - 1 : x = <<v, i>>
          /\ \A v \in CommitVersion : Len(log[v]) \in Nat /\ (log[v] = << >> <=> Len(log[v]) = 0)
      BY <1>1, CoordinatesAre
    <2>2. /\ c.seqs \in SUBSET (CommitVersion \X Nat) /\ c.totals \in SUBSET (CommitVersion \X Nat)
          /\ \A v \in CommitVersion : \A i \in Nat :
               <<v, i>> \in c.seqs <=> \E p \in 1..n : Carries(p, v, i)
          /\ \A v \in CommitVersion : \A k \in Nat :
               <<v, k>> \in c.totals <=> k = Len(log[v]) /\ \E p \in 1..n : Ends(p, v)
          /\ c.duplicate <=> Repeated
      BY <1>1 DEF VerifierInv
    <2>3. ASSUME NEW v \in CommitVersion, NEW i \in Nat, NEW p \in 1..n, Carries(p, v, i)
          PROVE  <<v, i>> \in Coordinates
      <3>1. topic[p] \in BatchRecord \cup EndRecord /\ OfLog(topic[p])
        BY <1>1, <2>3 DEF VerifierInv
      <3>2. topic[p].upto \in Nat /\ i < topic[p].upto /\ topic[p].upto <= Len(log[v])
        BY <2>3, <3>1 DEF Carries, OfLog, BatchRecord, EndRecord
      <3>3. i \in 0..Len(log[v]) - 1
        BY <2>1, <3>2
      <3>. QED BY <2>1, <3>3
    <2>4. c.seqs \subseteq Coordinates
      <3>1. ASSUME NEW x \in c.seqs PROVE x \in Coordinates
        <4>1. PICK v \in CommitVersion, i \in Nat : x = <<v, i>>
          BY <2>2
        <4>2. \E p \in 1..n : Carries(p, v, i)
          BY <2>2, <4>1
        <4>. QED BY <2>3, <4>1, <4>2
      <3>. QED BY <3>1
    <2>5. \A x \in Coordinates : x[1] \in CommitVersion /\ x[2] \in Nat /\ x = <<x[1], x[2]>>
      BY <2>1
    <2>6. \A v, i : /\ Copies(v, i) = 1 <=>
                         /\ \E p \in 1..n : Carries(p, v, i)
                         /\ \A p, q \in 1..n : Carries(p, v, i) /\ Carries(q, v, i) => p = q
                    /\ EndCopies(v) = 1 <=>
                         /\ \E p \in 1..n : Ends(p, v)
                         /\ \A p, q \in 1..n : Ends(p, v) /\ Ends(q, v) => p = q
                    /\ EndCopies(v) <= 1 <=> \A p, q \in 1..n : Ends(p, v) /\ Ends(q, v) => p = q
      BY <1>1, CopiesCount
    <2>7. ~ Repeated <=>
           \A v \in CommitVersion :
             /\ \A p, q \in 1..n : Ends(p, v) /\ Ends(q, v) => p = q
             /\ \A i \in Nat : \A p, q \in 1..n : Carries(p, v, i) /\ Carries(q, v, i) => p = q
      BY <1>1, NotRepeated
    <2>. HIDE DEF c, n
    <2>8. ASSUME Verified(c) PROVE Whole
      <3>1. /\ ~ Repeated /\ Cardinality(c.seqs) = Cardinality(Coordinates)
            /\ \A x \in c.seqs : \E t \in c.totals : t[1] = x[1]
        BY <2>2, <2>8 DEF Verified
      <3>2. c.seqs = Coordinates
        BY <2>1, <2>4, <3>1, FS_Subset
      <3>3. ASSUME NEW x \in Coordinates PROVE Copies(x[1], x[2]) = 1
        <4>1. \E p \in 1..n : Carries(p, x[1], x[2])
          BY <2>2, <2>5, <3>2
        <4>. QED BY <2>5, <2>6, <2>7, <3>1, <4>1, Zenon
      <3>4. ASSUME NEW v \in CommitVersion
            PROVE  IF log[v] = << >> THEN EndCopies(v) <= 1 ELSE EndCopies(v) = 1
        <4>1. \A p, q \in 1..n : Ends(p, v) /\ Ends(q, v) => p = q
          BY <2>7, <3>1, Zenon
        <4>2. ASSUME log[v] # << >> PROVE \E p \in 1..n : Ends(p, v)
          <5>1. 0 \in 0..Len(log[v]) - 1
            BY <2>1, <4>2
          <5>2. <<v, 0>> \in c.seqs
            BY <2>1, <3>2, <5>1
          <5>3. PICK t \in c.totals : t[1] = v
            BY <3>1, <5>2
          <5>4. PICK k \in Nat : t = <<v, k>>
            BY <2>2, <5>3
          <5>. QED BY <2>2, <5>4
        <4>. QED BY <2>6, <4>1, <4>2, Zenon
      <3>. QED BY <3>3, <3>4
    <2>9. ASSUME Whole PROVE Verified(c)
      <3>1. \A v \in CommitVersion : \A p, q \in 1..n : Ends(p, v) /\ Ends(q, v) => p = q
        BY <2>6, <2>9, Zenon
      <3>2. ASSUME NEW v \in CommitVersion, NEW i \in Nat, NEW p \in 1..n, NEW q \in 1..n,
                   Carries(p, v, i), Carries(q, v, i)
            PROVE  p = q
        <4>1. <<v, i>> \in Coordinates
          BY <2>3, <3>2
        <4>2. Copies(v, i) = 1
          <5>1. Copies(<<v, i>>[1], <<v, i>>[2]) = 1
            BY <2>9, <4>1, Zenon
          <5>. QED BY <5>1
        <4>. QED BY <2>6, <3>2, <4>2, Zenon
      <3>3. ~ Repeated
        BY <2>7, <3>1, <3>2, Zenon
      <3>4. c.seqs = Coordinates
        <4>1. ASSUME NEW x \in Coordinates PROVE x \in c.seqs
          <5>1. \E p \in 1..n : Carries(p, x[1], x[2])
            BY <2>6, <2>9, Zenon
          <5>2. <<x[1], x[2]>> \in c.seqs
            BY <2>2, <2>5, <5>1, Zenon
          <5>. QED BY <2>5, <5>2
        <4>. QED BY <2>4, <4>1
      <3>5. ASSUME NEW x \in c.seqs PROVE \E t \in c.totals : t[1] = x[1]
        <4>1. PICK v \in CommitVersion : \E i \in 0..Len(log[v]) - 1 : x = <<v, i>>
          BY <2>1, <3>4
        <4>2. log[v] # << >>
          BY <2>1, <4>1
        <4>3. \E p \in 1..n : Ends(p, v)
          BY <2>6, <2>9, <4>2, Zenon
        <4>4. <<v, Len(log[v])>> \in c.totals
          BY <2>1, <2>2, <4>3
        <4>. QED BY <4>1, <4>4
      <3>6. ASSUME NEW t \in c.totals PROVE SeqsOf(c, t[1]) = 0..t[2] - 1
        <4>1. PICK v \in CommitVersion, k \in Nat : t = <<v, k>>
          BY <2>2
        <4>2. k = Len(log[v])
          BY <2>2, <4>1
        <4>3. \A i : <<v, i>> \in c.seqs <=> i \in 0..k - 1
          BY <2>1, <3>4, <4>2
        <4>4. \A x \in c.seqs : x = <<x[1], x[2]>>
          BY <2>5, <3>4
        <4>5. SeqsOf(c, v) = 0..k - 1
          <5>1. ASSUME NEW y \in SeqsOf(c, v) PROVE y \in 0..k - 1
            <6>1. PICK x \in c.seqs : x[1] = v /\ y = x[2]
              BY DEF SeqsOf
            <6>. QED BY <4>3, <4>4, <6>1, Zenon
          <5>2. ASSUME NEW i \in 0..k - 1 PROVE i \in SeqsOf(c, v)
            <6>1. <<v, i>> \in c.seqs /\ <<v, i>>[1] = v /\ <<v, i>>[2] = i
              BY <4>3
            <6>. QED BY <6>1 DEF SeqsOf
          <5>. QED BY <5>1, <5>2
        <4>. QED BY <4>1, <4>5
      <3>7. Declared(c) = Coordinates
        <4>1. ASSUME NEW x \in Declared(c) PROVE x \in Coordinates
          <5>1. PICK t \in c.totals : \E i \in 0..t[2] - 1 : x = <<t[1], i>>
            BY <4>1 DEF Declared
          <5>2. PICK v \in CommitVersion, k \in Nat : t = <<v, k>>
            BY <2>2
          <5>3. k = Len(log[v])
            BY <2>2, <5>2
          <5>. QED BY <2>1, <5>1, <5>2, <5>3
        <4>2. ASSUME NEW x \in Coordinates PROVE x \in Declared(c)
          <5>1. PICK v \in CommitVersion : \E i \in 0..Len(log[v]) - 1 : x = <<v, i>>
            BY <2>1
          <5>2. log[v] # << >>
            BY <2>1, <5>1
          <5>3. \E p \in 1..n : Ends(p, v)
            BY <2>6, <2>9, <5>2, Zenon
          <5>4. <<v, Len(log[v])>> \in c.totals
            BY <2>1, <2>2, <5>3
          <5>. QED BY <5>1, <5>4 DEF Declared
        <4>. QED BY <4>1, <4>2
      <3>. QED BY <2>2, <3>3, <3>4, <3>5, <3>6, <3>7 DEF Verified
    <2>. QED BY <2>8, <2>9 DEF VerifierExact, c
  <1>. QED BY <1>1, StreamInvariant, VerifierInvariant, PTL

-----------------------------------------------------------------------------
(***************************************************************************)
(* The sizes the loop computes are those the encoder writes.               *)
(***************************************************************************)
\* A protobuf varint has as many bytes as _varint_bytes() says: the recursion of
\* the reference is solved by the formula of the code, and by nothing else.
LEMMA EncodedVarintIs == \A n \in Nat : EncodedVarint[n] = VarintBytes(n)
  <1>. DEFINE f == [n \in Nat |-> VarintBytes(n)]
  <1>1. \A n \in Nat : n \div 128 \in Nat
    OBVIOUS
  <1>2. f = [n \in Nat |-> IF n < 128 THEN 1 ELSE 1 + f[n \div 128]]
    BY <1>1, VarintBytesIs
  <1>. HIDE DEF f
  <1>3. \E h : h = [n \in Nat |-> IF n < 128 THEN 1 ELSE 1 + h[n \div 128]]
    BY <1>2
  <1>4. EncodedVarint = [n \in Nat |-> IF n < 128 THEN 1 ELSE 1 + EncodedVarint[n \div 128]]
    BY <1>3 DEF EncodedVarint
  <1>. DEFINE S == {n \in Nat : EncodedVarint[n] # VarintBytes(n)}
  <1>. SUFFICES ASSUME S # {} PROVE FALSE
    OBVIOUS
  <1>5. PICK n \in S : \A k \in S : n <= k
    BY LeastElement
  <1>6. n \in Nat /\ EncodedVarint[n] # VarintBytes(n)
    BY <1>5
  <1>7. EncodedVarint[n] = IF n < 128 THEN 1 ELSE 1 + EncodedVarint[n \div 128]
    BY <1>4, <1>6
  <1>8. n >= 128
    BY <1>6, <1>7, VarintBytesIs
  <1>9. n \div 128 \in Nat /\ n \div 128 < n
    BY <1>6, <1>8
  <1>10. EncodedVarint[n \div 128] = VarintBytes(n \div 128)
    BY <1>5, <1>9
  <1>. QED BY <1>6, <1>7, <1>8, <1>10, VarintBytesIs

LEMMA EncodedFieldIs == \A n \in Nat : EncodedField(n) = Framed(n)
  BY EncodedVarintIs DEF EncodedField, Framed

LEMMA EncodedEndIs ==
  ASSUME NEW total \in Nat
  PROVE  EncodedEnd(total) = EndBytes(envelope, total)
  <1>1. EncodedVarint[total] = VarintBytes(total) /\ VarintBytes(total) \in Nat
    BY EncodedVarintIs, VarintBytesIs
  <1>2. EndFields + (IF total = 0 THEN 0 ELSE 1 + VarintBytes(total)) \in Nat
    BY <1>1, VersionGroupAssumption
  <1>. QED BY <1>1, <1>2, EncodedFieldIs DEF EncodedEnd, EndBytes

\* Any function that adds up the encoded fields from a on gives their sum at b.
LEMMA BytesAre ==
  ASSUME NEW a \in Nat, NEW b \in Nat, a <= b, NEW h,
         h = [i \in a..b |-> IF i = a THEN 0 ELSE h[i - 1] + EncodedField(natives[i])]
  PROVE  Bytes(a, b) = h[b]
  <1>. DEFINE up == CHOOSE u : u = [i \in a..b |-> IF i = a THEN 0 ELSE u[i - 1] + EncodedField(natives[i])]
  <1>1. Bytes(a, b) = up[b]
    BY DEF Bytes
  <1>2. up = [i \in a..b |-> IF i = a THEN 0 ELSE up[i - 1] + EncodedField(natives[i])]
    <2>1. \E u : u = [i \in a..b |-> IF i = a THEN 0 ELSE u[i - 1] + EncodedField(natives[i])]
      OBVIOUS
    <2>. QED BY <2>1
  <1>. HIDE DEF up
  <1>3. up[b] = h[b]
    <2>. DEFINE S == {i \in Nat : i \in a..b /\ up[i] # h[i]}
    <2>. SUFFICES ASSUME S # {} PROVE FALSE
      OBVIOUS
    <2>1. PICK i \in S : \A k \in S : i <= k
      BY LeastElement
    <2>2. /\ up[i] = IF i = a THEN 0 ELSE up[i - 1] + EncodedField(natives[i])
          /\ h[i] = IF i = a THEN 0 ELSE h[i - 1] + EncodedField(natives[i])
      BY <1>2, <2>1
    <2>3. i # a /\ i \in a..b
      BY <2>1, <2>2
    <2>4. i - 1 \in a..b /\ i - 1 \in Nat /\ i - 1 \notin S
      BY <2>1, <2>3
    <2>5. up[i - 1] = h[i - 1]
      BY <2>4
    <2>. QED BY <2>1, <2>2, <2>5
  <1>. QED BY <1>1, <1>3

\* The loop begins when every mutation is well formed.
WellFormed == \A i \in 1..Len(natives) : natives[i] # Malformed

LEMMA NativesAre ==
  ASSUME GroupInv, WellFormed, NEW i \in 1..Len(natives)
  PROVE  natives[i] \in Nat
  <1>1. natives[i] \in Payload \cup {Malformed}
    <2>1. natives \in Seq(Payload \cup {Malformed})
      BY DEF GroupInv, GroupTypeOK
    <2>. QED BY <2>1, ElementOfSeq
  <1>. QED BY <1>1, VersionGroupAssumption DEF WellFormed

LEMMA SlicedIsWellFormed ==
  ASSUME GroupInv, phase = "returned" \/ phase = "too large"
  PROVE  WellFormed
  BY Zenon DEF GroupInv, OffsetOK, WellFormed

\* The offsets add up the frames; so they grow.
LEMMA OffsetGrows ==
  ASSUME GroupInv, phase = "returned", NEW a \in 0..position, NEW b \in a..position
  PROVE  /\ offset[a + 1] \in Nat /\ offset[b + 1] \in Nat
         /\ offset[a + 1] <= offset[b + 1]
  <1>1. \A i \in 1..position : offset[i + 1] = offset[i] + Framed(natives[i]) /\ Framed(natives[i]) \in Nat
    <2>1. \A i \in 1..position : i \in 1..Len(natives)
      BY LoopTypes
    <2>2. \A i \in 1..position : offset[i + 1] = offset[i] + Framed(natives[i])
      BY DEF GroupInv, OffsetOK
    <2>3. WellFormed
      BY SlicedIsWellFormed
    <2>. QED BY <2>1, <2>2, <2>3, NativesAre, FramedPositive
  <1>2. position \in Nat /\ \A i \in 0..position : offset[i + 1] \in Nat
    <2>1. \A i \in 0..position : i + 1 \in 1..position + 1
      BY LoopTypes
    <2>. QED BY <2>1, LoopTypes
  <1>. DEFINE S == {i \in Nat : i \in a..position /\ ~(offset[a + 1] <= offset[i + 1])}
  <1>3. S = {}
    <2>. SUFFICES ASSUME S # {} PROVE FALSE
      OBVIOUS
    <2>1. PICK i \in S : \A k \in S : i <= k
      BY LeastElement
    <2>2. i # a /\ i \in a..position
      BY <1>2, <2>1
    <2>3. i - 1 \in a..position /\ i - 1 \in Nat /\ i - 1 \notin S /\ i \in 1..position
      BY <1>2, <2>1, <2>2
    <2>4. offset[a + 1] <= offset[i - 1 + 1] /\ i - 1 + 1 = i
      BY <2>3
    <2>5. offset[i] \in Nat
      BY <1>2, <2>3, <2>4
    <2>6. offset[i + 1] = offset[i] + Framed(natives[i]) /\ Framed(natives[i]) \in Nat
      BY <1>1, <2>3
    <2>7. offset[a + 1] \in Nat
      BY <1>2
    <2>8. offset[a + 1] <= offset[i + 1]
      BY <2>4, <2>5, <2>6, <2>7
    <2>. QED BY <2>1, <2>8
  <1>4. a \in 0..position /\ b \in Nat /\ b \in 0..position
    BY <1>2
  <1>. QED BY <1>2, <1>3, <1>4

\* The record of the mutations a .. b - 1, as the encoder writes it.
LEMMA EncodedBatchIs ==
  ASSUME GroupInv, phase = "returned", NEW a \in 0..position, NEW b \in a..position
  PROVE  /\ EncodedBatch(a, b) = SliceBytes(a, b)
         /\ offset[b + 1] - offset[a + 1] \in Nat
  <1>. DEFINE h == [i \in a..b |-> offset[i + 1] - offset[a + 1]]
  <1>0. position \in Nat /\ a \in Nat /\ b \in Nat /\ a <= b
    BY LoopTypes
  <1>1. \A i \in a..b : offset[i + 1] \in Nat /\ offset[a + 1] \in Nat
    BY <1>0, OffsetGrows
  <1>2. ASSUME NEW i \in a..b PROVE h[i] = IF i = a THEN 0 ELSE h[i - 1] + EncodedField(natives[i])
    <2>1. CASE i = a
      BY <1>1, <2>1
    <2>2. CASE i # a
      <3>1. i \in 1..position /\ i - 1 \in a..b /\ i - 1 + 1 = i /\ i \in 1..Len(natives)
        BY <1>0, <2>2, LoopTypes
      <3>2. offset[i + 1] = offset[i] + Framed(natives[i])
        BY <3>1 DEF GroupInv, OffsetOK
      <3>3. EncodedField(natives[i]) = Framed(natives[i]) /\ Framed(natives[i]) \in Nat
        BY <3>1, SlicedIsWellFormed, NativesAre, EncodedFieldIs, FramedPositive
      <3>4. h[i - 1] = offset[i] - offset[a + 1] /\ offset[i] \in Nat
        BY <1>1, <3>1
      <3>. QED BY <1>1, <2>2, <3>2, <3>3, <3>4
    <2>. QED BY <2>1, <2>2
  <1>3. h = [i \in a..b |-> IF i = a THEN 0 ELSE h[i - 1] + EncodedField(natives[i])]
    BY <1>2
  <1>4. h[b] = offset[b + 1] - offset[a + 1]
    BY <1>0
  <1>. HIDE DEF h
  <1>5. Bytes(a, b) = offset[b + 1] - offset[a + 1]
    BY <1>0, <1>3, <1>4, BytesAre
  <1>6. offset[b + 1] - offset[a + 1] \in Nat
    BY OffsetGrows
  <1>. QED BY <1>5, <1>6, EncodedFieldIs DEF EncodedBatch, SliceBytes, RecordBytes

\* The record of one mutation alone.
LEMMA EncodedAloneIs ==
  ASSUME GroupInv, WellFormed, NEW i \in 1..Len(natives)
  PROVE  EncodedBatch(i - 1, i) = RecordBytes(Framed(natives[i]))
  <1>1. natives[i] \in Nat /\ EncodedField(natives[i]) = Framed(natives[i]) /\ Framed(natives[i]) \in Nat
    BY NativesAre, EncodedFieldIs, FramedPositive
  <1>2. i \in Nat /\ i - 1 \in Nat /\ i - 1 <= i
    <2>1. Len(natives) \in Nat
      BY LoopTypes
    <2>. QED BY <2>1
  <1>. DEFINE h == [k \in i - 1 .. i |-> IF k = i - 1 THEN 0 ELSE EncodedField(natives[i])]
  <1>3. ASSUME NEW k \in i - 1 .. i
        PROVE  h[k] = IF k = i - 1 THEN 0 ELSE h[k - 1] + EncodedField(natives[k])
    <2>1. CASE k = i - 1
      BY <1>2, <2>1
    <2>2. CASE k = i
      <3>1. h[i - 1] = 0 /\ k - 1 = i - 1 /\ k # i - 1 /\ h[k] = EncodedField(natives[k])
        BY <1>2, <2>2
      <3>. QED BY <1>1, <2>2, <3>1
    <2>. QED BY <1>2, <2>1, <2>2
  <1>4. h = [k \in i - 1 .. i |-> IF k = i - 1 THEN 0 ELSE h[k - 1] + EncodedField(natives[k])]
    BY <1>3
  <1>5. h[i] = EncodedField(natives[i])
    BY <1>2
  <1>. HIDE DEF h
  <1>6. Bytes(i - 1, i) = Framed(natives[i])
    BY <1>1, <1>2, <1>4, <1>5, BytesAre
  <1>. QED BY <1>1, <1>6, EncodedFieldIs DEF EncodedBatch, RecordBytes

\* A call that has just begun, or none, has no result.
LEMMA LocalsResult ==
  ASSUME NEW g, NEW l, NEW e, NEW p \in {"idle", "checking"}, Locals(g, l, e, p)
  PROVE  ResultInv'
  <1>1. slices' = << >> /\ (phase' = "idle" \/ phase' = "checking")
    BY DEF Locals
  <1>2. SlicesFull'
    BY <1>1 DEF SlicesFull
  <1>. QED BY <1>1, <1>2, Zenon DEF ResultInv

\* The results of the serializer's calls have their reasons, in every reply.
LEMMA CallResult == Spec => [](GroupInv /\ ResultInv)
  <1>1. Init => ResultInv
    <2>. SUFFICES ASSUME Init PROVE ResultInv
      OBVIOUS
    <2>1. NoCall
      BY DEF Init, GroupStreamInit, StreamIdle
    <2>2. slices = << >> /\ phase = "idle"
      BY <2>1 DEF NoCall
    <2>3. SlicesFull
      BY <2>2 DEF SlicesFull
    <2>. QED BY <2>2, <2>3, Zenon DEF ResultInv
  <1>2. GroupInv /\ ResultInv /\ [Next]_vars => ResultInv'
    <2>. SUFFICES ASSUME GroupInv, ResultInv, [Next]_vars PROVE ResultInv'
      OBVIOUS
    <2>1. ASSUME [GroupNext]_groupVars PROVE ResultInv'
      BY <2>1, GroupNextResult
    <2>2. ASSUME HangUp PROVE ResultInv'
      BY <2>2, LocalsResult DEF HangUp
    <2>3. CASE \E w \in CommitVersion, env \in Envelopes : Poll(w, env)
      BY <2>1, <2>3 DEF Poll
    <2>4. CASE SerializeGroup
      BY <2>4, LocalsResult DEF SerializeGroup
    <2>5. CASE RunSerializer
      BY <2>1, <2>5 DEF RunSerializer
    <2>6. CASE FinishReply
      BY <2>2, <2>6 DEF FinishReply
    <2>7. CASE Publish
      BY <2>1, <2>7 DEF Publish
    <2>8. CASE Release
      BY <2>1, <2>8 DEF Release
    <2>9. CASE \E l \in Limits : Resume(l)
      BY <2>2, <2>9 DEF Resume
    <2>10. CASE UNCHANGED <<groupVars, streamVars, processVars, topicVars>>
      BY <2>1, <2>10
    <2>. QED BY <2>3, <2>4, <2>5, <2>6, <2>7, <2>8, <2>9, <2>10 DEF Next, GroupStreamNext, vars
  <1>3. Spec => []GroupInv
    BY StreamSlicing
  <1>. QED BY <1>1, <1>2, <1>3, PTL DEF Spec

\* serialize_version_group: the sizes its loop computes without encoding are
\* those of the encoder, so what it returns fits the limit on the wire.
THEOREM ReturnedRecordsFit == Spec => []RecordsFit
  <1>1. GroupInv /\ ResultInv => RecordsFit
    <2>. SUFFICES ASSUME GroupInv, ResultInv, phase = "returned"
                  PROVE  /\ \A k \in DOMAIN slices : EncodedBatch(slices[k][1], slices[k][2]) <= limit
                         /\ EncodedEnd(Len(natives)) <= limit
      BY DEF RecordsFit
    <2>1. slices \in Seq(Nat \X Nat)
      BY DEF GroupInv, GroupTypeOK
    <2>2. ASSUME NEW k \in 1..Len(slices) PROVE EncodedBatch(slices[k][1], slices[k][2]) <= limit
      <3>1. slices[k][1] \in 0..position /\ slices[k][2] \in 0..position
        BY SliceBounds
      <3>2. slices[k][1] < slices[k][2] /\ SliceBytes(slices[k][1], slices[k][2]) <= limit
        BY DEF GroupInv, SlicesCover, SlicesFit
      <3>3. slices[k][2] \in slices[k][1]..position
        BY <3>1, <3>2, LoopTypes
      <3>. QED BY <3>1, <3>2, <3>3, EncodedBatchIs
    <2>3. EndBytes(envelope, Len(natives)) <= limit
      BY Zenon DEF ResultInv
    <2>4. EncodedEnd(Len(natives)) = EndBytes(envelope, Len(natives))
      BY LoopTypes, EncodedEndIs
    <2>5. DOMAIN slices = 1..Len(slices)
      BY <2>1, LenProperties
    <2>6. EncodedEnd(Len(natives)) <= limit
      BY <2>3, <2>4
    <2>. QED BY <2>2, <2>5, <2>6
  <1>. QED BY <1>1, CallResult, PTL

\* serialize_version_group: a refusal names a record that fits by no cut.
THEOREM RefusedGroupsDoNotFit == Spec => []RefusesOnlyUndeliverable
  <1>1. GroupInv /\ ResultInv => RefusesOnlyUndeliverable
    <2>. SUFFICES ASSUME GroupInv, ResultInv, phase = "too large"
                  PROVE  \/ \E i \in 1..Len(natives) : EncodedBatch(i - 1, i) > limit
                         \/ EncodedEnd(Len(natives)) > limit
      BY Zenon DEF RefusesOnlyUndeliverable
    <2>1. \/ \E i \in 1..Len(natives) : RecordBytes(Framed(natives[i])) > limit
          \/ EndBytes(envelope, Len(natives)) > limit
      BY Zenon DEF ResultInv
    <2>2. WellFormed
      BY SlicedIsWellFormed, Zenon
    <2>3. \A i \in 1..Len(natives) : EncodedBatch(i - 1, i) = RecordBytes(Framed(natives[i]))
      BY <2>2, EncodedAloneIs, Zenon
    <2>4. Len(natives) \in Nat
      BY LoopTypes, Zenon
    <2>5. EncodedEnd(Len(natives)) = EndBytes(envelope, Len(natives))
      BY <2>4, EncodedEndIs, Zenon
    <2>. QED BY <2>1, <2>3, <2>5, Zenon
  <1>. QED BY <1>1, CallResult, PTL

-----------------------------------------------------------------------------
(***************************************************************************)
(* Greedy slicing is optimal.                                              *)
(***************************************************************************)
\* The slices lie apart, in order.
LEMMA SlicesApart ==
  ASSUME GroupInv, NEW j \in 1..Len(slices), NEW k \in 1..Len(slices), j < k
  PROVE  slices[j][2] <= slices[k][1]
  <1>. DEFINE S == {i \in Nat : i \in 1..Len(slices) /\ j < i /\ ~(slices[j][2] <= slices[i][1])}
  <1>1. Len(slices) \in Nat
    BY LenProperties DEF GroupInv, GroupTypeOK
  <1>2. S = {}
    <2>. SUFFICES ASSUME S # {} PROVE FALSE
      OBVIOUS
    <2>1. PICK i \in S : \A x \in S : i <= x
      BY LeastElement
    <2>2. i - 1 \in 1..Len(slices) /\ i - 1 \in Nat /\ i - 1 \notin S /\ i \in 1..Len(slices) /\ i # 1
      BY <1>1, <2>1
    <2>3. slices[i][1] = slices[i - 1][2] /\ slices[i - 1][1] < slices[i - 1][2]
      BY <2>2 DEF GroupInv, SlicesCover
    <2>4. CASE i - 1 = j
      <3>1. slices[j][2] \in 0..position /\ position \in Nat
        BY SliceBounds, LoopTypes
      <3>. QED BY <2>1, <2>3, <2>4, <3>1
    <2>5. CASE i - 1 # j
      <3>1. slices[j][2] <= slices[i - 1][1]
        BY <1>1, <2>1, <2>2, <2>5
      <3>2. slices[j][2] \in Nat /\ slices[i - 1][1] \in Nat /\ slices[i - 1][2] \in Nat
        BY <2>2, SliceBounds, LoopTypes
      <3>3. slices[j][2] <= slices[i][1]
        BY <2>3, <3>1, <3>2
      <3>. QED BY <2>1, <3>3
    <2>. QED BY <2>4, <2>5
  <1>. QED BY <1>1, <1>2

\* A longer slice is no smaller record.
LEMMA SliceBytesGrow ==
  ASSUME GroupInv, phase = "returned",
         NEW a \in 0..position, NEW b \in a..position, NEW c \in 0..a, NEW d \in b..position
  PROVE  SliceBytes(a, b) \in Nat /\ SliceBytes(c, d) \in Nat /\ SliceBytes(a, b) <= SliceBytes(c, d)
  <1>1. /\ position \in Nat /\ envelope \in Nat /\ a \in Nat /\ b \in Nat
        /\ c \in 0..position /\ a \in c..position /\ b \in 0..position /\ d \in c..position
    BY LoopTypes
  <1>2. offset[c + 1] \in Nat /\ offset[a + 1] \in Nat /\ offset[c + 1] <= offset[a + 1]
    BY <1>1, OffsetGrows
  <1>3. offset[b + 1] \in Nat /\ offset[d + 1] \in Nat /\ offset[b + 1] <= offset[d + 1]
    BY <1>1, OffsetGrows
  <1>4. offset[b + 1] - offset[a + 1] \in Nat /\ offset[d + 1] - offset[c + 1] \in Nat
    BY <1>1, EncodedBatchIs
  <1>5. offset[b + 1] - offset[a + 1] <= offset[d + 1] - offset[c + 1]
    BY <1>2, <1>3
  <1>6. /\ Framed(offset[b + 1] - offset[a + 1]) \in Nat /\ Framed(offset[d + 1] - offset[c + 1]) \in Nat
        /\ Framed(offset[b + 1] - offset[a + 1]) <= Framed(offset[d + 1] - offset[c + 1])
    BY <1>4, <1>5, FramedPositive, FramedGrows
  <1>. QED BY <1>1, <1>6 DEF SliceBytes, RecordBytes

\* The start of the slice of a cut that ends at e, as FewestRecords chooses it.
From(cuts, e) ==
  IF \E c \in cuts : c < e THEN CHOOSE c \in cuts : c < e /\ \A d \in cuts : d < e => d <= c ELSE 0

LEMMA FromIs ==
  ASSUME NEW cuts \in SUBSET Nat, NEW e \in Nat
  PROVE  From(cuts, e) = 0 \/ (From(cuts, e) \in cuts /\ From(cuts, e) < e)
  <1>1. CASE \E c \in cuts : c < e
    <2>. DEFINE S == {n \in Nat : \E c \in cuts : c < e /\ n = e - c}
    <2>1. S # {}
      <3>1. PICK c \in cuts : c < e
        BY <1>1
      <3>2. c \in Nat /\ e - c \in Nat
        BY <3>1
      <3>3. e - c \in S
        BY <3>1, <3>2
      <3>. QED BY <3>3
    <2>2. PICK n \in S : \A m \in S : n <= m
      BY <2>1, LeastElement
    <2>3. PICK c \in cuts : c < e /\ n = e - c
      BY <2>2
    <2>4. ASSUME NEW d \in cuts, d < e PROVE d <= c
      <3>1. e - d \in S /\ c \in Nat /\ d \in Nat
        BY <2>4
      <3>2. n <= e - d
        BY <2>2, <3>1
      <3>. QED BY <2>3, <3>1, <3>2
    <2>5. \E x \in cuts : x < e /\ \A d \in cuts : d < e => d <= x
      BY <2>3, <2>4
    <2>. QED BY <1>1, <2>5 DEF From
  <1>2. CASE ~ \E c \in cuts : c < e
    BY <1>2 DEF From
  <1>. QED BY <1>1, <1>2

\* Another cut that fits has an end in every slice: a slice is full, so one that
\* starts no later and ends later does not fit.
LEMMA EndInSlice ==
  ASSUME GroupInv, ResultInv, phase = "returned",
         NEW cuts \in SUBSET (1..Len(natives) - 1),
         \A e \in cuts \cup {Len(natives)} : EncodedBatch(From(cuts, e), e) <= limit,
         NEW k \in 1..Len(slices)
  PROVE  \E e \in cuts \cup {Len(natives)} : slices[k][1] < e /\ e <= slices[k][2]
  <1>. DEFINE ends == cuts \cup {Len(natives)}
              s == slices[k][1]
              g == slices[k][2]
  <1>1. /\ position = Len(natives) /\ position \in Nat /\ limit \in Nat
        /\ s \in 0..position /\ g \in 0..position /\ s < g
    <2>1. position = Len(natives)
      BY Zenon DEF ResultInv
    <2>. QED BY <2>1, LoopTypes, SliceBounds DEF GroupInv, SlicesCover
  <1>2. SUFFICES ASSUME \A e \in ends : ~(s < e /\ e <= g) PROVE FALSE
    OBVIOUS
  <1>3. g < position /\ SliceBytes(s, g + 1) > limit
    <2>1. Len(natives) \in ends /\ g # Len(natives)
      BY <1>1, <1>2
    <2>. QED BY <2>1 DEF ResultInv, SlicesFull
  <1>. DEFINE S == {e \in ends : e > g}
  <1>4. S \in SUBSET Nat /\ Len(natives) \in S
    <2>1. Len(natives) \in Nat /\ Len(natives) \in ends /\ Len(natives) > g
      BY <1>1, <1>3
    <2>2. \A e \in ends : e \in Nat
      BY <2>1
    <2>. QED BY <2>1, <2>2
  <1>5. PICK e \in S : \A x \in S : e <= x
    BY <1>4, LeastElement
  <1>6. e \in Nat /\ e \in ends /\ e \in 0..position /\ e > g
    BY <1>1, <1>4, <1>5
  <1>7. From(cuts, e) \in 0..s
    <2>1. cuts \in SUBSET Nat
      BY <1>1
    <2>2. CASE From(cuts, e) = 0
      BY <1>1, <2>2
    <2>3. CASE From(cuts, e) \in cuts /\ From(cuts, e) < e
      <3>. DEFINE c == From(cuts, e)
      <3>1. c \in ends /\ c \in Nat /\ c < e
        BY <2>1, <2>3
      <3>. HIDE DEF c
      <3>2. c \notin S
        BY <1>5, <1>6, <3>1
      <3>3. c <= s
        BY <1>1, <1>2, <3>1, <3>2
      <3>4. c \in 0..s
        BY <1>1, <3>1, <3>3
      <3>. QED BY <3>4 DEF c
    <2>. QED BY <1>6, <2>1, <2>2, <2>3, FromIs
  <1>. DEFINE c == From(cuts, e)
  <1>. HIDE DEF c
  <1>8. c \in 0..s /\ EncodedBatch(c, e) <= limit
    BY <1>6, <1>7 DEF c
  <1>9. g + 1 \in s..position /\ e \in g + 1 .. position /\ c \in 0..position /\ e \in c..position
    BY <1>1, <1>3, <1>6, <1>8
  <1>10. EncodedBatch(c, e) = SliceBytes(c, e)
    BY <1>9, EncodedBatchIs
  <1>11. /\ SliceBytes(s, g + 1) \in Nat /\ SliceBytes(c, e) \in Nat
         /\ SliceBytes(s, g + 1) <= SliceBytes(c, e)
    <2>. HIDE DEF s, g
    <2>. QED BY <1>1, <1>8, <1>9, SliceBytesGrow
  <1>. QED BY <1>1, <1>3, <1>8, <1>10, <1>11

\* serialize_version_group: no way to cut a group has fewer records that fit;
\* each of the greedy slices has an end of any other cut to itself.
THEOREM GreedyIsOptimal == Spec => []FewestRecords
  <1>1. GroupInv /\ ResultInv => FewestRecords
    <2>. SUFFICES ASSUME GroupInv, ResultInv, phase = "returned",
                         NEW cuts \in SUBSET (1..Len(natives) - 1),
                         \A e \in cuts \cup {Len(natives)} : EncodedBatch(From(cuts, e), e) <= limit
                  PROVE  Len(slices) <= Cardinality(cuts \cup {Len(natives)})
      BY DEF FewestRecords, From
    <2>. DEFINE ends == cuts \cup {Len(natives)}
                E(k) == CHOOSE e \in ends : slices[k][1] < e /\ e <= slices[k][2]
                f == [k \in 1..Len(slices) |-> E(k)]
    <2>1. ASSUME NEW k \in 1..Len(slices)
          PROVE  E(k) \in ends /\ slices[k][1] < E(k) /\ E(k) <= slices[k][2]
      BY EndInSlice
    <2>. HIDE DEF E
    <2>2. Len(slices) \in Nat /\ Len(natives) \in Nat
      BY LenProperties, LoopTypes DEF GroupInv, GroupTypeOK
    <2>3. ends \in SUBSET (0..Len(natives))
      <3>1. ASSUME NEW e \in ends PROVE e \in 0..Len(natives)
        BY <2>2
      <3>. QED BY <3>1
    <2>4. IsFiniteSet(ends)
      <3>1. IsFiniteSet(0..Len(natives))
        BY <2>2, FS_Interval
      <3>. QED BY <2>3, <3>1, FS_Subset
    <2>5. ASSUME NEW j \in 1..Len(slices), NEW k \in 1..Len(slices), j < k PROVE E(j) # E(k)
      <3>1. slices[j][2] <= slices[k][1]
        BY <2>5, SlicesApart
      <3>2. E(j) \in Nat /\ E(k) \in Nat /\ slices[j][2] \in Nat /\ slices[k][1] \in Nat
        BY <2>1, <2>3, SliceBounds
      <3>. QED BY <2>1, <3>1, <3>2
    <2>6. f \in Injection(1..Len(slices), ends)
      <3>1. f \in [1..Len(slices) -> ends]
        BY <2>1
      <3>2. \A j, k \in 1..Len(slices) : f[j] = f[k] => j = k
        <4>. TAKE j, k \in 1..Len(slices)
        <4>1. j < k \/ k < j \/ j = k
          BY <2>2
        <4>. QED BY <2>5, <4>1
      <3>. QED BY <3>1, <3>2, Fun_IsInj
    <2>7. Cardinality(1..Len(slices)) <= Cardinality(ends)
      BY <2>4, <2>6, FS_Injection
    <2>8. Cardinality(1..Len(slices)) = Len(slices)
      <3>. DEFINE m == Len(slices)
      <3>1. m \in Nat
        BY <2>2
      <3>. HIDE DEF m
      <3>2. 1 \in Int /\ m \in Int
        BY <3>1
      <3>3. Cardinality(1..m) = IF 1 > m THEN 0 ELSE m - 1 + 1
        BY <3>2, FS_Interval
      <3>4. Cardinality(1..m) = m
        BY <3>1, <3>3
      <3>. QED BY <3>4 DEF m
    <2>. QED BY <2>7, <2>8
  <1>. QED BY <1>1, CallResult, PTL
=============================================================================
