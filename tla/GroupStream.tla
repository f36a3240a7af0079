---------------------------- MODULE GroupStream -----------------------------
(***************************************************************************)
(* Version groups from the native log to the readers of the topic.         *)
(*                                                                         *)
(* poll_records() serializes every group of one native reply before it     *)
(* returns the first record; the records are then published one by one.    *)
(* Any failure or crash in between is a restart that resumes from the last *)
(* acknowledged version, and serializes the groups again with a new        *)
(* timestamp and, after an operator changed it, another limit: the same    *)
(* mutations may be cut into other slices.  Bridge.tla follows whole       *)
(* records at fixed positions; here the records of two attempts at one     *)
(* group may differ.                                                       *)
(*                                                                         *)
(* Two readers follow the topic: one that keeps the reader contract of     *)
(* SERIALIZATION-SPEC section 6, and the demo's verify_workload().         *)
(***************************************************************************)
EXTENDS VersionGroup, RecordDecoder, FiniteSets

CONSTANTS
  LastVersion,   \* commit versions 1..LastVersion
  Groups,        \* the groups a version may have; bounds the model
  Limits,        \* max_record_bytes of a process
  Envelopes,     \* bytes of the envelope, which vary with the timestamp
  MaxRestarts    \* bounds the restarts

\* Commit versions are native versions, and the settings are validated.
ASSUME GroupStreamAssumption ==
  /\ LastVersion \in 0..MaxNativeVersion
  /\ Groups \subseteq Seq(Payload \cup {Malformed})
  /\ Limits \subseteq Nat \ {0}
  /\ Envelopes \subseteq Nat

CommitVersion == 1..LastVersion

VARIABLES
  log,        \* log[v]: the native mutations of version v
  released,   \* versions acknowledged to FoundationDB
  watermark,  \* last_consumed_version of the reply
  version,    \* the group of the reply being serialized
  records,    \* `serialized`, then what is still to be published
  stage,      \* "polling", "serializing", "publishing", "published", "failed"
  restarts,
  maxRecordBytes,   \* the listener's setting
  timestamp,        \* bytes of the envelope with the time of this poll
  topic,      \* the records published, in order
  reader,     \* the reader that keeps the contract
  verifier    \* verify_workload()

streamVars == <<log, released, watermark, version, records, stage, restarts>>
processVars == <<maxRecordBytes, timestamp>>
topicVars  == <<topic, reader, verifier>>

-----------------------------------------------------------------------------
(* The contract reader (external): it collects the group being read and     *)
(* takes it over when its VersionEnd comes; an older version end means a    *)
(* redelivery, which it drops.                                              *)

Reader0 == [open |-> 0, count |-> 0, last |-> 0, taken |-> {}, broken |-> FALSE]

ReadBatch(r, ms) ==
  LET v == ms[1].index[1]
      s == ms[1].index[2]
      continues == s = 0 \/ (r.open = v /\ r.count = s)
  IN  [r EXCEPT !.open = v, !.count = s + Len(ms), !.broken = @ \/ ~ continues]

ReadEnd(r, v, total) ==
  LET whole == total = 0 \/ (r.open = v /\ r.count = total)
  IN  [r EXCEPT !.open = 0, !.count = 0, !.broken = @ \/ ~ whole,
                !.last = IF v > @ THEN v ELSE @,
                !.taken = IF v > r.last /\ total > 0 THEN @ \cup {<<v, total>>} ELSE @]

-----------------------------------------------------------------------------
(* verify_workload(): sets of coordinates and totals.  A workload index is  *)
(* written once, so a repeated coordinate and a repeated index coincide.    *)

Verifier0 == [seqs |-> {}, totals |-> {}, duplicate |-> FALSE]

\* A repeated coordinate is let through.
CheckMutationsOnce(c, ms) == [c EXCEPT !.seqs = @ \cup {ms[i].index : i \in DOMAIN ms}]

CheckMutations(c, ms) ==
  LET new == {ms[i].index : i \in DOMAIN ms}
  IN  [c EXCEPT !.seqs = @ \cup new, !.duplicate = @ \/ new \cap c.seqs # {}]

CheckEnd(c, v, total) ==
  [c EXCEPT !.totals = @ \cup {<<v, total>>},
            !.duplicate = @ \/ \E t \in c.totals : t[1] = v]

Coordinates == UNION {{<<v, i>> : i \in 0..Len(log[v]) - 1} : v \in CommitVersion}

SeqsOf(c, v) == {x[2] : x \in {y \in c.seqs : y[1] = v}}

\* The coordinates that the totals declare; a version has one total, so that
\* their number is the sum of the totals.
Declared(c) == UNION {{<<t[1], i>> : i \in 0..t[2] - 1} : t \in c.totals}

\* No AssertionError: neither on the way nor in the checks at the end.
Verified(c) ==
  /\ ~ c.duplicate
  /\ Cardinality(c.seqs) = Cardinality(Coordinates)
  /\ \A x \in c.seqs : \E t \in c.totals : t[1] = x[1]
  /\ \A t \in c.totals : SeqsOf(c, t[1]) = 0..t[2] - 1
  /\ Cardinality(Declared(c)) = Cardinality(Coordinates)

-----------------------------------------------------------------------------

\* No call of the serializer in progress.
NoCall ==
  /\ natives = <<>> /\ limit = 1 /\ envelope = 0
  /\ position = 0 /\ offset = <<0>> /\ slices = <<>> /\ start = 0 /\ batchBytes = 0
  /\ phase = "idle"

HangUp == Locals(<<>>, 1, 0, "idle")

\* No reply in progress either, and nothing published.
StreamIdle ==
  /\ NoCall
  /\ timestamp = 0
  /\ watermark = 0 /\ version = 0
  /\ records = <<>> /\ stage = "polling" /\ restarts = 0
  /\ topic = <<>> /\ reader = Reader0 /\ verifier = Verifier0

GroupStreamInit ==
  /\ log \in [CommitVersion -> Groups]
  /\ maxRecordBytes \in Limits
  /\ released = 0
  /\ StreamIdle

\* The versions after v that have a group in the reply.
GroupsAfter(v) == {u \in v + 1 .. watermark : log[u] # <<>>}
Least(S) == CHOOSE x \in S : \A y \in S : x <= y

\* consume(): a reply up to any later version, with the time of the poll.
Poll(w, env) ==
  /\ stage = "polling"
  /\ w > released
  /\ stage' = "serializing"
  /\ watermark' = w
  /\ version' = released
  /\ records' = <<>>
  /\ timestamp' = env
  /\ UNCHANGED <<log, released, restarts, maxRecordBytes, groupVars, topicVars>>

\* The next version group of the reply.
SerializeGroup ==
  /\ stage = "serializing"
  /\ phase \in {"idle", "returned"}
  /\ GroupsAfter(version) # {}
  /\ version' = Least(GroupsAfter(version))
  /\ Locals(log[version'], maxRecordBytes, timestamp, "checking")
  /\ UNCHANGED <<log, released, watermark, records, stage, restarts, processVars, topicVars>>

\* One step of the call; its last step hands over the records.
RunSerializer ==
  /\ stage = "serializing"
  /\ GroupNext
  /\ UNCHANGED <<log, released, watermark, version, restarts, processVars, topicVars>>
  /\ records' = IF phase' = "returned" THEN records \o (Returned(version))' ELSE records
  /\ stage' = IF phase' \in {"malformed", "too large"} THEN "failed" ELSE stage

\* The watermark's own VersionEnd, when it lies beyond the last group.
FinishReply ==
  /\ stage = "serializing"
  /\ phase \in {"idle", "returned"}
  /\ GroupsAfter(version) = {}
  /\ LET marked == log[watermark] = <<>>
     IN  IF marked /\ EndBytes(timestamp, 0) > maxRecordBytes
           THEN stage' = "failed" /\ UNCHANGED records
           ELSE /\ stage' = "publishing"
                /\ records' = IF marked THEN Append(records, End(watermark, 0)) ELSE records
  /\ HangUp
  /\ UNCHANGED <<log, released, watermark, version, restarts, processVars, topicVars>>

\* What a reader decodes of a published record.
AsMessage(r) ==
  IF r.kind = "end" THEN EndMessage(r.version, r.total)
  ELSE BatchMessage([i \in 1..(r.upto - r.from) |-> 0], r.version, r.from)

Publish ==
  /\ stage = "publishing"
  /\ records # <<>>
  /\ records' = Tail(records)
  /\ topic' = Append(topic, Head(records))
  /\ LET r == Decode(AsMessage(Head(records)))
     IN  \/ /\ r.kind = "batch"
            /\ reader' = ReadBatch(reader, r.mutations)
            /\ verifier' = CheckMutations(verifier, r.mutations)
         \/ /\ r.kind = "end"
            /\ reader' = ReadEnd(reader, r.version, r.total)
            /\ verifier' = CheckEnd(verifier, r.version, r.total)
  /\ stage' = IF Len(records) = 1 THEN "published" ELSE stage
  /\ UNCHANGED <<log, released, watermark, version, restarts, processVars, groupVars>>

\* Every record is durable: the reply is acknowledged.
Release ==
  /\ stage = "published"
  /\ released' = watermark
  /\ stage' = "polling"
  /\ UNCHANGED <<log, watermark, version, records, restarts, processVars, groupVars, topicVars>>

\* The resumed process starts after the last reply instead of the last release.
ResumeAtWatermark(l) ==
  /\ restarts < MaxRestarts
  /\ stage # "polling"
  /\ restarts' = restarts + 1
  /\ maxRecordBytes' = l
  /\ stage' = "polling"
  /\ records' = <<>>
  /\ HangUp
  /\ released' = watermark
  /\ UNCHANGED <<log, watermark, version, timestamp, topicVars>>

\* A crash, or a rebuild after any failure; the limit may be a new one.
Resume(l) ==
  /\ restarts < MaxRestarts
  /\ stage # "polling"
  /\ restarts' = restarts + 1
  /\ maxRecordBytes' = l
  /\ stage' = "polling"
  /\ records' = <<>>
  /\ HangUp
  /\ UNCHANGED <<log, released, watermark, version, timestamp, topicVars>>

GroupStreamNext ==
  \/ \E w \in CommitVersion, env \in Envelopes : Poll(w, env)
  \/ SerializeGroup
  \/ RunSerializer
  \/ FinishReply
  \/ Publish
  \/ Release
  \/ \E l \in Limits : Resume(l)
=============================================================================
