# Verification of the FoundationDB-to-Kafka bridge

The bridge reads the native change stream (CDC) of a FoundationDB cluster,
serializes the mutations of every commit version into an ordered group of
records, publishes them to one partition of a Kafka topic, checkpoints the
position in a cursor file, and only then acknowledges the position to
FoundationDB, which may then forget it.  Its promise is at-least-once delivery
in commit order.  This directory holds TLA+ models of the code that makes the
promise, TLC configurations that check them on small instances, and TLAPS
proofs of the central results for every instance.

Source paths below are relative to `src/fdb_kafka_bridge/` in the repository.

## Inventory

| Component | State | Operations | Interacts with |
|---|---|---|---|
| `BridgePipeline` (`bridge/pipeline.py`) | `_commit_outstanding`, `_delivered_unacked`, `_checkpointed`, `_pending_count` | `step`, commit/abort, checkpoint, acknowledge with retries | listener, producer, checkpoint callback |
| `Bridge` (`bridge/pipeline.py`) | handles, `_pipeline`, `_step_lock`, `_shutdown_requested`, local `rebuild_pending`, metrics | `start`, `run`, `_needs_rebuild`, `_rebuild_pipeline`, `stop` | everything; two threads (run and stop) |
| cursor file (`bridge/pipeline.py`) | the file, its durable directory entry | save (tmp, fsync, rename, directory fsync), load | pipeline (callback), rebuild |
| `FDBMutationListener` (`cdc/listener.py`) | `_consumer`, `_is_closed`, `_awaiting_ack`, `_delivery_failed` | `start`, reconcile, `poll_records`, `acknowledge`, `get_position`, `close` | client, serializer |
| `FDBClient` (`cdc/client.py`) | database handle | open, stream registration, consumers, error classification | FoundationDB |
| `MutationProducer` (`kafka/producer.py`) | `_delivery_errors`, `_txn_initialized`, `_txn_open`, `_closed`, `_fatal` | transactions, `produce`, `flush_or_raise`, `close`, callbacks | librdkafka |
| serialization (`serialization/`) | locals of one call: the open slice and its bytes, the closed slices | `serialize_version_group`, `serialize_batch`, `serialize_version_end`, `deserialize_record` | listener, readers of the topic |
| configuration (`bridge/config.py`) | none | validation | `Bridge` |
| key ranges (`cdc/listener.py`) | none | `strinc`, `subspace_to_key_range` | stream registration |
| metrics (`bridge/pipeline.py`) | counters, `_last_records` | count per batch | `run`, `stop` |
| demo (`demo/workload.py`) | what was consumed | `verify_workload` | readers of the topic |

What is hard here:

* **Five flags in three objects say how far a batch has come** (`awaiting_ack`,
  `delivery_failed`, `commit_outstanding`, `delivered_unacked`,
  `checkpointed`), and an exception may leave any combination of them behind.
  `_needs_rebuild` decides from them whether the next `step()` can go on in
  place or everything must be rebuilt from the checkpoint.  A wrong answer one
  way loses records or aborts a commit that succeeded; the other way every
  later poll fails.
* **Outcomes are uncertain**: a commit whose answer is lost, a flush that times
  out with records in flight, a purge, an acknowledgement that was applied.
* **librdkafka calls back** inside produce, flush, commit and abort, and can
  mark the producer fatal between two attempts.
* **Crashes** fall between any two of publish, rename, directory fsync and
  acknowledgement, and a process crash differs from a machine crash.
* **stop() runs on another thread** and may find a step parked in `consume()`,
  a commit outstanding, a rebuild half way through, or nothing at all; when it
  does not get the step lock in time it goes on without it.
* **A failover need not wait for its predecessor to be dead**: two bridges may
  share a transactional id, a stream, a cursor file and its temporary file.
* **A replayed group is not the same bytes**: its timestamp, and with a new
  limit its slices, differ from what the first attempt has left on the topic.

The properties that make each component correct: the pipeline acknowledges and
checkpoints delivered positions only, never publishes a batch twice through one
producer and keeps a commit in doubt; the run loop never polls a listener that
must refuse, and makes progress once failures stop; the cursor never runs ahead
of the topic; readers see records without gaps and, with transactions, whole
versions; the serializer yields records within the size limit that cover the
group in order, and as few as possible; a `stop()` that got the lock leaves
nothing open and nothing running; a key range covers its subspace exactly.

## Modules

| Module | Models | Contents |
|---|---|---|
| `StreamData` | the data | versions, record groups, the reply of a poll |
| `CDCListener` | the stream in FoundationDB and the listener | variables and the effect of each call |
| `MutationProducer` | the wrapper, librdkafka, the broker | variables and the effect of each call, broker moves |
| `CursorFile` | the cursor file and its directory entry | replace, sync, machine crash |
| `Bridge` | `BridgePipeline.step()`, `Bridge`, crashes | composes the three above; `Init`, `Next`, `Spec`, `FairSpec` |
| `Delivery` | the promise | an abstract specification: a log that grows in order, what may be forgotten, what a cursor covers |
| `BridgeProperties` | | what the bridge owes its users, `Delivery` refined, and the statements the code does not keep |
| `BridgeInvariant` | | the inductive invariant `IInv`: `DeliveryInv`, `LoopInv`, `OrderInv` |
| `MCBridge` | | the instances of `Bridge` for TLC |
| `BridgeProofs` | | proofs: types, `DeliveryInv`, nothing is lost |
| `BridgeLoopProofs` | | proofs: `LoopInv`, what the run loop owes the pipeline |
| `BridgeOrderProofs` | | proofs: `OrderInv`, order, and the refinement of `Delivery` |
| `BridgeLifecycle` | `Bridge` as two threads share it | the step lock, the handles, rebuilds, `stop()`, metrics; `Spec`, `FairSpec` |
| `LifecycleProperties` | | what `stop()` owes its caller |
| `LifecycleProofs` | | proofs: lock discipline, open handles, counted batches |
| `VersionGroup` | `serialize_version_group()` | the loop, its sizes, its invariant `GroupInv` |
| `VersionGroupProofs` | | proofs: sizes, `GroupInv`, and the reasons for a result |
| `RecordDecoder` | `deserialize_record()`, the checks and the encoding | both directions, and a consumer that forwards |
| `GroupStream` | `poll_records()` over the groups of a reply, and two readers | composes `VersionGroup` and `RecordDecoder` |
| `SerializationProperties`, `MCSerialization` | | reference definitions, properties, the instance |
| `SerializationProofs` | | proofs: the records, the readers, the verifier, the cut |
| `FencedBridges` | several bridges with one transactional id and one cursor file | the coordinator's epoch, the temporary file, fencing |
| `FencingProperties`, `MCFencing` | | what holds across the failover, `Delivery` refined by all bridges together, the instance |
| `FencingProofs` | | proofs: epochs, positions and files, the refinement |
| `KeyRange` | `strinc`, `subspace_to_key_range`, the range checks | the functions, from a prefix to a captured key |
| `KeyRangeProofs` | | proofs: the order of keys, the range and the subspace |

**Data.**  The records of all versions are the positions 1, 2, 3, ... of one
log; `EndOf[v]` is the last record of the groups up to version `v`.  A version
that touches nothing in the key range has an empty group.  A reply whose
watermark is such a version ends with an extra `VersionEnd`, which belongs to no
group: the record `-v`.  Payloads, keys and sizes are left out; a version whose
mutation fits no record is a member of `Oversized`, one too large for any
native reply a member of `TooLarge`.

**Listener.**  `position` is what the native consumer has consumed, which
`get_position()` returns.  A poll sets `delivery_failed` until all records are
built (`Deliver`, `FailDelivery`), then `awaiting_ack`.  FoundationDB keeps
the versions from `minVersion`; acknowledging moves it.  A consumer behind it is
answered 1007.

**Producer.**  `queue` is what librdkafka has accepted and the broker has not
answered for; `staged` is the open transaction at the broker; `topic` is what a
reader sees (with transactions, a `read_committed` reader).  The wrapper forces
idempotence, the gapless guarantee and no message timeout; so records arrive
once and in order, and one failure fails everything behind it.  A failed record
may have arrived all the same.  A commit request may be accepted and its answer
lost (`CommitUnanswered`); the coordinator then completes it whoever waits.

**Bridge.**  One action for each point at which the thread can fail or be
interrupted; `pc` says where it is and `exc` holds the exception by kind, the
kinds `run()` tells apart.  Retry loops are the actions `CommitRetriable` and
`AckFails` with `attempt`; sleeps are left out.  `caller` tells whether `start`,
`run` or `stop` drives `step()`, because an exception goes to a different place
for each.  A crash may happen at every point; it clears what lived in memory and
leaves the broker, the database and the file.  Injected failures, timeouts and
crashes are paid from the budget `MaxFaults`; a failure the state makes
inevitable (a refused poll, a sticky error) is free, so that a stuck bridge
stays stuck.  The bridge can always be stopped and started again.

**Two threads.**  `Bridge` has one thread and every failure of a step;
`BridgeLifecycle` has the two threads and cuts the step down to what they see of
it: it polls (and may park there for ever), delivers, and returns or raises,
leaving a commit outstanding, an acknowledgement to do, or a state that only a
rebuild clears.  A component is the number of its construction, so that a
listener the run thread still uses can be told from the one that `stop()` or a
rebuild has put in its place.  A `stop()` that has given up the lock may come between
any two actions of `run()`, so a rebuild is cut at every call that takes its time: the two
closes of the discard, the opening of the client, the start of the listener, its reconcile,
and `init_transactions()`; an action assigns one handle, or those between two such calls.
`stop()` reads the handles in one action and unsets them in another, for what is
bound in between is unset unseen.  `live` are the components that hold a connection or a
native consumer and on which `close()` was not called since; whether a `close()` that
raises has released anything is not known, and the properties claim no more than that it
was attempted.  Only the listener's lets an exception out (`CloseMayRaise`).  A listener
holds a consumer only once `start()` has bound it, and binds it even when it was closed in
between; a reconcile then fails and closes the consumer, a start without a cursor does not.
`start()` takes no lock and is over before `stop()` is called.

**Serialization.**  A mutation is the size of its message.  One action is one
turn of the loop; `offset` keeps the running sum of framed sizes as a history
variable, from which `GroupInv` says what the open and the closed slices hold.
`GroupStream` runs the loop for every group of a reply, publishes the records one
by one, and may restart at any point with another limit and timestamp.
Its contract reader keeps the rules of `docs/SERIALIZATION-SPEC.md` section 6;
the other reader is `verify_workload()`.  `RecordDecoder` reads any message a
protobuf parser returns, written by this bridge or not.

**Two bridges.**  `FencedBridges` has the steps in which bridges can see each
other: load and resume, `init_transactions()` (which takes the epoch), poll,
produce, commit, and `open`/`write`/`rename` of the temporary file separately.
A descriptor follows its file: another bridge may rename it under the writer.

External parts (FoundationDB, librdkafka, the broker, the file system's
behaviour in a crash) are modelled only as far as the code relies on them, with
all outcomes it may meet.

## Properties

| Property | Says |
|---|---|
| `KeepsPromise` | every step of the bridge is a step of `Delivery` or a stutter |
| `AtLeastOnce` | what FoundationDB may forget is readable in the topic |
| `CheckpointCovered` | the cursor found, or left by a machine crash, skips nothing |
| `GapFree` | no reader ever sees a record before its predecessors |
| `TxnAtomic` | with transactions, a version is seen whole or not at all |
| `NeverPollsRefusing` | `step()` never polls a listener that must refuse |
| `ProducerUsable` | no batch is sent through a closed or dropped producer |
| `AckAfterSync` | a step releases a version only when its cursor is durable |
| `TooOldByCrashOnly` | the bridge asks for released versions (1007) only after a machine crash took the cursor back |
| `CommitInDoubtKept` | a commit in doubt keeps its producer, listener and position |
| `NoRepublish` | one producer sends a record once |
| `EventuallyReleased` | when failures stop, every version is released that is committed before one no record can carry |
| `CommitResolves` | no commit stays in doubt |
| `StopReleasesAll` | a `stop()` that got the lock leaves no component whose close was not attempted, wherever `run()` was |
| `NothingAfterStop` | nor does `run()` build, poll or acknowledge anything after it |
| `StopTerminates`, `StopEndsRun` | both threads come to an end, though the stream is idle |
| `MetricsExact` | `run()` counts every batch it acknowledges once, in order (what `stop()` acknowledges it does not: see `uncounted_batch`) |
| `RecordsFit` | every record fits the limit, as an encoder writes it and not only as the loop computed it |
| `FewestRecords` | no other cut of a group into records that fit has fewer |
| `RefusesOnlyUndeliverable` | a group is refused only when some part fits no record by itself |
| `ReaderContract`, `ReleasedIsTaken` | readers see whole groups in order through replays cut anew, and all that is released |
| `VerifierExact` | `verify_workload()` accepts exactly the topics with every record once |
| `ReadableIsWritable` | what decodes encodes again, to the same |
| `ReleasedIsRead`, `CursorIsRead`, `LogHasNoGap` | nothing is lost or left out although two bridges work on one stream |
| `FencedKeepsPromise` | every step of any of them is a step of `Delivery` or a stutter |
| `CoversSubspace`, `RefusesOnlyUnbounded` | the registered range is the subspace, refused only when it has no upper bound |

`KeepsPromise` maps the database's frontier, the visible records and the cursor
file to the variables of `Delivery`.  It is the strongest statement here:
it ties every change of one of them to the state of the others, where the
invariants look at one state at a time.  With transactions the log of `Delivery`
grows by whole versions only.

## Runs

| Run | Mode | Bounds | Shows |
|---|---|---|---|
| `txn_safety` | transactional, cursor file | 4 versions (the second idle, the fourth fits no record), 7 faults | the refinement, all safety properties and `IInv` |
| `idem` | idempotent, cursor file, directory fsync unsupported | 3 busy versions, the third fits no record, 7 faults | the refinement, `IInv`, safety and progress on the flush path, with replaced producers, cursors taken back and a version that is never skipped |
| `live_txn` | transactional, no cursor file | 2 versions, 5 faults | progress and resolution |
| `serialization` | | 2 versions, groups up to 4 mutations, 3 limits, 2 envelopes, 2 restarts | slicing, readers, verifier; every foreign record of up to 2 mutations |
| `lifecycle` | | 7 components, 2 batches, 2 stops | the two threads |
| `fencing` | transactional | 2 bridges, 3 versions (the middle one idle), 3 starts | a failover without a death |
| `key_range` | | 3 byte values, keys up to 3 bytes | every prefix, every key |
| `cursor_durability` | idempotent | 1 version, 1 fault | refutes `ReleaseIsDurable` |
| `poison_pill` | idempotent, version 2 too large | no fault | refutes `PoisonPillEscalated` |
| `stop_mid_commit` | transactional | 1 version, 4 faults | refutes `StopKeepsCommit` |
| `stop_leaks` | | 5 components, 1 batch, 1 stop | refutes `StopClosesAllHandles` |
| `uncounted_batch` | | 3 components, 1 batch, 1 stop | refutes `BatchesAckedIsTotal` |

Why the bounds are enough:

* `Bridge`.  Three versions allow a batch of several groups, a batch after an
  acknowledged one, and an idle version before and after a busy one; one more, that
  fits no record, fails every reply it is in, also one that carries others.  A group of
  two records (a mutation record and its `VersionEnd`) can be split by a failure.
  Two attempts are the fewest with a retry and an exhausted budget.  The longest
  failure chains of the properties (retriable exhaustion in a step, a crash, a
  failed rebuild, an applied but unanswered acknowledgement) need four faults; seven
  let one such chain follow another.  There is no deadlock: a stopped bridge can be
  started.
* `serialization`.  Framed, 61 and 62 bytes make 127 together and 62 twice makes
  128, where the length varint of the batch grows; 140 has a longer varint of its
  own.  The limits refuse everything, admit one of the large mutations at exactly
  the limit or not (the envelopes 10 and 11 differ by one byte), and admit several.
  Two restarts leave up to two unfinished attempts before the one that is released.
* `lifecycle`.  Seven components are a client and three pairs of a listener and a
  producer: the start and two rebuilds.  Two stops let the second meet what a
  forced first one left.  Deadlock is not checked because both threads end.
* `fencing`.  Three starts are a predecessor, its successor, and one more of either
  after what the two have left; three versions let each publish one.  Deadlock is
  not checked because starts and versions are used up.
* `key_range`.  The ordering of bytes needs a least, a greatest and one in between;
  three positions allow a prefix that ends in one or two greatest bytes.

**Fairness.**  `Bridge!FairSpec` assumes that the bridge's thread keeps running,
and that the broker keeps taking records and finishing accepted commits.  Nothing
forces a start, a stop or a failure; the budget bounds failures, which is the
condition "once failures stop".  `EventuallyReleased` holds only while the bridge
serves: a terminal, fatal or permanent error ends `run()`, which is for an operator; and
only until a version is committed that fits no record (`Undeliverable`), behind which
nothing moves.
`BridgeLifecycle!FairSpec` assumes that both threads keep running, each by weak
fairness of its steps, but not that `consume()` answers: an idle stream parks a
step for ever, and `stop()` has to end it.  A bounded wait for the lock may time
out or not.

## Where code and documents disagree

* `cursor_durability`.  `pipeline.py` line 463 wants the acknowledgement blocked
  until the directory is synced, because until then the rename may not survive
  a crash.  `step()` does so.  A restart does not: the process dies between
  `os.replace` and the directory fsync (or the fsync fails and a rebuild
  follows), the new listener reads the renamed file, and
  `_reconcile_resumed_consumer` acknowledges that cursor without any sync.  If
  the machine then crashes and the old file comes back, the stream no longer
  retains what follows it: 1007, which is terminal.  No record is lost
  (`AtLeastOnce` holds), but the bridge cannot resume by itself.
* `poison_pill`.  `CDCRetryableError` (`cdc/errors.py` line 46) asks to escalate
  1211 when it repeats at one version.  `run()` retries it forever.
* `stop_mid_commit`.  Rule 7 of `docs/BRIDGE-PIPELINE-SPEC.md`, which the
  document says `Bridge` follows, wants `step()` repeated until the commit
  succeeds or a non-retriable error is raised.  `_finish_outstanding_commit` ends
  on the first exception.  The document's own section on `stop()` describes
  the code.
* `stop_leaks`.  The docstring of `stop()` and the same section of the document say
  that all handles are closed, without the lock as well.  In the trace a failed step
  leaves a rebuild due, and the rebuild is in `producer.close()` of its discard, which
  may take three times the `shutdown_timeout_seconds` that `stop()` waits twice.
  `stop()` gives up the lock, reads and unsets the handles; `_build_pipeline` finds no
  client and opens a new one (lines 691-697), the build fails,
  `_discard_listener_and_producer` keeps the client, `run()` raises, and nobody closes it.
  A build that succeeds leaves a listener and a producer as well, and `run()` may even go
  on to poll them once before it sees the shutdown, and park there.  A start without a
  cursor (`listener.py` line 152), followed by the construction of the producer, is the
  other window.  While a cursor is resumed or `init_transactions()` runs there is none: a
  reconcile with a closed listener raises and closes its consumer, and every handle
  is bound before `init_transactions()`.  With the lock nothing is left (`StopReleasesAll`).
* `uncounted_batch`.  `BridgeMetrics` (line 382) and the property of `Bridge` (line 655)
  call `batches_acked` the total count of the batches acknowledged to FoundationDB.  Only
  `run()` counts.  When `stop()` finds a commit outstanding, the step of
  `_finish_outstanding_commit` commits and acknowledges the batch, and its result is
  dropped.  `MetricsExact` says what does hold: nothing else is missing.

## Proofs

Every invariant and every action property that a passing run checks is proved, for all
values of the constants: every number of versions and records, retries, failures,
bridges, components, stops and restarts, both modes, with and without a cursor file,
all groups, limits and byte alphabets.  TLC keeps the liveness properties.

| Module | Theorem | `Spec` implies |
|---|---|---|
| `BridgeProofs` | `TypeCorrect` | `[]TypeOK` |
| | `DeliveryInvariant` | `[]DeliveryInv` |
| | `NothingIsLost` | `[]AtLeastOnce` |
| | `CursorsSkipNothing` | `[]CheckpointCovered` |
| `BridgeLoopProofs` | `LoopInvariant` | `[](DeliveryInv /\ LoopInv)` |
| | `NoRefusedPoll` | `[]NeverPollsRefusing` |
| | `ProducerStaysUsable` | `[]ProducerUsable` |
| | `AcknowledgedIsDurable` | `AckAfterSync` |
| | `NothingReleasedIsAskedFor` | `TooOldByCrashOnly` |
| | `DoubtIsKept` | `CommitInDoubtKept` |
| `BridgeOrderProofs` | `InvariantHolds` | `[]IInv` |
| | `NoGaps` | `[]GapFree` |
| | `VersionsAreAtomic` | `[]TxnAtomic` |
| | `NothingIsResent` | `NoRepublish` |
| | `BridgeKeepsPromise` | `KeepsPromise` |
| `LifecycleProofs` | `LifecycleInvariant` | `[]LifecycleInv` |
| | `StopLeavesNothingOpen` | `[]StopReleasesAll` |
| | `RunIsQuiet` | `NothingAfterStop` |
| | `BatchesAreCounted` | `[]MetricsExact` |
| `VersionGroupProofs` | `GroupSlicing` | `[]GroupInv` |
| `SerializationProofs` | `StreamSlicing` | `[]GroupInv` |
| | `ReturnedRecordsFit` | `[]RecordsFit` |
| | `GreedyIsOptimal` | `[]FewestRecords` |
| | `RefusedGroupsDoNotFit` | `[]RefusesOnlyUndeliverable` |
| | `ReadersSeeWholeGroups` | `[]ReaderContract` |
| | `ReleasedGroupsAreTaken` | `[]ReleasedIsTaken` |
| | `VerifierIsExact` | `[]VerifierExact` |
| | `ReadableRecordsAreWritable` | `[]ReadableIsWritable` |
| `FencingProofs` | `FencingInvariant` | `[]FencingInv` |
| | `FailoverLosesNothing` | `[]ReleasedIsRead` |
| | `SharedCursorIsRead` | `[]CursorIsRead` |
| | `FailoverLeavesNoGap` | `[]LogHasNoGap` |
| | `FencedBridgesKeepPromise` | `FencedKeepsPromise` |
| `KeyRangeProofs` | `RangeCoversSubspace` | `[]CoversSubspace` |
| | `RefusalIsUnbounded` | `[]RefusesOnlyUnbounded` |

(`Spec` is the module's own; for `VersionGroupProofs` it is `GroupSpec`, one call.)

The proofs assume the named assumptions on the constants and nothing else.
`StreamAssumption` and its kin say that the bounds are natural numbers and `EndOf` is
monotone; `RecordDecoderAssumption` that the field limits of the schema are natural
numbers and that the type code of a clear-range is one of the codes;
`GroupStreamAssumption` that commit versions are native versions, `max_record_bytes`
is positive (the configuration refuses anything else) and the envelope has a length;
`KeyRangeAssumption` that there are at least two byte values.

### One bridge

`TypeCorrect` comes first.  The state has three parts; a step treats each in one
of few ways (`ProducerStep`, `ListenerStep`, `CursorStep`), whose types are
proved once.  The inductive invariant `IInv` has three parts as well, each
inductive once the ones before it are known.

**`DeliveryInv`: where a batch is.**  `AtLeastOnce` is not inductive: an
acknowledgement releases `position`, and nothing in the property says that
`position` was delivered.  `DeliveryInv` says so at the points where it is used,
and why: from the poll to the flush or the commit every record of the batch is
in the topic, in the broker's transaction, in librdkafka's queue or still in the
pipeline's hands, *unless* a delivery error or the coordinator has condemned the
batch (`BatchCovered`).  A flush that returns, or a commit that succeeds, rules
out the exception and empties all places but the topic (`DeliveryStep`), which
makes the position delivered (`UnackedDelivered`); checkpoints and
acknowledgements take positions from there.  A listener that resumes takes its
position from the cursor or from what FoundationDB retains, both delivered
(`ReaderStep`); one that cannot vouch for its position refuses to be polled
(`ReaderDelivered`).  `FlagsInPlace` records where each flag can be set; in
particular a commit in doubt survives only errors that `run()` answers with
another step.  The data lemma `ReplyCovers` shows that a reply leaves out no
record between the position and the watermark.

**`LoopInv`: what the run loop finds.**  That `step()` never polls a refusing
listener depends on the loop: wherever an error leaves the listener waiting for
an acknowledgement or failed, either a delivery is in progress, which the next
step finishes before it polls, or the error is one after which
`_needs_rebuild()` replaces the listener (`RefusalHandled`).  `HandlesOpen` says the
same of closed handles.  `CursorDurable` says what `checkpointed` means: the
retry of an acknowledgement skips the checkpoint, so the flag has to imply that
the cursor is durable, and it has to be cleared with the batch.  `CursorKept` ties the cursor
file to FoundationDB's frontier: an acknowledgement releases the position, so that position has
to be in the file by then (`KeptStep`), and a step that moves the frontier is an
acknowledgement (`ReleaseShape`).  Only a machine crash can leave the file behind.

**`OrderInv`: the topic grows in commit order.**  `GapFree` is not inductive
either: what arrives next comes from the queue, so the queue has to continue the
topic, and the records not yet produced have to continue both (`PlainOrder`).
This uses that one failure fails everything behind it, and that a new poll
finds nothing of an earlier batch in flight (`QuietBetween`).  With transactions
the topic ends with a version, and what the coordinator may commit completes one
(`TxnOrder`).  `VersionsInOrder` keeps a cursor that a crash takes back behind the
listener's position, and `SentOnce` keeps what is still to be produced apart from what
this producer has sent.

**The refinement.**  The initial states map to each other.  `PromiseShape` splits a
step by what it does to the mapped variables: nothing but the visible log, a new
version, a release, a checkpoint, or a crash of the cursor.  `PromiseStep` shows
that each is a step of `Delivery` or a stutter.  That the log of a reader stays an
initial part of the database's log is a fact about the state after the step
(`ReadsPrefix`), which follows from `IInv`; for an idempotent producer the length of
that part is the number of visible records (`VisibleIsPrefix`), and a step only adds to
them (`TopicGrows`).

### Two threads

`StopReleasesAll` speaks of the end of `stop()`; what makes it true is the step lock.
`LifecycleInv` holds of every execution in which no `stop()` has given up waiting for the
lock (`~forced`), and has four parts.  `LockHeld` says who has the lock at which point.
`ShutdownSeen` says that once a `stop()` has had it, no iteration will take it again: an
iteration reads the shutdown flag under the lock.  `OpenIsHeld` accounts for
what is open: it is in a handle, or `stop()` has taken it and not closed it yet; and a handle
is bound only while it is unset, so that binding one loses none.  After `stop()` has closed
what it took and cleared the handles, nothing can be open.  `CountedNext` follows
the number of records from the poll that buffers it over the acknowledgement to the
addition outside the lock: one batch may be in between, and it is the one acknowledged
last.  `StopLeavesNothingOpen`, `RunIsQuiet` and `BatchesAreCounted` follow.

### The serializer

*Sizes.*  `BitLength` and the length of a varint (`EncodedVarint`) are recursive
functions over the natural numbers.  The library's induction theorems cannot be instantiated
here, but the well-foundedness of `<` can be cited for a set: a least counterexample
exists (`LeastElement`).  With it, `BitLengthIs` shows that the recursion has a solution,
`BitLengthBySeven` that 128 takes seven bits, and `EncodedVarintIs` that the formula of
`_varint_bytes()` is the length of the encoding, for every number.  A frame is
monotone in its payload (`FramedGrows`).

*The loop.*  `GroupInv` is not a promise to anyone, so no run lists it; it is what the
properties of the records rest on.  It is inductive as it stands: the open slice's bytes are the
difference of two offsets (`OffsetOK`, `OpenSliceOK`), the closed slices follow each other
up to where the open one starts (`SlicesCover`), and each fits (`SlicesFit`).
`PassKeepsOffset` and `PassKeepsFit` show that a turn of the loop leaves the old offsets,
and so the old slices' sizes, alone.  `ResultInv` adds why a slice was closed: the next
mutation did not fit it, or there was none (`SlicesFull`); and why a call was refused.
`RecordsFit` then follows because the encoded size of a slice is the computed one
(`EncodedBatchIs`).  `FewestRecords`: take any other cut whose records fit.  It has an
end within every greedy slice (`EndInSlice`), for otherwise one of its records would start
no later and end later than a full slice, and be too large.  The slices lie apart, so the
ends are different ones (`SlicesApart`), and there are at least as many.

*The readers.*  The invariant of the contract reader has to speak of the records not yet
published: `ChainInv` says that each record in `records` continues what the reader will
have seen by then, a start at 0 or the position its predecessor leaves.  An
interrupted attempt discards the rest of the chain, and a new one starts at 0.  `CallOK` ties
the slices of a call in progress to the group in the log.  `TakenInv` adds that version
ends are queued and read in version order, and that an end older than the reader's last one
belongs to a group already taken.  `VerifierInv` says that the verifier's sets are those
of the topic and that its flag is set exactly when a mutation or an end occurs twice; the
cardinalities that `verify_workload()` compares then mean that no coordinate is missing.

*One record.*  `DecodedIsGood` says what `deserialize_record()` returns: one version,
consecutive sequence numbers, codes in range.  `RoundTrip` shows that
such a record passes every check of the serializer and reads the same again.

### Several bridges

`FencingInv`: epochs are given once (`EpochsDiffer`), so at most one bridge holds the
transactional id, and the coordinator's open transaction is the batch of that one
(`TxnOfHolder`).  Whatever a bridge takes a position from is readable: the frontier, both files,
and its own position except for the batch it has in hand (`PositionsRead`, `FilesRead`).
The temporary file is part of it, because a rename may publish what another bridge has
written.  The refinement then goes as for one bridge.

### Key ranges

`StrippedEnd` and `StrincIs` say what `strinc` returns: the prefix up to its last byte that is
not the greatest, incremented; `NoSuccessor`, when there is none.  `RangeIsSubspace`
compares a key with both ends at the first byte where it differs from the prefix.

### Only model-checked

Liveness: `EventuallyReleased`, `CommitResolves`, `StopTerminates`, `StopEndsRun`.  The prover
has no rules for `ENABLED`, on which fairness rests.  The five refuted statements are
counterexamples, which need no proof.

## Not modelled

* `start()` racing `stop()`: `start()` takes no lock, and its callers (the demo, the
  tests) do not call them at once.  `run()` and `stop()` racing is `BridgeLifecycle`.
* The bytes inside a mutation's message, a parser error (`MALFORMED_WIRE`), and the
  timestamps of records: copied, never looked at.
* A cursor file of another stream: refused by the same `ValueError` as a corrupt one.
* A failover of idempotent bridges, which nothing fences.
* Backoff lengths, logging, configuration parsing apart from the key range, choosing
  the API version, removing and listing streams, generated code, the rest of the demo
  and the scripts: no state the promise depends on.

What two bridges can do to each other beyond the checked properties: a fenced
predecessor that is past its commit still checkpoints and acknowledges.  Its cursor may
replace a newer one of the successor; the next start then resumes behind what
FoundationDB retains and is answered 1007, which is terminal.  Nothing is lost
(`ReleasedIsRead`, `CursorIsRead`); an operator has to remove the file.

## What is left

* A crash of the machine in `FencedBridges`; `CursorFile` has it for one bridge.
* The safety part of the liveness arguments: that every point of the run loop
  except those of an ended run has an enabled step, as an invariant that can be proved.
