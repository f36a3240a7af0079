-------------------------- MODULE BridgeInvariant --------------------------
(***************************************************************************)
(* The inductive invariant of the bridge: DeliveryInv, where the records   *)
(* of a batch are, is behind AtLeastOnce and CheckpointCovered; LoopInv,   *)
(* in what state the run loop finds the listener, the producer and the     *)
(* cursor, is behind the properties of the recovery; OrderInv, that the    *)
(* topic grows in commit order, is behind the refinement.                  *)
(***************************************************************************)
EXTENDS BridgeProperties

\* Every record of the groups up to v can be read from the topic.
Delivered(v) == UpTo(v) \subseteq topic

\* The points at which no pipeline holds a batch.
NoBatchPoints == {"down", "listener", "reconcile", "producer", "init_txn"}

\* A commit can be outstanding only here; the batch was produced completely.
CommitPoints == {"loop", "step", "commit", "error", "close"}

\* What the database released and what the cursors cover was delivered.
ReleasedDelivered == Delivered(minVersion - 1)
CursorsDelivered == Delivered(cursorFile) /\ Delivered(durableCursor)

\* A listener that may poll stands at a delivered version.
ReaderDelivered == ~awaitingAck /\ ~deliveryFailed => Delivered(position)
ResumedReader == pc = "reconcile" => ~awaitingAck /\ ~deliveryFailed

\* The pipeline checkpoints and acknowledges delivered positions only.
UnackedDelivered ==
  /\ deliveredUnacked => Delivered(position)
  /\ pc \in {"checkpoint", "dirsync", "ack"} => deliveredUnacked

\* Where each flag of the pipeline can be set.
FlagsInPlace ==
  /\ pc \in NoBatchPoints => ~commitOutstanding /\ ~deliveredUnacked
  /\ commitOutstanding => pc \in CommitPoints /\ records = << >> /\ Transactional
  /\ commitOutstanding /\ pc = "error" => exc = "kafka"
  /\ pc = "commit" => commitOutstanding
  /\ pc \in {"begin", "commit"} => Transactional
  /\ pc = "flush" => ~Transactional /\ records = << >>

\* The coordinator's view: an idempotent producer has no transaction, and a
\* completed transaction has nothing left to make visible.
TxnInPlace ==
  /\ ~Transactional => staged = {} /\ txnState = "none"
  /\ txnState = "committed" => staged = {}

\* Before begin_transaction() the polled batch is still in the pipeline's hands.
PolledCovered == pc = "begin" => UpTo(position) \subseteq topic \cup Members(records)

\* From then on every record of the batch is in the topic, in the transaction,
\* in librdkafka's queue or still to be produced, unless a delivery error or
\* the coordinator has already condemned the batch.
BatchCovered ==
  (pc \in {"produce", "flush"} \/ commitOutstanding)
    => \/ deliveryErrors
       \/ txnState = "aborted"
       \/ UpTo(position) \subseteq topic \cup staged \cup Members(queue) \cup Members(records)

DeliveryInv ==
  /\ TypeOK
  /\ ReleasedDelivered
  /\ CursorsDelivered
  /\ ReaderDelivered
  /\ ResumedReader
  /\ UnackedDelivered
  /\ FlagsInPlace
  /\ TxnInPlace
  /\ PolledCovered
  /\ BatchCovered

-----------------------------------------------------------------------------
\* A delivery is in progress: step() finishes it before it polls.
Delivering == commitOutstanding \/ deliveredUnacked

\* The points of step() once it holds a batch.
BatchPoints == {"begin", "produce", "flush", "commit", "abort", "checkpoint", "dirsync", "ack"}

\* The next iteration of run() rebuilds the pipeline, if no commit is outstanding.
RebuildDue == rebuildPending \/ ~pipelineBound

\* An exception that ends run() or makes it rebuild.
Cures(e) == e \in {"terminal", "kafka_fatal", "permanent"} \/ NeedsRebuild(e)

\* A listener that refuses to be polled is on its way to its acknowledgement
\* or to its replacement.
RefusalHandled ==
  /\ pc \in NoBatchPoints => ~awaitingAck
  /\ deliveryFailed => ~Delivering /\ pc \in {"error", "loop", "halted", "close"}
  /\ pc = "loop" /\ deliveryFailed => RebuildDue
  /\ awaitingAck =>
       /\ pc = "step" => Delivering
       /\ pc = "loop" => Delivering \/ RebuildDue
       /\ pc = "error" => Delivering \/ Cures(exc)
  /\ pc = "abort" => exc \in {"kafka", "buffer"}

\* The handles a step works with, or a commit in doubt depends on, are open;
\* the loop replaces the others first.
HandlesOpen ==
  /\ pc \in BatchPoints \cup {"init_txn", "step"} => producer = "open"
  /\ pc \in BatchPoints \cup {"reconcile", "producer", "init_txn", "step"} => listener = "open"
  /\ commitOutstanding => producer = "open" /\ listener = "open"
  /\ pc = "loop" => (producer = "open" /\ listener = "open") \/ RebuildDue

\* A batch counts as checkpointed only when a machine crash leaves its cursor.
CursorDurable ==
  /\ checkpointed => deliveredUnacked
  /\ pc = "dirsync" => cursorFile = position
  /\ (pc = "ack" \/ checkpointed) /\ UseCursorFile /\ DirFsyncSupported => durableCursor = position

\* What is released is covered by the cursor file, and what the listener asks
\* for next is retained, unless a crash took the cursor file back.
CursorKept ==
  /\ ~UseCursorFile => cursorFile = 0
  /\ pc = "reconcile" => position = cursorFile
  /\ (pc = "ack" \/ checkpointed) /\ UseCursorFile => cursorFile = position
  /\ listener = "open" => \/ position + 1 >= minVersion
                          \/ UseCursorFile /\ cursorFile + 1 < minVersion

LoopInv == RefusalHandled /\ HandlesOpen /\ CursorDurable /\ CursorKept

-----------------------------------------------------------------------------
\* With every record of S the ones before it are in S.
InOrder(S) == \A r \in S : r > 0 => 1..r \subseteq S

\* The records of q can be added to S one after the other.
Follows(S, q) == \A n \in 0..Len(q) : InOrder(S \cup {q[i] : i \in 1..n})

\* S holds the records of whole versions, the first ones.
Whole(S) == \E v \in 0..committed : {r \in S : r > 0} = UpTo(v)

Within(S, v) == \A r \in S : r <= EndOf[v]

\* Nothing is ahead of the database, and a crash takes the cursor back.
VersionsInOrder ==
  /\ position <= committed
  /\ minVersion <= committed + 1
  /\ durableCursor <= cursorFile /\ cursorFile <= committed
  /\ listener = "open" => cursorFile <= position

\* Nothing of an earlier batch is left in flight when the next one starts.
Quiet == queue = << >> /\ staged = {} /\ txnState = "none"

QuietBetween ==
  /\ pc \in {"down", "listener", "reconcile", "producer"} => producer = "none"
  /\ pc = "init_txn" => queue = << >>
  /\ pc \in {"begin", "checkpoint", "dirsync", "ack"} => Quiet
  /\ ~commitOutstanding => /\ pc = "step" => Quiet
                           /\ pc = "loop" => Quiet \/ RebuildDue
                           /\ pc = "error" => Quiet \/ Cures(exc)

\* What an idempotent producer still has to deliver continues the topic.
PlainOrder ==
  ~Transactional =>
    /\ InOrder(topic)
    /\ IF deliveryErrors THEN queue = << >> ELSE Follows(topic, queue)
    /\ pc = "produce" /\ ~deliveryErrors => Follows(topic \cup Members(queue), records)
    /\ pc = "produce" => Within(Members(records), committed)
    /\ Within(topic \cup Members(queue), committed)

\* A transaction the coordinator commits completes the batch of one position.
TxnOrder ==
  Transactional =>
    /\ Whole(topic)
    /\ txnState = "prepared" => Whole(topic \cup staged)
    /\ pc \in {"begin", "produce"} \/ commitOutstanding
         => Within(staged \cup Members(queue) \cup Members(records), position)

\* Nothing beyond what was polled up to v: neither a record nor a watermark.
Polled(S, v) == \A r \in S : r <= EndOf[v] /\ -r <= v

\* What is still to be produced was not sent by this producer.
SentOnce ==
  /\ producer = "none" => sent = {}
  /\ Polled(sent, position)
  /\ pc \in {"begin", "produce"} =>
       /\ Polled(Members(records), position)
       /\ \A i \in DOMAIN records :
            /\ records[i] \notin sent
            /\ \A j \in DOMAIN records : records[i] = records[j] => i = j

OrderInv == VersionsInOrder /\ QuietBetween /\ PlainOrder /\ TxnOrder /\ SentOnce

IInv == DeliveryInv /\ LoopInv /\ OrderInv
=============================================================================
