---------------------------- MODULE BridgeProofs ----------------------------
(***************************************************************************)
(* Proofs, for every stream, every number of retries and every number of   *)
(* failures, that the bridge has its types, that it loses nothing          *)
(* (AtLeastOnce) and that its cursors skip nothing (CheckpointCovered).    *)
(* The last two rest on the invariant DeliveryInv of BridgeInvariant.      *)
(***************************************************************************)
EXTENDS BridgeInvariant, TLAPS

-----------------------------------------------------------------------------
(***************************************************************************)
(* Sequences of records, and the data of a reply.                          *)
(***************************************************************************)
\* What the pipeline's and librdkafka's queues hold after each of their steps.
LEMMA MembersOfSeq ==
  ASSUME NEW S, NEW q \in Seq(S)
  PROVE  /\ Members(q) \subseteq S
         /\ Members(<< >>) = {}
         /\ \A r \in S : Append(q, r) \in Seq(S) /\ Members(Append(q, r)) = Members(q) \cup {r}
         /\ q # << >> => /\ Head(q) \in S
                         /\ Tail(q) \in Seq(S)
                         /\ Members(q) = {Head(q)} \cup Members(Tail(q))
  <1>1. Members(q) \subseteq S
    BY DEF Members
  <1>2. Members(<< >>) = {}
    BY DEF Members
  <1>3. ASSUME NEW r \in S
        PROVE  Append(q, r) \in Seq(S) /\ Members(Append(q, r)) = Members(q) \cup {r}
    <2>1. /\ Append(q, r) \in Seq(S)
          /\ DOMAIN Append(q, r) = 1..(Len(q) + 1)
          /\ DOMAIN q = 1..Len(q) /\ Len(q) \in Nat
          /\ \A i \in 1..Len(q) : Append(q, r)[i] = q[i]
          /\ Append(q, r)[Len(q) + 1] = r
      OBVIOUS
    <2>2. Members(Append(q, r)) \subseteq Members(q) \cup {r}
      BY <2>1 DEF Members
    <2>3. \A i \in DOMAIN q : q[i] \in Members(Append(q, r))
      BY <2>1 DEF Members
    <2>4. r \in Members(Append(q, r))
      BY <2>1 DEF Members
    <2>. QED BY <2>1, <2>2, <2>3, <2>4 DEF Members
  <1>4. ASSUME q # << >>
        PROVE  /\ Head(q) \in S
               /\ Tail(q) \in Seq(S)
               /\ Members(q) = {Head(q)} \cup Members(Tail(q))
    <2>1. /\ Head(q) = q[1] /\ Head(q) \in S
          /\ Tail(q) \in Seq(S)
          /\ DOMAIN q = 1..Len(q) /\ Len(q) \in Nat /\ Len(q) >= 1
          /\ DOMAIN Tail(q) = 1..(Len(q) - 1)
          /\ \A i \in 1..(Len(q) - 1) : Tail(q)[i] = q[i + 1]
      BY <1>4
    <2>2. \A i \in DOMAIN q : q[i] \in {Head(q)} \cup Members(Tail(q))
      <3> TAKE i \in DOMAIN q
      <3>1. CASE i = 1
        BY <3>1, <2>1
      <3>2. CASE i # 1
        <4>1. i - 1 \in DOMAIN Tail(q) /\ Tail(q)[i - 1] = q[i]
          BY <3>2, <2>1
        <4>. QED BY <4>1 DEF Members
      <3>. QED BY <3>1, <3>2
    <2>3. \A i \in DOMAIN Tail(q) : Tail(q)[i] \in Members(q)
      <3> TAKE i \in DOMAIN Tail(q)
      <3>1. i + 1 \in DOMAIN q /\ Tail(q)[i] = q[i + 1]
        BY <2>1
      <3>. QED BY <3>1 DEF Members
    <2>4. Head(q) \in Members(q)
      BY <2>1 DEF Members
    <2>. QED BY <2>1, <2>2, <2>3, <2>4 DEF Members
  <1>. QED BY <1>1, <1>2, <1>3, <1>4

\* A reply is a sequence of records, and the records of the groups it carries
\* are among them: nothing between the position and the watermark is left out.
LEMMA ReplyCovers ==
  ASSUME NEW lo \in 0..MaxVersion, NEW hi \in 1..MaxVersion, lo <= hi
  PROVE  /\ Reply(lo, hi) \in Seq(Record)
         /\ UpTo(hi) \subseteq UpTo(lo) \cup Members(Reply(lo, hi))
  <1> DEFINE groups == EndOf[hi] - EndOf[lo]
             n == groups + (IF Idle(hi) THEN 1 ELSE 0)
             f == [i \in 1..n |-> IF i <= groups THEN EndOf[lo] + i ELSE -hi]
  <1>1. /\ EndOf[lo] \in Nat /\ EndOf[hi] \in Nat /\ EndOf[MaxVersion] \in Nat
        /\ EndOf[lo] <= EndOf[hi] /\ EndOf[hi] <= EndOf[MaxVersion]
        /\ MaxVersion \in Nat
    BY StreamAssumption
  <1>2. Reply(lo, hi) = f
    BY DEF Reply
  <1>3. groups \in Nat /\ n \in Nat /\ groups <= n
    BY <1>1
  <1>4. \A i \in 1..n : f[i] \in Record
    BY <1>1, <1>3 DEF Record, Version
  <1>5. f \in [1..n -> Record]
    BY <1>4
  <1>6. f \in Seq(Record)
    BY <1>3, <1>5
  <1>7. ASSUME NEW r \in UpTo(hi), r \notin UpTo(lo)
        PROVE  r \in Members(f)
    <2>1. r \in Nat /\ EndOf[lo] < r /\ r <= EndOf[hi]
      BY <1>1, <1>7 DEF UpTo
    <2>2. r - EndOf[lo] \in 1..groups /\ r - EndOf[lo] \in DOMAIN f
      BY <1>1, <1>3, <2>1
    <2>3. f[r - EndOf[lo]] = r
      BY <1>1, <2>1, <2>2
    <2>. QED BY <2>2, <2>3 DEF Members
  <1>. QED BY <1>2, <1>6, <1>7

\* Before the first version there is nothing to deliver.
LEMMA NothingUpToZero == UpTo(0) = {}
  BY StreamAssumption DEF UpTo
-----------------------------------------------------------------------------
(***************************************************************************)
(* Type correctness, one part of the state after the other.                *)
(***************************************************************************)
\* What can happen to the producer and the broker in one step of the bridge.
ProducerStep ==
  \/ UNCHANGED producerVars
  \/ BrokerAppend \/ BrokerFail \/ BrokerCompleteCommit \/ BrokerTimeoutAbort \/ ErrorCb
  \/ NewProducer \/ InitializeTxn
  \/ pc = "begin" /\ BeginTxn
  \/ \E r \in Record : Accept(r)
  \/ CommitTxn \/ CommitUnanswered \/ AbortTxn \/ SetFatal
  \/ CloseProducer \/ DropProducer \/ ProducerDies

\* What can happen to the stream and the listener in one step of the bridge.
ListenerStep ==
  \/ UNCHANGED <<fdbVars, listenerVars>>
  \/ CommitVersion
  \/ UNCHANGED fdbVars /\ (CreateConsumer \/ OpenAt(cursorFile) \/ NoListener)
  \/ pc = "reconcile" /\ UNCHANGED <<committed, listenerVars>> /\ Release
  \/ pc = "reconcile" /\ committed' = committed /\ Release /\ NoListener
  \/ UNCHANGED fdbVars /\ (\E hi \in NextWatermarks : Deliver(hi) \/ FailDelivery(hi))
  \/ UNCHANGED <<fdbVars, awaitingAck, deliveryFailed, position>> /\ listener' = "closed"
  \/ pc = "ack" /\ (Acknowledged \/ AcknowledgeLost)

\* What can happen to the cursor file in one step of the bridge.
CursorStep ==
  \/ UNCHANGED cursorVars
  \/ pc = "checkpoint" /\ ReplaceCursor(position)
  \/ SyncDirectory \/ CrashDisk

\* The flags are proved apart: Zenon knows that TRUE and FALSE are Booleans.
ProducerFlagsOK ==
  /\ fatal \in BOOLEAN /\ deliveryErrors \in BOOLEAN
  /\ txnInitialized \in BOOLEAN /\ txnOpen \in BOOLEAN

ProducerDataOK ==
  /\ producer \in {"none", "open", "closed"}
  /\ sent \in SUBSET Record
  /\ queue \in Seq(Record)
  /\ topic \in SUBSET Record
  /\ staged \in SUBSET Record
  /\ txnState \in {"none", "open", "prepared", "committed", "aborted"}

\* Records that arrive, one or a prefix of the queue, are records.
LEMMA ArriveType ==
  ASSUME ProducerDataOK, NEW recs \in SUBSET Record, Arrive(recs)
  PROVE  topic' \in SUBSET Record /\ staged' \in SUBSET Record /\ txnState' = txnState
  BY DEF ProducerDataOK, Arrive

\* What a closed or dead client had in flight arrives as records, or not at all.
LEMMA LoseQueueType ==
  ASSUME ProducerDataOK, LoseQueue
  PROVE  topic' \in SUBSET Record /\ staged' \in SUBSET Record /\ txnState' = txnState
  <1>1. PICK n \in 0..Len(queue) : Arrive({queue[i] : i \in 1..n})
    BY DEF LoseQueue
  <1>2. {queue[i] : i \in 1..n} \in SUBSET Record
    BY DEF ProducerDataOK
  <1>. QED BY <1>1, <1>2, ArriveType

\* The producer's state is its flags and its records.
LEMMA ProducerParts == ProducerTypeOK <=> ProducerFlagsOK /\ ProducerDataOK
  BY Zenon DEF ProducerTypeOK, ProducerFlagsOK, ProducerDataOK

\* No step of the producer or the broker takes a flag out of its range.
LEMMA ProducerFlagsType ==
  ASSUME ProducerFlagsOK, ProducerStep
  PROVE  ProducerFlagsOK'
  <1>. USE DEF ProducerFlagsOK
  <1>1. CASE \/ UNCHANGED producerVars
             \/ BrokerAppend \/ BrokerCompleteCommit \/ BrokerTimeoutAbort
             \/ InitializeTxn \/ CommitUnanswered
             \/ \E r \in Record : Accept(r)
    <2>1. UNCHANGED <<fatal, deliveryErrors, txnOpen>>
      BY <1>1, Zenon DEF BrokerAppend, BrokerCompleteCommit, BrokerTimeoutAbort, InitializeTxn,
         CommitUnanswered, Accept, producerVars, clientVars
    <2>2. txnInitialized' = txnInitialized \/ txnInitialized' = TRUE
      BY <1>1, Zenon DEF BrokerAppend, BrokerCompleteCommit, BrokerTimeoutAbort, InitializeTxn,
         CommitUnanswered, Accept, producerVars, clientVars
    <2>. QED BY <2>1, <2>2, Zenon
  <1>2. CASE BrokerFail \/ ErrorCb \/ SetFatal
    BY <1>2, Zenon DEF BrokerFail, ErrorCb, SetFatal
  <1>3. CASE NewProducer
    BY <1>3, Zenon DEF NewProducer
  <1>4. CASE BeginTxn \/ CommitTxn \/ AbortTxn
    BY <1>4, Zenon DEF BeginTxn, CommitTxn, AbortTxn
  <1>5. CASE CloseProducer \/ DropProducer \/ ProducerDies
    BY <1>5, Zenon DEF CloseProducer, DropProducer, ProducerDies, ClientGone
  <1>. QED BY <1>1, <1>2, <1>3, <1>4, <1>5, Zenon DEF ProducerStep

\* Nor does one put anything but records into the queue or the topic.
LEMMA ProducerDataType ==
  ASSUME ProducerDataOK, ProducerStep
  PROVE  ProducerDataOK'
  <1>0. << >> \in Seq(Record)
    OBVIOUS
  <1>1. CASE UNCHANGED producerVars \/ ErrorCb \/ SetFatal
    BY <1>1 DEF ProducerDataOK, producerVars, clientVars, brokerVars, ErrorCb, SetFatal
  <1>2. CASE BrokerAppend \/ BrokerFail
    <2>1. Head(queue) \in Record /\ Tail(queue) \in Seq(Record)
      BY <1>2, MembersOfSeq DEF BrokerAppend, BrokerFail, ProducerDataOK
    <2>2. topic' \in SUBSET Record /\ staged' \in SUBSET Record /\ txnState' = txnState
      BY <1>2, <2>1, ArriveType DEF BrokerAppend, BrokerFail, ProducerDataOK, brokerVars
    <2>3. producer' = producer /\ sent' = sent /\ queue' \in {<< >>, Tail(queue)}
      BY <1>2 DEF BrokerAppend, BrokerFail
    <2>. QED BY <1>0, <2>1, <2>2, <2>3 DEF ProducerDataOK
  <1>3. CASE BrokerCompleteCommit \/ BrokerTimeoutAbort \/ CommitUnanswered
    BY <1>3 DEF BrokerCompleteCommit, CompleteCommit, BrokerTimeoutAbort, CommitUnanswered,
                ProducerDataOK, clientVars
  <1>4. CASE NewProducer
    BY <1>4 DEF NewProducer, ProducerDataOK, brokerVars
  <1>5. CASE InitializeTxn \/ CommitTxn
    BY <1>5 DEF InitializeTxn, CommitTxn, CompleteCommit, ProducerDataOK
  <1>6. CASE BeginTxn
    BY <1>6 DEF BeginTxn, ProducerDataOK
  <1>9. CASE AbortTxn
    BY <1>0, <1>9 DEF AbortTxn, ProducerDataOK
  <1>7. ASSUME NEW r \in Record, Accept(r)
        PROVE  ProducerDataOK'
    <2>1. Append(queue, r) \in Seq(Record)
      BY MembersOfSeq DEF ProducerDataOK
    <2>. QED BY <1>7, <2>1 DEF Accept, ProducerDataOK, brokerVars
  <1>8. CASE CloseProducer \/ DropProducer \/ ProducerDies
    <2>1. /\ topic' \in SUBSET Record /\ staged' \in SUBSET Record
          /\ txnState' \in {"none", "open", "prepared", "committed", "aborted"}
      <3>1. CASE LoseQueue
        BY <3>1, LoseQueueType DEF ProducerDataOK
      <3>2. CASE ~LoseQueue
        BY <1>8, <3>2 DEF CloseProducer, DropProducer, ProducerDies, CloseEffect,
                          ProducerDataOK, brokerVars
      <3>. QED BY <3>1, <3>2
    <2>2. producer' \in {"none", "closed"} /\ sent' = {} /\ queue' = << >>
      BY <1>8 DEF CloseProducer, DropProducer, ProducerDies, ClientGone
    <2>. QED BY <2>1, <2>2 DEF ProducerDataOK
  <1>. QED BY <1>1, <1>2, <1>3, <1>4, <1>5, <1>6, <1>7, <1>8, <1>9 DEF ProducerStep

\* Whatever happens to the producer and the broker keeps their types.
LEMMA ProducerStepType ==
  ASSUME ProducerTypeOK, ProducerStep
  PROVE  ProducerTypeOK'
  <1>1. ProducerFlagsOK' /\ ProducerDataOK'
    BY ProducerParts, ProducerFlagsType, ProducerDataType, Zenon
  <1>. QED BY <1>1, Zenon DEF ProducerTypeOK, ProducerFlagsOK, ProducerDataOK

\* Whatever happens to the stream and the listener keeps their types.
LEMMA ListenerStepType ==
  ASSUME ListenerTypeOK, CursorTypeOK, ListenerStep
  PROVE  ListenerTypeOK'
  <1>1. awaitingAck' \in BOOLEAN
    <2>1. awaitingAck' = awaitingAck \/ awaitingAck' = TRUE \/ awaitingAck' = FALSE
      BY Zenon DEF ListenerStep, fdbVars, listenerVars, CommitVersion, CreateConsumer, OpenAt,
         NoListener, Deliver, FailDelivery, Acknowledged, AcknowledgeLost
    <2>. QED BY <2>1, Zenon DEF ListenerTypeOK
  <1>2. deliveryFailed' \in BOOLEAN
    <2>1. deliveryFailed' = deliveryFailed \/ deliveryFailed' = TRUE \/ deliveryFailed' = FALSE
      BY Zenon DEF ListenerStep, fdbVars, listenerVars, CommitVersion, CreateConsumer, OpenAt,
         NoListener, Deliver, FailDelivery, Acknowledged, AcknowledgeLost
    <2>. QED BY <2>1, Zenon DEF ListenerTypeOK
  <1>3. /\ committed' \in 0..MaxVersion
        /\ minVersion' \in 1..(MaxVersion + 1)
        /\ listener' \in {"none", "open", "closed"}
        /\ position' \in 0..MaxVersion
    <2>. USE StreamAssumption DEF ListenerTypeOK
    <2>1. CASE UNCHANGED <<fdbVars, listenerVars>> \/ CommitVersion
      BY <2>1 DEF CommitVersion, fdbVars, listenerVars
    <2>2. CASE UNCHANGED fdbVars /\ (CreateConsumer \/ OpenAt(cursorFile) \/ NoListener)
      BY <2>2 DEF CreateConsumer, OpenAt, NoListener, fdbVars, CursorTypeOK
    <2>3. CASE UNCHANGED <<committed, listenerVars>> /\ Release
      BY <2>3 DEF Release, listenerVars
    <2>4. CASE committed' = committed /\ Release /\ NoListener
      BY <2>4 DEF Release, NoListener
    <2>5. CASE UNCHANGED fdbVars /\ (\E hi \in NextWatermarks : Deliver(hi) \/ FailDelivery(hi))
      BY <2>5 DEF NextWatermarks, Deliver, FailDelivery, fdbVars
    <2>6. CASE UNCHANGED <<fdbVars, awaitingAck, deliveryFailed, position>> /\ listener' = "closed"
      BY <2>6 DEF fdbVars
    <2>7. CASE Acknowledged
      BY <2>7 DEF Acknowledged, Release
    <2>8. CASE AcknowledgeLost
      BY <2>8 DEF AcknowledgeLost, Release, listenerVars
    <2>. QED BY <2>1, <2>2, <2>3, <2>4, <2>5, <2>6, <2>7, <2>8 DEF ListenerStep
  <1>. QED BY <1>1, <1>2, <1>3, Zenon DEF ListenerTypeOK

\* Checkpoints, syncs and crashes leave a version in the cursor file.
LEMMA CursorStepType ==
  ASSUME ListenerTypeOK, CursorTypeOK, CursorStep
  PROVE  CursorTypeOK'
  BY DEF ListenerTypeOK, CursorTypeOK, CursorStep, cursorVars, ReplaceCursor, SyncDirectory, CrashDisk
-----------------------------------------------------------------------------
(***************************************************************************)
(* Type correctness of the bridge.                                         *)
(***************************************************************************)
\* Starting, building, and the run loop's own actions.
LEMMA RunningParts ==
  ASSUME Start \/ Building \/ Looping
  PROVE  ProducerStep /\ ListenerStep /\ CursorStep
  <1>. USE DEF ProducerStep, ListenerStep, CursorStep
  <1>1. CASE Start
    BY <1>1, Zenon DEF Start
  <1>2. CASE BuildListener
    BY <1>2, Zenon DEF BuildListener
  <1>3. CASE Reconcile
    BY <1>3, Zenon DEF Reconcile
  <1>4. CASE BuildProducer
    BY <1>4, Zenon DEF BuildProducer
  <1>5. CASE InitTransactions
    BY <1>5, Zenon DEF InitTransactions
  <1>6. CASE BuildFails
    <2>1. CASE pc = "reconcile"
      BY <1>6, <2>1, Zenon DEF BuildFails, fdbVars
    <2>2. CASE pc # "reconcile"
      BY <1>6, <2>2, Zenon DEF BuildFails, fdbVars
    <2>. QED BY <2>1, <2>2
  <1>7. CASE RunStep \/ RunRebuildSkipped \/ HandleError
    BY <1>7, Zenon DEF RunStep, RunRebuildSkipped, HandleError
  <1>8. CASE RunRebuild
    BY <1>8, Zenon DEF RunRebuild
  <1>. QED BY <1>1, <1>2, <1>3, <1>4, <1>5, <1>6, <1>7, <1>8, Zenon DEF Building, Looping

\* Polling and producing.
LEMMA SteppingParts ==
  ASSUME records \in Seq(Record), Stepping \/ Producing
  PROVE  ProducerStep /\ ListenerStep /\ CursorStep
  <1>. USE DEF ProducerStep, ListenerStep, CursorStep
  <1>1. CASE StepFinishDelivery \/ PollEmpty \/ PollFails
    BY <1>1, Zenon DEF StepFinishDelivery, PollEmpty, PollFails
  <1>2. CASE PollReply \/ PollUnserializable
    BY <1>2, Zenon DEF PollReply, PollUnserializable
  <1>3. CASE Begin
    BY <1>3, Zenon DEF Begin
  <1>4. CASE BeginFails
    BY <1>4, Zenon DEF BeginFails
  <1>5. CASE Produce
    <2>1. Head(records) \in Record
      BY <1>5, MembersOfSeq DEF Produce
    <2>. QED BY <1>5, <2>1, Zenon DEF Produce
  <1>6. CASE ProduceFails
    BY <1>6, Zenon DEF ProduceFails
  <1>7. CASE ProduceDone
    BY <1>7, Zenon DEF ProduceDone
  <1>8. CASE Flush \/ FlushFails
    BY <1>8, Zenon DEF Flush, FlushFails
  <1>. QED BY <1>1, <1>2, <1>3, <1>4, <1>5, <1>6, <1>7, <1>8, Zenon DEF Stepping, Producing

\* Committing, checkpointing and acknowledging.
LEMMA CommittingParts ==
  ASSUME Committing \/ Acknowledging
  PROVE  ProducerStep /\ ListenerStep /\ CursorStep
  <1>. USE DEF ProducerStep, ListenerStep, CursorStep
  <1>1. CASE Commit \/ CommitRetriable
    BY <1>1, Zenon DEF Commit, CommitRetriable
  <1>2. CASE CommitAbortable \/ CommitFatal \/ CommitRefused
    BY <1>2, Zenon DEF CommitAbortable, CommitFatal, CommitRefused
  <1>3. CASE Abort \/ AbortFails
    BY <1>3, Zenon DEF Abort, AbortFails
  <1>4. CASE Checkpoint
    BY <1>4, Zenon DEF Checkpoint
  <1>5. CASE CheckpointFails \/ DirSync \/ DirSyncFails
    BY <1>5, Zenon DEF CheckpointFails, DirSync, DirSyncFails
  <1>6. CASE Ack \/ AckFails
    BY <1>6, Zenon DEF Ack, AckFails
  <1>. QED BY <1>1, <1>2, <1>3, <1>4, <1>5, <1>6, Zenon DEF Committing, Acknowledging

\* Stopping, crashing, and the environment.
LEMMA EndingParts ==
  ASSUME \/ StopClose \/ Stop \/ StopParked \/ ProcessCrash \/ MachineCrash
         \/ Workload \/ BrokerAppends \/ BrokerCommits \/ BrokerFaults \/ UNCHANGED vars
  PROVE  ProducerStep /\ ListenerStep /\ CursorStep
  <1>. USE DEF ProducerStep, ListenerStep, CursorStep
  <1>1. CASE StopClose \/ Stop
    BY <1>1, Zenon DEF StopClose, Stop, Gone, fdbVars
  <1>2. CASE StopParked
    BY <1>2, Zenon DEF StopParked, fdbVars
  <1>3. CASE ProcessCrash \/ MachineCrash
    BY <1>3, Zenon DEF ProcessCrash, MachineCrash, Gone, fdbVars
  <1>4. CASE Workload
    BY <1>4, Zenon DEF Workload
  <1>5. CASE BrokerAppends \/ BrokerCommits
    BY <1>5, Zenon DEF BrokerAppends, BrokerCommits, others, listenerVars, fdbVars
  <1>6. CASE BrokerFaults
    BY <1>6, Zenon DEF BrokerFaults, others, listenerVars, fdbVars
  <1>7. CASE UNCHANGED vars
    BY <1>7 DEF vars, producerVars, fdbVars, listenerVars, cursorVars, clientVars, brokerVars
  <1>. QED BY <1>1, <1>2, <1>3, <1>4, <1>5, <1>6, <1>7, Zenon

\* No step of the bridge treats a component in any other way.
LEMMA PartSteps ==
  ASSUME records \in Seq(Record), [Next]_vars
  PROVE  ProducerStep /\ ListenerStep /\ CursorStep
  <1>1. CASE Start \/ Building \/ Looping
    BY <1>1, RunningParts
  <1>2. CASE Stepping \/ Producing
    BY <1>2, SteppingParts
  <1>3. CASE Committing \/ Acknowledging
    BY <1>3, CommittingParts
  <1>4. CASE \/ StopClose \/ Stop \/ StopParked \/ ProcessCrash \/ MachineCrash
             \/ Workload \/ BrokerAppends \/ BrokerCommits \/ BrokerFaults \/ UNCHANGED vars
    BY <1>4, EndingParts
  <1>. QED BY <1>1, <1>2, <1>3, <1>4, Zenon DEF Next, Thread

\* The flags of the pipeline and of the run loop.
LoopFlagsOK ==
  /\ commitOutstanding \in BOOLEAN /\ deliveredUnacked \in BOOLEAN /\ checkpointed \in BOOLEAN
  /\ pipelineBound \in BOOLEAN /\ rebuildPending \in BOOLEAN

\* Where the thread is, and what it holds there.
ControlOK ==
  /\ attempt \in Nat
  /\ records \in Seq(Record)
  /\ caller \in {"start", "run", "stop"}
  /\ pc \in Points
  /\ exc \in Exceptions
  /\ faults \in Nat

\* Every step of the bridge keeps the flags of the pipeline and the run loop well typed.
LEMMA LoopFlagsType ==
  ASSUME LoopFlagsOK, [Next]_vars
  PROVE  LoopFlagsOK'
  <1>. USE ProducerAssumption DEF LoopFlagsOK, loopVars, pipelineVars
  <1>1. CASE \/ Start \/ BuildListener \/ Reconcile \/ BuildFails
             \/ RunStep \/ RunRebuildSkipped \/ Stepping
             \/ Begin \/ BeginFails \/ Produce \/ ProduceFails \/ FlushFails
             \/ CommitRetriable \/ Abort \/ AbortFails \/ CheckpointFails \/ DirSyncFails \/ AckFails
             \/ Stop \/ StopParked \/ Workload
    BY <1>1, Zenon DEF Start, BuildListener, Reconcile, BuildFails, RunStep, RunRebuildSkipped,
       Stepping, StepFinishDelivery, PollEmpty, PollReply, PollUnserializable, PollFails,
       Begin, BeginFails, Produce, ProduceFails, FlushFails, CommitRetriable, Abort, AbortFails,
       CheckpointFails, DirSyncFails, AckFails, Stop, StopParked, Workload
  <1>2. CASE BuildProducer
    BY <1>2, Zenon DEF BuildProducer, Bind
  <1>3. CASE InitTransactions
    BY <1>3, Zenon DEF InitTransactions, Bind
  <1>4. CASE RunRebuild
    BY <1>4, Zenon DEF RunRebuild, PipelineReset
  <1>5. CASE HandleError
    <2>1. (rebuildPending \/ NeedsRebuild(exc)) \in BOOLEAN
      OBVIOUS
    <2>. QED BY <1>5, <2>1, Zenon DEF HandleError
  <1>6. CASE ProduceDone
    BY <1>6, Zenon DEF ProduceDone
  <1>7. CASE Flush \/ Commit \/ CommitAbortable \/ CommitFatal \/ CommitRefused
    BY <1>7, Zenon DEF Flush, Commit, CommitAbortable, CommitFatal, CommitRefused
  <1>8. CASE Checkpoint \/ DirSync \/ Ack
    BY <1>8, Zenon DEF Checkpoint, DirSync, Ack
  <1>9. CASE StopClose \/ ProcessCrash \/ MachineCrash
    BY <1>9, Zenon DEF StopClose, ProcessCrash, MachineCrash, Gone, PipelineReset
  <1>10. CASE BrokerAppends \/ BrokerCommits \/ BrokerFaults
    BY <1>10, Zenon DEF BrokerAppends, BrokerCommits, BrokerFaults, others
  <1>11. CASE UNCHANGED vars
    BY <1>11, Zenon DEF vars
  <1>. QED BY <1>1, <1>2, <1>3, <1>4, <1>5, <1>6, <1>7, <1>8, <1>9, <1>10, <1>11, Zenon
           DEF Next, Thread, Building, Looping, Producing, Committing, Acknowledging

\* Every step of the bridge leads to a point of the code, with a list of records.
LEMMA ControlType ==
  ASSUME ListenerTypeOK, ControlOK, [Next]_vars
  PROVE  ControlOK'
  <1>. USE BridgeAssumption, MembersOfSeq
       DEF ControlOK, Points, Exceptions, loopVars, pipelineVars, Fault, Pays, Goto, Raise
  <1>0. << >> \in Seq(Record)
    OBVIOUS
  <1>1. CASE Start
    BY <1>1 DEF Start
  <1>2. CASE BuildListener \/ Reconcile
    BY <1>2 DEF BuildListener, Reconcile
  <1>3. CASE BuildProducer \/ InitTransactions
    BY <1>3 DEF BuildProducer, InitTransactions, Bind
  <1>4. CASE BuildFails
    BY <1>4 DEF BuildFails, BuildErrors
  <1>5. CASE RunStep \/ RunRebuildSkipped
    BY <1>5 DEF RunStep, RunRebuildSkipped
  <1>6. CASE RunRebuild
    BY <1>6 DEF RunRebuild, PipelineReset
  <1>7. CASE HandleError
    BY <1>7 DEF HandleError
  <1>8. CASE StepFinishDelivery \/ PollEmpty \/ PollUnserializable \/ PollFails
    BY <1>8 DEF StepFinishDelivery, PollEmpty, PollUnserializable, PollFails
  <1>9. CASE PollReply
    <2>1. PICK hi \in NextWatermarks : records' = Reply(position, hi)
      BY <1>9 DEF PollReply
    <2>2. position \in 0..MaxVersion /\ hi \in 1..MaxVersion /\ position <= hi
      BY StreamAssumption DEF NextWatermarks, ListenerTypeOK
    <2>3. records' \in Seq(Record)
      BY <2>1, <2>2, ReplyCovers
    <2>. QED BY <1>9, <2>3 DEF PollReply
  <1>10. CASE Begin
    BY <1>10 DEF Begin
  <1>23. CASE BeginFails
    BY <1>0, <1>23 DEF BeginFails
  <1>11. CASE Produce
    BY <1>11 DEF Produce
  <1>12. CASE ProduceFails
    BY <1>12 DEF ProduceFails, ProduceErrors
  <1>13. CASE ProduceDone \/ Flush \/ FlushFails
    BY <1>13 DEF ProduceDone, Flush, FlushFails
  <1>14. CASE Commit \/ CommitRetriable
    BY <1>14 DEF Commit, CommitRetriable
  <1>15. CASE CommitAbortable \/ CommitFatal \/ CommitRefused
    BY <1>15 DEF CommitAbortable, CommitFatal, CommitRefused
  <1>16. CASE Abort \/ AbortFails
    BY <1>16 DEF Abort, AbortFails
  <1>17. CASE Checkpoint \/ CheckpointFails \/ DirSync \/ DirSyncFails
    BY <1>17 DEF Checkpoint, CheckpointFails, CheckpointErrors, DirSync, DirSyncFails
  <1>18. CASE Ack \/ AckFails
    BY <1>18 DEF Ack, AckFails, StepReturns
  <1>19. CASE Stop \/ StopParked
    BY <1>19 DEF Stop, StopParked
  <1>20. CASE StopClose \/ ProcessCrash \/ MachineCrash
    <2>1. /\ attempt' = 0 /\ records' = << >> /\ caller' = "start" /\ pc' = "down" /\ exc' = "none"
          /\ faults' \in {faults, faults + 1}
      BY <1>20 DEF StopClose, ProcessCrash, MachineCrash, Gone, PipelineReset
    <2>. QED BY <1>0, <2>1
  <1>21. CASE Workload \/ BrokerAppends \/ BrokerCommits \/ BrokerFaults
    BY <1>21 DEF Workload, BrokerAppends, BrokerCommits, BrokerFaults, others
  <1>22. CASE UNCHANGED vars
    BY <1>22 DEF vars
  <1>. QED BY <1>1, <1>2, <1>3, <1>4, <1>5, <1>6, <1>7, <1>8, <1>9, <1>10, <1>11, <1>12, <1>13,
              <1>14, <1>15, <1>16, <1>17, <1>18, <1>19, <1>20, <1>21, <1>22, <1>23, Zenon
           DEF Next, Thread, Building, Looping, Stepping, Producing, Committing, Acknowledging

\* Every step of the bridge keeps the whole state well typed.
LEMMA TypeStep ==
  ASSUME TypeOK, [Next]_vars
  PROVE  TypeOK'
  <1>1. /\ ListenerTypeOK /\ ProducerTypeOK /\ CursorTypeOK /\ LoopFlagsOK /\ ControlOK
        /\ records \in Seq(Record)
    BY Zenon DEF TypeOK, LoopFlagsOK, ControlOK
  <1>2. ProducerStep /\ ListenerStep /\ CursorStep
    BY <1>1, PartSteps, Zenon
  <1>3. ListenerTypeOK' /\ ProducerTypeOK' /\ CursorTypeOK'
    BY <1>1, <1>2, ListenerStepType, ProducerStepType, CursorStepType, Zenon
  <1>4. LoopFlagsOK' /\ ControlOK'
    BY <1>1, LoopFlagsType, ControlType, Zenon
  <1>. QED BY <1>3, <1>4, Zenon DEF TypeOK, LoopFlagsOK, ControlOK

\* A bridge that was never started is well typed.
LEMMA TypeInit == Init => TypeOK
  <1>. SUFFICES ASSUME Init PROVE TypeOK
    OBVIOUS
  <1>1. LoopFlagsOK /\ ProducerFlagsOK
    BY Zenon DEF Init, ProducerInit, LoopFlagsOK, ProducerFlagsOK
  <1>4. << >> \in Seq(Record)
    OBVIOUS
  <1>5. ControlOK
    BY <1>4 DEF Init, ControlOK, Points, Exceptions
  <1>2. ListenerTypeOK /\ CursorTypeOK
    BY StreamAssumption DEF Init, ListenerInit, CursorInit, ListenerTypeOK, CursorTypeOK
  <1>3. ProducerDataOK
    BY <1>4 DEF Init, ProducerInit, ProducerDataOK
  <1>. QED BY <1>1, <1>2, <1>3, <1>5, ProducerParts, Zenon DEF TypeOK, LoopFlagsOK, ControlOK

\* The bridge, its listener, its producer and its cursor file keep to the
\* values the code gives them, for every stream and every bound.
THEOREM TypeCorrect == Spec => []TypeOK
  <1>1. Init => TypeOK
    BY TypeInit
  <1>2. TypeOK /\ [Next]_vars => TypeOK'
    BY TypeStep
  <1>. QED BY <1>1, <1>2, PTL DEF Spec
-----------------------------------------------------------------------------
(***************************************************************************)
(* Nothing is lost: DeliveryInv is inductive.                              *)
(*                                                                         *)
(* First the part of DeliveryInv that speaks of delivered versions.  The   *)
(* topic only grows, so a delivered version stays delivered; what is new   *)
(* is a position that a cursor or an acknowledgement takes over, and the   *)
(* step that takes it over runs where the position is delivered.           *)
(***************************************************************************)
\* The broker never takes a visible record back.
LEMMA TopicGrows ==
  ASSUME ProducerStep
  PROVE  topic \subseteq topic'
  <1>1. CASE LoseQueue
    BY <1>1 DEF LoseQueue, Arrive
  <1>2. CASE CloseProducer \/ DropProducer \/ ProducerDies
    BY <1>1, <1>2, Zenon DEF CloseProducer, DropProducer, ProducerDies, CloseEffect, brokerVars
  <1>3. CASE BrokerAppend \/ BrokerFail
    BY <1>3 DEF BrokerAppend, BrokerFail, Arrive, brokerVars
  <1>4. CASE BrokerCompleteCommit \/ InitializeTxn \/ CommitTxn
    BY <1>4 DEF BrokerCompleteCommit, InitializeTxn, CommitTxn, CompleteCommit
  <1>5. CASE \/ UNCHANGED producerVars \/ BrokerTimeoutAbort \/ ErrorCb \/ NewProducer \/ BeginTxn
             \/ (\E r \in Record : Accept(r)) \/ CommitUnanswered \/ AbortTxn \/ SetFatal
    <2>1. topic' = topic
      BY <1>5, Zenon DEF producerVars, BrokerTimeoutAbort, ErrorCb, NewProducer, BeginTxn, Accept,
         CommitUnanswered, AbortTxn, SetFatal, clientVars, brokerVars
    <2>. QED BY <2>1
  <1>. QED BY <1>2, <1>3, <1>4, <1>5, Zenon DEF ProducerStep

\* FoundationDB forgets what was delivered, and nothing else.
LEMMA ReleasedStep ==
  ASSUME TypeOK, ReleasedDelivered, ReaderDelivered, ResumedReader, UnackedDelivered,
         ListenerStep, topic \subseteq topic'
  PROVE  ReleasedDelivered'
  <1>1. pc \in {"reconcile", "ack"} => UpTo(position) \subseteq topic
    BY DEF ReaderDelivered, ResumedReader, UnackedDelivered, Delivered
  <1>2. /\ minVersion' = minVersion \/ (pc \in {"reconcile", "ack"} /\ Release)
        /\ minVersion \in Int /\ position \in Int
    BY DEF ListenerStep, fdbVars, CommitVersion, Acknowledged, AcknowledgeLost, TypeOK, ListenerTypeOK
  <1>3. CASE minVersion' = minVersion
    BY <1>3 DEF ReleasedDelivered, Delivered
  <1>4. CASE pc \in {"reconcile", "ack"} /\ Release /\ minVersion' # minVersion
    <2>1. minVersion' - 1 = position
      BY <1>2, <1>4 DEF Release
    <2>. QED BY <1>1, <1>4, <2>1 DEF ReleasedDelivered, Delivered
  <1>. QED BY <1>2, <1>3, <1>4

\* The cursor file covers what was delivered, and nothing else.
LEMMA CursorsStep ==
  ASSUME CursorsDelivered, UnackedDelivered, CursorStep, topic \subseteq topic'
  PROVE  CursorsDelivered'
  <1>1. pc = "checkpoint" => UpTo(position) \subseteq topic
    BY DEF UnackedDelivered, Delivered
  <1>2. /\ \/ cursorFile' \in {cursorFile, durableCursor}
           \/ pc = "checkpoint" /\ cursorFile' = position
        /\ durableCursor' \in {cursorFile, durableCursor}
    BY DEF CursorStep, cursorVars, ReplaceCursor, SyncDirectory, CrashDisk
  <1>. QED BY <1>1, <1>2 DEF CursorsDelivered, Delivered

\* A listener that may poll stands at a delivered version.
LEMMA ReaderStep ==
  ASSUME ReleasedDelivered, CursorsDelivered, ReaderDelivered, UnackedDelivered,
         ListenerStep, topic \subseteq topic'
  PROVE  ReaderDelivered'
  <1>. USE DEF ReaderDelivered, Delivered
  <1>1. CASE UNCHANGED listenerVars \/ UNCHANGED <<awaitingAck, deliveryFailed, position>>
    BY <1>1 DEF listenerVars
  <1>2. CASE CreateConsumer \/ OpenAt(cursorFile)
    BY <1>2 DEF CreateConsumer, OpenAt, ReleasedDelivered, CursorsDelivered
  <1>3. CASE NoListener
    BY <1>3, NothingUpToZero DEF NoListener
  <1>4. CASE \E hi \in NextWatermarks : Deliver(hi) \/ FailDelivery(hi)
    BY <1>4 DEF Deliver, FailDelivery
  <1>5. CASE pc = "ack" /\ Acknowledged
    BY <1>5 DEF Acknowledged, UnackedDelivered
  <1>. QED BY <1>1, <1>2, <1>3, <1>4, <1>5, Zenon
           DEF ListenerStep, CommitVersion, AcknowledgeLost, listenerVars

(***************************************************************************)
(* The control part of DeliveryInv: where each flag can be set.            *)
(***************************************************************************)
LEMMA ControlStep ==
  ASSUME ResumedReader, UnackedDelivered, FlagsInPlace, [Next]_vars
  PROVE  /\ FlagsInPlace'
         /\ ResumedReader'
         /\ pc' \in {"checkpoint", "dirsync", "ack"} => deliveredUnacked'
         /\ deliveredUnacked' => \/ deliveredUnacked /\ position' = position
                                 \/ Flush \/ Commit
  <1>. USE DEF FlagsInPlace, ResumedReader, UnackedDelivered, NoBatchPoints, CommitPoints,
               Goto, Raise, loopVars, pipelineVars, listenerVars
  <1>1. CASE Start
    BY <1>1 DEF Start
  <1>2. CASE BuildListener
    BY <1>2 DEF BuildListener, CreateConsumer, OpenAt
  <1>3. CASE Reconcile
    BY <1>3 DEF Reconcile
  <1>4. CASE BuildProducer
    BY <1>4 DEF BuildProducer, Bind
  <1>5. CASE InitTransactions
    BY <1>5 DEF InitTransactions, Bind
  <1>6. CASE BuildFails
    BY <1>6 DEF BuildFails, BuildErrors, NoListener
  <1>7. CASE RunStep
    BY <1>7 DEF RunStep
  <1>8. CASE RunRebuild
    BY <1>8 DEF RunRebuild, PipelineReset, NoListener
  <1>9. CASE RunRebuildSkipped
    BY <1>9 DEF RunRebuildSkipped
  <1>10. CASE HandleError
    BY <1>10 DEF HandleError
  <1>11. CASE StepFinishDelivery
    BY <1>11 DEF StepFinishDelivery
  <1>12. CASE PollEmpty
    BY <1>12 DEF PollEmpty
  <1>13. CASE PollReply
    BY <1>13 DEF PollReply, Polling
  <1>14. CASE PollUnserializable
    BY <1>14 DEF PollUnserializable, Polling
  <1>15. CASE PollFails
    BY <1>15 DEF PollFails, Polling
  <1>16. CASE Begin
    BY <1>16 DEF Begin
  <1>17. CASE BeginFails
    BY <1>17 DEF BeginFails
  <1>18. CASE Produce
    BY <1>18 DEF Produce
  <1>19. CASE ProduceFails
    BY <1>19 DEF ProduceFails
  <1>20. CASE ProduceDone
    BY <1>20 DEF ProduceDone
  <1>21. CASE Flush
    BY <1>21 DEF Flush
  <1>22. CASE FlushFails
    BY <1>22 DEF FlushFails
  <1>23. CASE Commit
    BY <1>23 DEF Commit
  <1>24. CASE CommitRetriable
    BY <1>24 DEF CommitRetriable
  <1>25. CASE CommitAbortable
    BY <1>25 DEF CommitAbortable
  <1>26. CASE CommitFatal
    BY <1>26 DEF CommitFatal
  <1>27. CASE CommitRefused
    BY <1>27 DEF CommitRefused
  <1>28. CASE Abort
    BY <1>28 DEF Abort
  <1>29. CASE AbortFails
    BY <1>29 DEF AbortFails
  <1>30. CASE Checkpoint
    BY <1>30 DEF Checkpoint
  <1>31. CASE CheckpointFails
    BY <1>31 DEF CheckpointFails
  <1>32. CASE DirSync
    BY <1>32 DEF DirSync
  <1>33. CASE DirSyncFails
    BY <1>33 DEF DirSyncFails
  <1>34. CASE Ack
    BY <1>34 DEF Ack, StepReturns, Acknowledged
  <1>35. CASE AckFails
    BY <1>35 DEF AckFails, AcknowledgeLost
  <1>36. CASE StopClose
    BY <1>36 DEF StopClose, Gone, PipelineReset
  <1>37. CASE Stop
    BY <1>37 DEF Stop
  <1>38. CASE StopParked
    BY <1>38 DEF StopParked, Polling
  <1>39. CASE ProcessCrash \/ MachineCrash
    BY <1>39 DEF ProcessCrash, MachineCrash, Gone, PipelineReset
  <1>40. CASE Workload
    BY <1>40 DEF Workload, CommitVersion
  <1>41. CASE BrokerAppends \/ BrokerCommits \/ BrokerFaults
    BY <1>41 DEF BrokerAppends, BrokerCommits, BrokerFaults, others
  <1>42. CASE UNCHANGED vars
    BY <1>42 DEF vars
  <1>. QED BY <1>1, <1>2, <1>3, <1>4, <1>5, <1>6, <1>7, <1>8, <1>9, <1>10, <1>11,
              <1>12, <1>13, <1>14, <1>15, <1>16, <1>17, <1>18, <1>19, <1>20, <1>21,
              <1>22, <1>23, <1>24, <1>25, <1>26, <1>27, <1>28, <1>29, <1>30, <1>31,
              <1>32, <1>33, <1>34, <1>35, <1>36, <1>37, <1>38, <1>39, <1>40, <1>41,
              <1>42, Zenon
           DEF Next, Thread, Building, Looping, Stepping, Producing, Committing, Acknowledging

(***************************************************************************)
(* The batch: from the poll to the flush or the commit, every record of    *)
(* it is in one of four places, or the batch is condemned.                 *)
(***************************************************************************)
\* What arrives leaves the staged records of a finished transaction alone.
LEMMA TxnStep ==
  ASSUME TxnInPlace, FlagsInPlace, ProducerStep
  PROVE  TxnInPlace'
  <1>. USE DEF TxnInPlace
  <1>1. CASE LoseQueue
    <2>1. PICK n \in 0..Len(queue) : /\ n > 0 => Accepting
                                     /\ Arrive({queue[i] : i \in 1..n})
      BY <1>1 DEF LoseQueue
    <2>2. CASE n = 0
      BY <2>1, <2>2 DEF Arrive
    <2>3. CASE n > 0
      BY <2>1, <2>3 DEF Arrive, Accepting
    <2>. QED BY <2>1, <2>2, <2>3
  <1>2. CASE CloseProducer \/ DropProducer \/ ProducerDies
    <2>1. \/ LoseQueue
          \/ UNCHANGED brokerVars
          \/ staged' = {} /\ txnState' = "none"
      BY <1>2, Zenon DEF CloseProducer, DropProducer, ProducerDies, CloseEffect
    <2>. QED BY <1>1, <2>1 DEF brokerVars
  <1>3. CASE BrokerAppend \/ BrokerFail
    BY <1>3 DEF BrokerAppend, BrokerFail, Arrive, Accepting, brokerVars
  <1>4. CASE BrokerCompleteCommit \/ InitializeTxn \/ CommitTxn \/ AbortTxn
    BY <1>4 DEF BrokerCompleteCommit, InitializeTxn, CommitTxn, CompleteCommit, AbortTxn
  <1>5. CASE BrokerTimeoutAbort \/ CommitUnanswered
    BY <1>5 DEF BrokerTimeoutAbort, CommitUnanswered
  <1>6. CASE pc = "begin" /\ BeginTxn
    BY <1>6 DEF BeginTxn, FlagsInPlace
  <1>7. CASE UNCHANGED producerVars \/ ErrorCb \/ NewProducer \/ (\E r \in Record : Accept(r)) \/ SetFatal
    <2>1. UNCHANGED brokerVars
      BY <1>7, Zenon DEF producerVars, ErrorCb, NewProducer, Accept, SetFatal, brokerVars
    <2>. QED BY <2>1 DEF brokerVars
  <1>. QED BY <1>2, <1>3, <1>4, <1>5, <1>6, <1>7, Zenon DEF ProducerStep

\* The listener returned every record between its position and the watermark.
LEMMA PollStep ==
  ASSUME ListenerTypeOK, ReaderDelivered, PollReply
  PROVE  UpTo(position') \subseteq topic \cup Members(records')
  <1>1. PICK hi \in NextWatermarks : position' = hi /\ records' = Reply(position, hi)
    BY DEF PollReply, Deliver
  <1>2. position \in 0..MaxVersion /\ hi \in 1..MaxVersion /\ position <= hi
    BY StreamAssumption DEF NextWatermarks, ListenerTypeOK
  <1>3. UpTo(hi) \subseteq UpTo(position) \cup Members(Reply(position, hi))
    BY <1>2, ReplyCovers
  <1>4. UpTo(position) \subseteq topic
    BY DEF PollReply, PollRefused, ReaderDelivered, Delivered
  <1>. QED BY <1>1, <1>3, <1>4

\* Only a poll reaches the point where a batch waits for its transaction.
LEMMA PolledStep ==
  ASSUME ListenerTypeOK, ReaderDelivered, PolledCovered, ProducerStep, [Next]_vars
  PROVE  PolledCovered'
  <1>. SUFFICES ASSUME pc' = "begin"
                PROVE  UpTo(position') \subseteq topic' \cup Members(records')
    BY DEF PolledCovered
  <1>1. topic \subseteq topic'
    BY TopicGrows
  <1>2. CASE PollReply
    BY <1>1, <1>2, PollStep
  <1>3. CASE pc = "begin" /\ position' = position /\ records' = records
    BY <1>1, <1>3 DEF PolledCovered
  <1>4. PollReply \/ (pc = "begin" /\ position' = position /\ records' = records)
    <2>. USE DEF Goto, Raise, pipelineVars, listenerVars
    <2>1. CASE Start \/ Building
      BY <2>1 DEF Start, Building, BuildListener, Reconcile, BuildProducer, InitTransactions,
                  BuildFails, Bind
    <2>2. CASE Looping
      BY <2>2 DEF Looping, RunStep, RunRebuild, RunRebuildSkipped, HandleError
    <2>3. CASE Stepping
      BY <2>3 DEF Stepping, StepFinishDelivery, PollEmpty, PollUnserializable, PollFails
    <2>4. CASE Producing
      BY <2>4 DEF Producing, Begin, BeginFails, Produce, ProduceFails, ProduceDone, Flush, FlushFails
    <2>5. CASE Committing
      BY <2>5 DEF Committing, Commit, CommitRetriable, CommitAbortable, CommitFatal, CommitRefused,
                  Abort, AbortFails
    <2>6. CASE Acknowledging
      BY <2>6 DEF Acknowledging, Checkpoint, CheckpointFails, DirSync, DirSyncFails, Ack, AckFails,
                  StepReturns
    <2>7. CASE StopClose \/ Stop \/ StopParked \/ ProcessCrash \/ MachineCrash
      BY <2>7 DEF StopClose, Stop, StopParked, ProcessCrash, MachineCrash, Gone
    <2>8. CASE Workload \/ BrokerAppends \/ BrokerCommits \/ BrokerFaults \/ UNCHANGED vars
      BY <2>8 DEF Workload, CommitVersion, BrokerAppends, BrokerCommits, BrokerFaults, others, vars
    <2>. QED BY <2>1, <2>2, <2>3, <2>4, <2>5, <2>6, <2>7, <2>8, Zenon DEF Next, Thread
  <1>. QED BY <1>2, <1>3, <1>4

\* What arrives moves from the queue to the topic or into the transaction.
LEMMA ArriveCovers ==
  ASSUME NEW recs, Arrive(recs)
  PROVE  topic' \cup staged' = topic \cup staged \cup recs
  BY DEF Arrive

\* The moves of the broker keep a batch covered, or condemn it.
LEMMA BrokerCovers ==
  ASSUME ProducerTypeOK, TxnInPlace, BatchCovered, pc \in {"produce", "flush"} \/ commitOutstanding,
         BrokerAppend \/ BrokerFail \/ BrokerCompleteCommit \/ BrokerTimeoutAbort \/ ErrorCb,
         position' = position, records' = records
  PROVE  \/ deliveryErrors'
         \/ txnState' = "aborted"
         \/ UpTo(position') \subseteq topic' \cup staged' \cup Members(queue') \cup Members(records')
  <1>1. CASE BrokerAppend
    <2>1. Members(queue) = {Head(queue)} \cup Members(Tail(queue))
      BY <1>1, MembersOfSeq DEF BrokerAppend, ProducerTypeOK
    <2>2. /\ topic' \cup staged' = topic \cup staged \cup {Head(queue)}
          /\ queue' = Tail(queue) /\ txnState' = txnState /\ ~deliveryErrors
      BY <1>1, ArriveCovers DEF BrokerAppend, Arrive
    <2>. QED BY <2>1, <2>2 DEF BatchCovered
  <1>2. CASE BrokerFail
    BY <1>2 DEF BrokerFail
  <1>3. CASE BrokerCompleteCommit
    BY <1>3 DEF BrokerCompleteCommit, CompleteCommit, BatchCovered, clientVars
  <1>4. CASE BrokerTimeoutAbort
    BY <1>4 DEF BrokerTimeoutAbort
  <1>5. CASE ErrorCb
    BY <1>5 DEF ErrorCb, BatchCovered, brokerVars
  <1>. QED BY <1>1, <1>2, <1>3, <1>4, <1>5

\* A batch is in hand from the poll of an idempotent producer, or the begin of
\* a transaction, to the flush or the end of the commit.
BatchInHand == pc \in {"produce", "flush"} \/ commitOutstanding

BatchUnmoved == BatchInHand /\ position' = position /\ records' = records

\* What a step can do to a batch in hand.
LEMMA BatchShape ==
  ASSUME FlagsInPlace, [Next]_vars
  PROVE  \/ ~BatchInHand'
         \/ PollReply \/ Begin \/ Produce
         \/ BatchUnmoved /\ UNCHANGED producerVars
         \/ BatchUnmoved /\ CommitUnanswered
         \/ /\ BatchUnmoved
            /\ BrokerAppend \/ BrokerFail \/ BrokerCompleteCommit \/ BrokerTimeoutAbort \/ ErrorCb
  <1>. USE DEF BatchInHand, BatchUnmoved, FlagsInPlace, NoBatchPoints, CommitPoints,
               Goto, Raise, loopVars, pipelineVars, listenerVars
  <1>1. CASE Start \/ Building
    BY <1>1 DEF Start, Building, BuildListener, Reconcile, BuildProducer, InitTransactions,
                BuildFails, BuildErrors, Bind
  <1>2. CASE Looping
    BY <1>2 DEF Looping, RunStep, RunRebuild, RunRebuildSkipped, HandleError, PipelineReset
  <1>3. CASE StepFinishDelivery \/ PollEmpty \/ PollUnserializable \/ PollFails
    BY <1>3 DEF StepFinishDelivery, PollEmpty, PollUnserializable, PollFails, Polling
  <1>4. CASE PollReply \/ Begin \/ Produce
    BY <1>4
  <1>5. CASE BeginFails
    BY <1>5 DEF BeginFails
  <1>16. CASE ProduceFails
    BY <1>16 DEF ProduceFails
  <1>17. CASE ProduceDone
    BY <1>17 DEF ProduceDone
  <1>6. CASE Flush \/ FlushFails
    BY <1>6 DEF Flush, FlushFails
  <1>7. CASE Commit \/ CommitRetriable
    BY <1>7 DEF Commit, CommitRetriable
  <1>8. CASE CommitAbortable \/ CommitFatal \/ CommitRefused
    BY <1>8 DEF CommitAbortable, CommitFatal, CommitRefused
  <1>9. CASE Abort \/ AbortFails
    BY <1>9 DEF Abort, AbortFails
  <1>10. CASE Acknowledging
    BY <1>10 DEF Acknowledging, Checkpoint, CheckpointFails, DirSync, DirSyncFails, Ack, AckFails,
                 StepReturns, Acknowledged, AcknowledgeLost
  <1>11. CASE Stop \/ StopParked
    BY <1>11 DEF Stop, StopParked, Polling
  <1>12. CASE StopClose \/ ProcessCrash \/ MachineCrash
    BY <1>12 DEF StopClose, ProcessCrash, MachineCrash, Gone, PipelineReset
  <1>13. CASE Workload
    BY <1>13 DEF Workload, CommitVersion
  <1>14. CASE BrokerAppends \/ BrokerCommits \/ BrokerFaults
    BY <1>14 DEF BrokerAppends, BrokerCommits, BrokerFaults, others
  <1>15. CASE UNCHANGED vars
    BY <1>15 DEF vars, producerVars, clientVars, brokerVars
  <1>. QED BY <1>1, <1>2, <1>3, <1>4, <1>5, <1>6, <1>7, <1>8, <1>9, <1>10, <1>11, <1>12, <1>13,
              <1>14, <1>15, <1>16, <1>17, Zenon
           DEF Next, Thread, Stepping, Producing, Committing

\* A batch in hand stays covered, or is condemned.
LEMMA BatchStep ==
  ASSUME TypeOK, ReaderDelivered, FlagsInPlace, TxnInPlace, PolledCovered, BatchCovered, [Next]_vars
  PROVE  BatchCovered'
  <1>. SUFFICES ASSUME BatchInHand'
                PROVE  \/ deliveryErrors'
                       \/ txnState' = "aborted"
                       \/ UpTo(position') \subseteq
                            topic' \cup staged' \cup Members(queue') \cup Members(records')
    BY DEF BatchCovered, BatchInHand
  <1>1. CASE PollReply
    <2>1. UpTo(position') \subseteq topic \cup Members(records')
      BY <1>1, PollStep DEF TypeOK
    <2>. QED BY <1>1, <2>1 DEF PollReply, producerVars, brokerVars
  <1>2. CASE Begin
    BY <1>2 DEF Begin, BeginTxn, PolledCovered, listenerVars, pipelineVars
  <1>3. CASE Produce
    <2>1. /\ Members(records) = {Head(records)} \cup Members(Tail(records))
          /\ Head(records) \in Record
      BY <1>3, MembersOfSeq DEF Produce, TypeOK
    <2>2. /\ queue' = Append(queue, Head(records)) /\ records' = Tail(records)
          /\ position' = position
          /\ UNCHANGED <<deliveryErrors, topic, staged, txnState>>
      BY <1>3 DEF Produce, Accept, brokerVars, listenerVars
    <2>3. Members(queue') = Members(queue) \cup {Head(records)}
      BY <2>1, <2>2, MembersOfSeq DEF TypeOK, ProducerTypeOK
    <2>4. \/ deliveryErrors
          \/ txnState = "aborted"
          \/ UpTo(position) \subseteq topic \cup staged \cup Members(queue) \cup Members(records)
      BY <1>3 DEF Produce, BatchCovered
    <2>. QED BY <2>1, <2>2, <2>3, <2>4
  <1>4. CASE BatchUnmoved /\ UNCHANGED producerVars
    BY <1>4 DEF BatchUnmoved, BatchInHand, BatchCovered, producerVars, clientVars, brokerVars
  <1>5. CASE BatchUnmoved /\ CommitUnanswered
    BY <1>5 DEF BatchUnmoved, BatchInHand, BatchCovered, CommitUnanswered, clientVars
  <1>6. CASE /\ BatchUnmoved
             /\ BrokerAppend \/ BrokerFail \/ BrokerCompleteCommit \/ BrokerTimeoutAbort \/ ErrorCb
    BY <1>6, BrokerCovers DEF BatchUnmoved, BatchInHand, TypeOK
  <1>. QED BY <1>1, <1>2, <1>3, <1>4, <1>5, <1>6, BatchShape

\* Flush and commit return only when the whole batch can be read.
LEMMA DeliveryStep ==
  ASSUME FlagsInPlace, TxnInPlace, BatchCovered, Flush \/ Commit
  PROVE  UpTo(position') \subseteq topic'
  <1>0. Members(<< >>) = {}
    BY DEF Members
  <1>1. CASE Flush
    <2>1. /\ pc = "flush" /\ queue = << >> /\ ~deliveryErrors
          /\ position' = position /\ topic' = topic
      BY <1>1 DEF Flush, listenerVars, producerVars, brokerVars
    <2>2. ~Transactional /\ records = << >>
      BY <2>1 DEF FlagsInPlace
    <2>3. staged = {} /\ txnState # "aborted"
      BY <2>2 DEF TxnInPlace
    <2>. QED BY <1>0, <2>1, <2>2, <2>3 DEF BatchCovered
  <1>2. CASE Commit
    <2>1. /\ pc = "commit" /\ queue = << >> /\ ~deliveryErrors /\ position' = position
          /\ txnState \in {"open", "prepared", "committed"}
          /\ \/ txnState = "committed" /\ topic' = topic
             \/ topic' = topic \cup staged
      BY <1>2 DEF Commit, CommitTxn, CompleteCommit, listenerVars
    <2>2. commitOutstanding /\ records = << >>
      BY <2>1 DEF FlagsInPlace
    <2>3. UpTo(position) \subseteq topic \cup staged
      BY <1>0, <2>1, <2>2 DEF BatchCovered
    <2>. QED BY <2>1, <2>3 DEF TxnInPlace
  <1>. QED BY <1>1, <1>2

-----------------------------------------------------------------------------
(***************************************************************************)
(* The invariant and what it gives.                                        *)
(***************************************************************************)
LEMMA DeliveryInvInit == Init => DeliveryInv
  <1>. SUFFICES ASSUME Init PROVE DeliveryInv
    OBVIOUS
  <1>1. TypeOK
    BY TypeInit
  <1>2. UpTo(0) = {}
    BY NothingUpToZero
  <1>3. ReleasedDelivered /\ CursorsDelivered /\ ReaderDelivered
    BY <1>2 DEF Init, ListenerInit, CursorInit, ReleasedDelivered, CursorsDelivered,
       ReaderDelivered, Delivered
  <1>4. ResumedReader /\ UnackedDelivered /\ FlagsInPlace
    BY DEF Init, ResumedReader, UnackedDelivered, FlagsInPlace, NoBatchPoints
  <1>5. TxnInPlace /\ PolledCovered /\ BatchCovered
    BY DEF Init, ProducerInit, TxnInPlace, PolledCovered, BatchCovered
  <1>. QED BY <1>1, <1>3, <1>4, <1>5 DEF DeliveryInv

\* Every step of the bridge, the broker or a crash keeps the inductive invariant.
LEMMA DeliveryInvStep ==
  ASSUME DeliveryInv, [Next]_vars
  PROVE  DeliveryInv'
  <1>1. /\ TypeOK /\ ReleasedDelivered /\ CursorsDelivered /\ ReaderDelivered /\ ResumedReader
        /\ UnackedDelivered /\ FlagsInPlace /\ TxnInPlace /\ PolledCovered /\ BatchCovered
    BY Zenon DEF DeliveryInv
  <1>2. ProducerStep /\ ListenerStep /\ CursorStep
    BY <1>1, PartSteps DEF TypeOK
  <1>3. topic \subseteq topic'
    BY <1>2, TopicGrows
  <1>4. TypeOK'
    BY <1>1, TypeStep
  <1>5. ReleasedDelivered' /\ CursorsDelivered' /\ ReaderDelivered'
    BY <1>1, <1>2, <1>3, ReleasedStep, CursorsStep, ReaderStep, Zenon
  <1>6. FlagsInPlace' /\ ResumedReader'
    BY <1>1, ControlStep
  <1>7. UnackedDelivered'
    <2>1. /\ pc' \in {"checkpoint", "dirsync", "ack"} => deliveredUnacked'
          /\ deliveredUnacked' => \/ deliveredUnacked /\ position' = position
                                  \/ Flush \/ Commit
      BY <1>1, ControlStep
    <2>2. deliveredUnacked /\ position' = position => UpTo(position') \subseteq topic'
      BY <1>1, <1>3 DEF UnackedDelivered, Delivered
    <2>3. Flush \/ Commit => UpTo(position') \subseteq topic'
      BY <1>1, DeliveryStep
    <2>. QED BY <2>1, <2>2, <2>3 DEF UnackedDelivered, Delivered
  <1>8. TxnInPlace'
    BY <1>1, <1>2, TxnStep
  <1>9. PolledCovered'
    BY <1>1, <1>2, PolledStep DEF TypeOK
  <1>10. BatchCovered'
    BY <1>1, BatchStep
  <1>. QED BY <1>4, <1>5, <1>6, <1>7, <1>8, <1>9, <1>10, Zenon DEF DeliveryInv

\* Every reachable state has the relation between the stream, the cursors, the
\* reader's position and the four places of a batch that DeliveryInv spells out.
THEOREM DeliveryInvariant == Spec => []DeliveryInv
  <1>. QED BY DeliveryInvInit, DeliveryInvStep, PTL DEF Spec

\* Whatever acknowledge() lets FoundationDB forget can be read from the topic,
\* through every failure, crash, rebuild and stop.
THEOREM NothingIsLost == Spec => []AtLeastOnce
  <1>1. DeliveryInv => AtLeastOnce
    BY Zenon DEF DeliveryInv, ReleasedDelivered, Delivered, AtLeastOnce
  <1>. QED BY <1>1, DeliveryInvariant, PTL

\* Resuming from the cursor file, or from what a machine crash leaves of it,
\* skips nothing.
THEOREM CursorsSkipNothing == Spec => []CheckpointCovered
  <1>1. DeliveryInv => CheckpointCovered
    BY DEF DeliveryInv, CursorsDelivered, Delivered, CheckpointCovered
  <1>. QED BY <1>1, DeliveryInvariant, PTL
=============================================================================
