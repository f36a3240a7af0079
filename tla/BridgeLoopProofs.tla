-------------------------- MODULE BridgeLoopProofs --------------------------
(***************************************************************************)
(* Proofs, for every stream, every number of retries and every number of   *)
(* failures, of what the run loop owes the pipeline: it never polls a      *)
(* listener that must refuse (NeverPollsRefusing), never works with a      *)
(* closed producer (ProducerUsable), releases a version only when the      *)
(* cursor that covers it is durable (AckAfterSync), and keeps a commit in  *)
(* doubt resolvable (CommitInDoubtKept).  All four follow from LoopInv.    *)
(***************************************************************************)
EXTENDS BridgeProofs

-----------------------------------------------------------------------------
(***************************************************************************)
(* The listener: one that refuses polls is acknowledged or replaced.       *)
(***************************************************************************)
\* The calls of a batch leave the refusal of the listener to the acknowledgement,
\* or raise what makes the loop rebuild.
LEMMA RefusalBatchStep ==
  ASSUME UnackedDelivered, FlagsInPlace, RefusalHandled, Producing \/ Committing \/ Acknowledging
  PROVE  RefusalHandled'
  <1>. USE DEF UnackedDelivered, FlagsInPlace, RefusalHandled, NoBatchPoints, CommitPoints,
               Delivering, RebuildDue, Cures, NeedsRebuild, Goto, Raise,
               loopVars, pipelineVars, listenerVars
  <1>1. CASE Begin
    BY <1>1 DEF Begin
  <1>2. CASE BeginFails
    BY <1>2 DEF BeginFails, SetFatal, producerVars, clientVars
  <1>3. CASE Produce
    BY <1>3 DEF Produce
  <1>4. CASE ProduceFails
    BY <1>4 DEF ProduceFails, ProduceErrors, CloseProducer, ClientGone, SetFatal, producerVars, clientVars
  <1>5. CASE ProduceDone
    BY <1>5 DEF ProduceDone, CloseProducer, ClientGone
  <1>6. CASE Flush
    BY <1>6 DEF Flush
  <1>7. CASE FlushFails
    BY <1>7 DEF FlushFails, CloseProducer, ClientGone
  <1>8. CASE Commit
    BY <1>8 DEF Commit
  <1>9. CASE CommitRetriable
    BY <1>9 DEF CommitRetriable
  <1>10. CASE CommitAbortable
    BY <1>10 DEF CommitAbortable
  <1>11. CASE CommitFatal
    BY <1>11 DEF CommitFatal
  <1>12. CASE CommitRefused
    BY <1>12 DEF CommitRefused, producerVars, clientVars
  <1>13. CASE Abort
    BY <1>13 DEF Abort
  <1>14. CASE AbortFails
    BY <1>14 DEF AbortFails, SetFatal
  <1>15. CASE Checkpoint
    BY <1>15 DEF Checkpoint
  <1>16. CASE CheckpointFails
    BY <1>16 DEF CheckpointFails
  <1>17. CASE DirSync
    BY <1>17 DEF DirSync
  <1>18. CASE DirSyncFails
    BY <1>18 DEF DirSyncFails
  <1>19. CASE Ack
    BY <1>19 DEF Ack, StepReturns, Acknowledged
  <1>20. CASE AckFails
    BY <1>20 DEF AckFails, AcknowledgeLost
  <1>. QED BY <1>1, <1>2, <1>3, <1>4, <1>5, <1>6, <1>7, <1>8, <1>9, <1>10, <1>11, <1>12,
              <1>13, <1>14, <1>15, <1>16, <1>17, <1>18, <1>19, <1>20, Zenon
           DEF Producing, Committing, Acknowledging

\* So does everything else: the build and the loop start over with a fresh
\* listener, a poll is the only step that makes one refuse.
LEMMA RefusalStep ==
  ASSUME UnackedDelivered, FlagsInPlace, RefusalHandled, [Next]_vars
  PROVE  RefusalHandled'
  <1>. USE DEF UnackedDelivered, FlagsInPlace, RefusalHandled, NoBatchPoints, CommitPoints,
               Delivering, RebuildDue, Cures, Goto, Raise,
               loopVars, pipelineVars, listenerVars
  <1>1. CASE Start
    BY <1>1 DEF Start
  <1>2. CASE BuildListener \/ Reconcile
    BY <1>2 DEF BuildListener, CreateConsumer, OpenAt, Reconcile
  <1>3. CASE BuildProducer
    BY <1>3 DEF BuildProducer, Bind
  <1>4. CASE InitTransactions
    BY <1>4 DEF InitTransactions, Bind
  <1>5. CASE BuildFails
    BY <1>5 DEF BuildFails, BuildErrors, NoListener
  <1>6. CASE RunStep
    BY <1>6 DEF RunStep, NoRebuildDue
  <1>7. CASE RunRebuild \/ RunRebuildSkipped
    BY <1>7 DEF RunRebuild, RunRebuildSkipped, PipelineReset, NoListener
  <1>8. CASE HandleError
    BY <1>8 DEF HandleError, NeedsRebuild
  <1>9. CASE StepFinishDelivery
    BY <1>9 DEF StepFinishDelivery
  <1>10. CASE PollEmpty
    BY <1>10 DEF PollEmpty, PollRefused
  <1>11. CASE PollReply
    BY <1>11 DEF PollReply, Polling, PollRefused, Deliver
  <1>12. CASE PollUnserializable
    BY <1>12 DEF PollUnserializable, Polling, PollRefused, FailDelivery
  <1>13. CASE PollFails
    BY <1>13 DEF PollFails, Polling
  <1>14. CASE Producing \/ Committing \/ Acknowledging
    BY <1>14, RefusalBatchStep
  <1>15. CASE Stop
    BY <1>15 DEF Stop
  <1>16. CASE StopParked
    BY <1>16 DEF StopParked, Polling, PollRefused
  <1>17. CASE StopClose \/ ProcessCrash \/ MachineCrash
    BY <1>17 DEF StopClose, ProcessCrash, MachineCrash, Gone, NoListener
  <1>18. CASE Workload \/ BrokerAppends \/ BrokerCommits
    BY <1>18 DEF Workload, CommitVersion, BrokerAppends, BrokerAppend, BrokerCommits,
                 BrokerCompleteCommit, others, NeedsRebuild, producerVars, clientVars
  <1>19. CASE BrokerFaults
    <2>1. fatal' = fatal \/ fatal' = TRUE
      BY <1>19, Zenon DEF BrokerFaults, BrokerFail, BrokerTimeoutAbort, ErrorCb, clientVars
    <2>2. producer' = producer
      BY <1>19, Zenon DEF BrokerFaults, BrokerFail, BrokerTimeoutAbort, ErrorCb, clientVars
    <2>. QED BY <1>19, <2>1, <2>2 DEF BrokerFaults, others, NeedsRebuild
  <1>20. CASE UNCHANGED vars
    BY <1>20 DEF vars, NeedsRebuild, producerVars, clientVars
  <1>. QED BY <1>1, <1>2, <1>3, <1>4, <1>5, <1>6, <1>7, <1>8, <1>9, <1>10, <1>11, <1>12, <1>13,
              <1>14, <1>15, <1>16, <1>17, <1>18, <1>19, <1>20, Zenon
           DEF Next, Thread, Building, Looping, Stepping

-----------------------------------------------------------------------------
(***************************************************************************)
(* The handles: what a step works with is open.                            *)
(***************************************************************************)
\* The calls of a batch close a producer only on their way to the loop.
LEMMA HandlesBatchStep ==
  ASSUME FlagsInPlace, HandlesOpen, Producing \/ Committing \/ Acknowledging
  PROVE  HandlesOpen'
  <1>. USE DEF FlagsInPlace, HandlesOpen, BatchPoints, CommitPoints, RebuildDue, Goto, Raise,
               loopVars, pipelineVars, listenerVars, producerVars, clientVars
  <1>1. CASE Begin
    BY <1>1 DEF Begin, BeginTxn
  <1>2. CASE BeginFails
    BY <1>2 DEF BeginFails, SetFatal
  <1>3. CASE Produce
    BY <1>3 DEF Produce, Accept
  <1>4. CASE ProduceFails
    BY <1>4 DEF ProduceFails, SetFatal
  <1>5. CASE ProduceDone
    BY <1>5, ProducerAssumption DEF ProduceDone, CloseProducer, ClientGone
  <1>6. CASE Flush
    BY <1>6 DEF Flush
  <1>7. CASE FlushFails
    BY <1>7 DEF FlushFails, CloseProducer, ClientGone
  <1>8. CASE Commit
    BY <1>8 DEF Commit, CommitTxn
  <1>9. CASE CommitRetriable
    BY <1>9 DEF CommitRetriable, CommitUnanswered
  <1>10. CASE CommitAbortable
    BY <1>10 DEF CommitAbortable
  <1>11. CASE CommitFatal
    BY <1>11 DEF CommitFatal, SetFatal
  <1>12. CASE CommitRefused
    BY <1>12 DEF CommitRefused
  <1>13. CASE Abort
    BY <1>13 DEF Abort, AbortTxn
  <1>14. CASE AbortFails
    BY <1>14 DEF AbortFails, SetFatal
  <1>15. CASE Checkpoint \/ CheckpointFails
    BY <1>15 DEF Checkpoint, CheckpointFails
  <1>16. CASE DirSync \/ DirSyncFails
    BY <1>16 DEF DirSync, DirSyncFails
  <1>17. CASE Ack
    BY <1>17 DEF Ack, StepReturns, Acknowledged
  <1>18. CASE AckFails
    BY <1>18 DEF AckFails, AcknowledgeLost
  <1>. QED BY <1>1, <1>2, <1>3, <1>4, <1>5, <1>6, <1>7, <1>8, <1>9, <1>10, <1>11, <1>12,
              <1>13, <1>14, <1>15, <1>16, <1>17, <1>18, Zenon
           DEF Producing, Committing, Acknowledging

\* The loop steps only with open handles, and replaces the others.
LEMMA HandlesStep ==
  ASSUME FlagsInPlace, HandlesOpen, [Next]_vars
  PROVE  HandlesOpen'
  <1>. USE DEF FlagsInPlace, HandlesOpen, NoBatchPoints, BatchPoints, CommitPoints, RebuildDue, Goto, Raise,
               loopVars, pipelineVars, listenerVars, producerVars, clientVars
  <1>1. CASE Start
    BY <1>1 DEF Start
  <1>2. CASE BuildListener \/ Reconcile
    BY <1>2 DEF BuildListener, CreateConsumer, OpenAt, Reconcile
  <1>3. CASE BuildProducer
    BY <1>3 DEF BuildProducer, NewProducer, Bind
  <1>4. CASE InitTransactions
    BY <1>4 DEF InitTransactions, InitializeTxn, Bind
  <1>5. CASE BuildFails
    BY <1>5 DEF BuildFails, BuildErrors
  <1>6. CASE RunStep
    BY <1>6 DEF RunStep, NoRebuildDue
  <1>7. CASE RunRebuild \/ RunRebuildSkipped
    BY <1>7 DEF RunRebuild, RunRebuildSkipped, PipelineReset
  <1>8. CASE HandleError
    BY <1>8 DEF HandleError, NeedsRebuild
  <1>9. CASE StepFinishDelivery
    BY <1>9 DEF StepFinishDelivery
  <1>10. CASE PollEmpty
    BY <1>10 DEF PollEmpty, Polling
  <1>11. CASE PollReply
    BY <1>11 DEF PollReply, Polling, Deliver
  <1>12. CASE PollUnserializable
    BY <1>12 DEF PollUnserializable, Polling, FailDelivery
  <1>13. CASE PollFails
    BY <1>13 DEF PollFails, Polling
  <1>14. CASE Producing \/ Committing \/ Acknowledging
    BY <1>14, HandlesBatchStep
  <1>15. CASE Stop
    BY <1>15 DEF Stop
  <1>16. CASE StopParked
    BY <1>16 DEF StopParked, Polling
  <1>17. CASE StopClose \/ ProcessCrash \/ MachineCrash
    BY <1>17 DEF StopClose, ProcessCrash, MachineCrash, Gone, PipelineReset
  <1>18. CASE Workload \/ BrokerAppends \/ BrokerCommits
    BY <1>18 DEF Workload, CommitVersion, BrokerAppends, BrokerAppend, BrokerCommits,
                 BrokerCompleteCommit, others
  <1>19. CASE BrokerFaults
    BY <1>19 DEF BrokerFaults, BrokerFail, BrokerTimeoutAbort, ErrorCb, others
  <1>20. CASE UNCHANGED vars
    BY <1>20 DEF vars
  <1>. QED BY <1>1, <1>2, <1>3, <1>4, <1>5, <1>6, <1>7, <1>8, <1>9, <1>10, <1>11, <1>12, <1>13,
              <1>14, <1>15, <1>16, <1>17, <1>18, <1>19, <1>20, Zenon
           DEF Next, Thread, Building, Looping, Stepping
-----------------------------------------------------------------------------
(***************************************************************************)
(* The cursor: what counts as checkpointed survives a machine crash.       *)
(***************************************************************************)
\* Only the sync of the directory makes a batch count as checkpointed when the
\* file system offers one, and the position stays until it is acknowledged.
LEMMA DurableStep ==
  ASSUME UnackedDelivered, FlagsInPlace, CursorDurable, [Next]_vars
  PROVE  CursorDurable'
  <1>. USE DEF UnackedDelivered, FlagsInPlace, CursorDurable, NoBatchPoints, CommitPoints, Goto, Raise,
               loopVars, pipelineVars, listenerVars, cursorVars
  <1>1. CASE Start \/ BuildProducer \/ InitTransactions
    BY <1>1 DEF Start, BuildProducer, InitTransactions, Bind
  <1>2. CASE BuildListener \/ Reconcile
    BY <1>2 DEF BuildListener, CreateConsumer, OpenAt, Reconcile
  <1>3. CASE BuildFails
    BY <1>3 DEF BuildFails, BuildErrors
  <1>4. CASE Looping
    BY <1>4 DEF Looping, RunStep, RunRebuild, RunRebuildSkipped, HandleError, PipelineReset
  <1>5. CASE Stepping
    BY <1>5 DEF Stepping, StepFinishDelivery, PollEmpty, PollReply, PollUnserializable, PollFails,
                Polling
  <1>6. CASE Begin \/ BeginFails \/ Produce
    BY <1>6 DEF Begin, BeginFails, Produce
  <1>7. CASE ProduceFails \/ ProduceDone
    BY <1>7 DEF ProduceFails, ProduceDone
  <1>8. CASE Flush \/ FlushFails
    BY <1>8 DEF Flush, FlushFails
  <1>9. CASE Commit \/ CommitRetriable
    BY <1>9 DEF Commit, CommitRetriable
  <1>10. CASE CommitAbortable \/ CommitFatal \/ CommitRefused
    BY <1>10 DEF CommitAbortable, CommitFatal, CommitRefused
  <1>11. CASE Abort \/ AbortFails
    BY <1>11 DEF Abort, AbortFails
  <1>12. CASE Checkpoint
    BY <1>12 DEF Checkpoint, ReplaceCursor
  <1>13. CASE CheckpointFails \/ DirSyncFails
    BY <1>13 DEF CheckpointFails, DirSyncFails
  <1>14. CASE DirSync
    BY <1>14 DEF DirSync, SyncDirectory
  <1>15. CASE Ack \/ AckFails
    BY <1>15 DEF Ack, AckFails, StepReturns, Acknowledged, AcknowledgeLost
  <1>16. CASE Stop \/ StopParked
    BY <1>16 DEF Stop, StopParked, Polling
  <1>17. CASE StopClose \/ ProcessCrash \/ MachineCrash
    BY <1>17 DEF StopClose, ProcessCrash, MachineCrash, Gone, PipelineReset
  <1>18. CASE Workload \/ BrokerAppends \/ BrokerCommits \/ BrokerFaults \/ UNCHANGED vars
    BY <1>18 DEF Workload, CommitVersion, BrokerAppends, BrokerCommits, BrokerFaults, others, vars
  <1>. QED BY <1>1, <1>2, <1>3, <1>4, <1>5, <1>6, <1>7, <1>8, <1>9, <1>10, <1>11, <1>12, <1>13,
              <1>14, <1>15, <1>16, <1>17, <1>18, Zenon
           DEF Next, Thread, Building, Producing, Committing, Acknowledging

\* The file keeps the position that is acknowledged, so a listener built from
\* the file, or still at its position, asks for what is retained.
LEMMA KeptStep ==
  ASSUME TypeOK, UnackedDelivered, FlagsInPlace, HandlesOpen, CursorDurable, CursorKept, [Next]_vars
  PROVE  CursorKept'
  <1>0. /\ position \in Int /\ minVersion \in Int /\ cursorFile \in Int
        /\ checkpointed => deliveredUnacked
    BY DEF TypeOK, ListenerTypeOK, CursorTypeOK, CursorDurable
  <1>. USE <1>0 DEF CursorKept, Goto, Raise, fdbVars, loopVars, pipelineVars, listenerVars, cursorVars
  <1>1. CASE Start \/ BuildProducer \/ InitTransactions
    BY <1>1 DEF Start, BuildProducer, InitTransactions, Bind
  <1>2. CASE BuildListener
    BY <1>2 DEF BuildListener, CreateConsumer, OpenAt, FlagsInPlace, NoBatchPoints
  <1>3. CASE Reconcile
    BY <1>3 DEF Reconcile, Release, FlagsInPlace, NoBatchPoints
  <1>4. CASE BuildFails
    BY <1>4 DEF BuildFails, BuildErrors, NoListener, FlagsInPlace, NoBatchPoints
  <1>5. CASE Looping
    BY <1>5 DEF Looping, RunStep, RunRebuild, RunRebuildSkipped, HandleError, PipelineReset, NoListener
  <1>6. CASE Stepping
    BY <1>6 DEF Stepping, StepFinishDelivery, PollEmpty, PollReply, PollUnserializable, PollFails,
                Polling, PositionTooOld, NextWatermarks, Deliver, FailDelivery
  <1>7. CASE Producing
    BY <1>7 DEF Producing, Begin, BeginFails, Produce, ProduceFails, ProduceDone, Flush, FlushFails
  <1>8. CASE Committing
    BY <1>8 DEF Committing, Commit, CommitRetriable, CommitAbortable, CommitFatal, CommitRefused,
                Abort, AbortFails
  <1>9. CASE Checkpoint
    BY <1>9 DEF Checkpoint, ReplaceCursor
  <1>10. CASE CheckpointFails \/ DirSyncFails
    BY <1>10 DEF CheckpointFails, DirSyncFails
  <1>11. CASE DirSync
    BY <1>11 DEF DirSync, SyncDirectory, CursorDurable
  <1>12. CASE Ack
    BY <1>12 DEF Ack, StepReturns, Acknowledged, Release
  <1>13. CASE AckFails
    BY <1>13 DEF AckFails, AcknowledgeLost, Release
  <1>14. CASE Stop \/ StopParked
    BY <1>14 DEF Stop, StopParked, Polling
  <1>15. CASE StopClose \/ ProcessCrash
    BY <1>15 DEF StopClose, ProcessCrash, Gone, PipelineReset, NoListener
  <1>16. CASE MachineCrash
    BY <1>16 DEF MachineCrash, Gone, PipelineReset, NoListener
  <1>17. CASE Workload
    BY <1>17 DEF Workload, CommitVersion
  <1>18. CASE BrokerAppends \/ BrokerCommits \/ BrokerFaults \/ UNCHANGED vars
    BY <1>18 DEF BrokerAppends, BrokerCommits, BrokerFaults, others, vars
  <1>. QED BY <1>1, <1>2, <1>3, <1>4, <1>5, <1>6, <1>7, <1>8, <1>9, <1>10, <1>11, <1>12, <1>13,
              <1>14, <1>15, <1>16, <1>17, <1>18, Zenon
           DEF Next, Thread, Building, Acknowledging

-----------------------------------------------------------------------------
(***************************************************************************)
(* The invariant, and the properties it gives.                             *)
(***************************************************************************)
\* A bridge that was never started has no handle, no batch and no cursor.
LEMMA LoopInvInit == Init => LoopInv
  BY DEF Init, ListenerInit, ProducerInit, LoopInv, RefusalHandled, HandlesOpen, CursorDurable,
         CursorKept, CursorInit, BatchPoints

\* Every step of the bridge, the broker or a crash keeps the handles in order.
LEMMA LoopInvStep ==
  ASSUME DeliveryInv, LoopInv, [Next]_vars
  PROVE  LoopInv'
  <1>1. /\ TypeOK /\ UnackedDelivered /\ FlagsInPlace
        /\ RefusalHandled /\ HandlesOpen /\ CursorDurable /\ CursorKept
    BY Zenon DEF DeliveryInv, LoopInv
  <1>2. RefusalHandled' /\ HandlesOpen' /\ CursorDurable' /\ CursorKept'
    BY <1>1, RefusalStep, HandlesStep, DurableStep, KeptStep, Zenon
  <1>. QED BY <1>2, Zenon DEF LoopInv

\* Every reachable state satisfies the first two parts of the inductive invariant.
THEOREM LoopInvariant == Spec => [](DeliveryInv /\ LoopInv)
  <1>1. Init => DeliveryInv /\ LoopInv
    BY DeliveryInvInit, LoopInvInit
  <1>2. DeliveryInv /\ LoopInv /\ [Next]_vars => DeliveryInv' /\ LoopInv'
    BY DeliveryInvStep, LoopInvStep
  <1>. QED BY <1>1, <1>2, PTL DEF Spec

\* step() never polls a listener that would refuse forever: the reply is
\* acknowledged, or run() replaced the listener first.
THEOREM NoRefusedPoll == Spec => []NeverPollsRefusing
  <1>1. DeliveryInv /\ LoopInv => NeverPollsRefusing
    BY DEF LoopInv, RefusalHandled, Delivering, NeverPollsRefusing, Polling, PollRefused
  <1>. QED BY <1>1, LoopInvariant, PTL

\* Nothing is begun, produced, flushed, committed or aborted on a producer
\* that was closed or dropped.
THEOREM ProducerStaysUsable == Spec => []ProducerUsable
  <1>1. DeliveryInv /\ LoopInv => ProducerUsable
    BY DEF LoopInv, HandlesOpen, BatchPoints, ProducerUsable
  <1>. QED BY <1>1, LoopInvariant, PTL

\* The acknowledgement of a step() releases only versions whose cursor a
\* machine crash cannot take back.
THEOREM AcknowledgedIsDurable == Spec => AckAfterSync
  <1>1. DeliveryInv /\ LoopInv /\ [Next]_vars =>
          [(UseCursorFile /\ DirFsyncSupported /\ pc = "ack")
             => minVersion' = minVersion \/ durableCursor + 1 >= minVersion']_vars
    <2>. SUFFICES ASSUME DeliveryInv, LoopInv, [Next]_vars, UseCursorFile, DirFsyncSupported, pc = "ack"
                  PROVE  minVersion' = minVersion \/ durableCursor + 1 >= minVersion'
      OBVIOUS
    <2>1. /\ durableCursor = position /\ position \in Int /\ records \in Seq(Record)
      BY DEF DeliveryInv, LoopInv, CursorDurable, TypeOK, ListenerTypeOK
    <2>2. ListenerStep
      BY <2>1, PartSteps
    <2>3. minVersion' = minVersion \/ Release
      BY <2>2 DEF ListenerStep, fdbVars, CommitVersion, Acknowledged, AcknowledgeLost
    <2>. QED BY <2>1, <2>3 DEF Release
  <1>. QED BY <1>1, LoopInvariant, PTL DEF Spec, AckAfterSync

\* What a step can do while a commit is in doubt.
LEMMA DoubtStep ==
  ASSUME TypeOK, FlagsInPlace, HandlesOpen, [Next]_vars, commitOutstanding, pc' # "down"
  PROVE  /\ producer' = "open" /\ Len(queue') <= Len(queue)
         /\ listener' = "open" /\ position' = position
  <1>0. /\ producer = "open" /\ listener = "open"
        /\ Len(queue) \in Nat /\ Len(<< >>) = 0
        /\ queue # << >> => Len(Tail(queue)) <= Len(queue)
    BY DEF HandlesOpen, TypeOK, ProducerTypeOK
  <1>. USE <1>0 DEF FlagsInPlace, NoBatchPoints, CommitPoints, Goto, Raise,
                    listenerVars, producerVars, clientVars
  <1>1. CASE Start \/ Building
    BY <1>1 DEF Start, Building, BuildListener, Reconcile, BuildProducer, InitTransactions,
                BuildFails, BuildErrors
  <1>2. CASE Looping
    BY <1>2 DEF Looping, RunStep, RunRebuild, RunRebuildSkipped, HandleError
  <1>3. CASE Stepping
    BY <1>3 DEF Stepping, StepFinishDelivery, PollEmpty, PollReply, PollUnserializable, PollFails,
                Polling
  <1>4. CASE Producing
    BY <1>4 DEF Producing, Begin, BeginFails, Produce, ProduceFails, ProduceDone, Flush, FlushFails
  <1>5. CASE Commit \/ CommitRetriable
    <2>1. UNCHANGED <<producer, queue, listenerVars>>
      BY <1>5, Zenon DEF Commit, CommitTxn, CommitRetriable, CommitUnanswered
    <2>. QED BY <2>1
  <1>6. CASE CommitAbortable \/ CommitFatal \/ CommitRefused
    BY <1>6 DEF CommitAbortable, CommitFatal, CommitRefused, SetFatal
  <1>7. CASE Abort \/ AbortFails
    BY <1>7 DEF Abort, AbortFails
  <1>8. CASE Acknowledging
    BY <1>8 DEF Acknowledging, Checkpoint, CheckpointFails, DirSync, DirSyncFails, Ack, AckFails
  <1>9. CASE Stop \/ StopParked
    BY <1>9 DEF Stop, StopParked, Polling
  <1>10. CASE StopClose \/ ProcessCrash \/ MachineCrash
    BY <1>10 DEF StopClose, ProcessCrash, MachineCrash, Gone
  <1>11. CASE Workload \/ UNCHANGED vars
    BY <1>11 DEF Workload, CommitVersion, vars
  <1>12. CASE BrokerAppends \/ BrokerCommits
    BY <1>12 DEF BrokerAppends, BrokerAppend, BrokerCommits, BrokerCompleteCommit, others
  <1>13. CASE BrokerFaults
    <2>1. producer' = producer /\ queue' \in {queue, << >>}
      BY <1>13, Zenon DEF BrokerFaults, BrokerFail, BrokerTimeoutAbort, ErrorCb, clientVars
    <2>. QED BY <1>13, <2>1 DEF BrokerFaults, others
  <1>. QED BY <1>1, <1>2, <1>3, <1>4, <1>5, <1>6, <1>7, <1>8, <1>9, <1>10, <1>11, <1>12, <1>13, Zenon
           DEF Next, Thread, Committing

\* While a commit is in doubt run() keeps the producer that can resolve it, the
\* listener that holds its reply, and sends or polls nothing.
THEOREM DoubtIsKept == Spec => CommitInDoubtKept
  <1>1. DeliveryInv /\ LoopInv /\ [Next]_vars =>
          [(commitOutstanding /\ caller = "run" /\ pc' # "down")
             => /\ producer' = "open" /\ Len(queue') <= Len(queue)
                /\ listener' = "open" /\ position' = position]_vars
    BY DoubtStep DEF DeliveryInv, LoopInv
  <1>. QED BY <1>1, LoopInvariant, PTL DEF Spec, CommitInDoubtKept

\* What a step can do to the released versions and to the cursor file.
LEMMA ReleaseShape ==
  ASSUME TypeOK, CursorKept, HandlesOpen, UseCursorFile, [Next]_vars
  PROVE  \/ UNCHANGED <<minVersion, cursorFile>>
         \/ cursorFile = position /\ Release /\ UNCHANGED cursorFile
         \/ cursorFile' = position /\ listener = "open" /\ UNCHANGED minVersion
         \/ cursorFile' = durableCursor /\ UNCHANGED minVersion
  <1>. USE DEF fdbVars, cursorVars
  <1>1. CASE Start \/ BuildListener \/ BuildProducer \/ InitTransactions
    BY <1>1 DEF Start, BuildListener, BuildProducer, InitTransactions
  <1>2. CASE Reconcile \/ BuildFails
    BY <1>2 DEF Reconcile, BuildFails, CursorKept
  <1>3. CASE Looping \/ Stepping \/ Producing \/ Committing
    <2>1. UNCHANGED <<fdbVars, cursorVars>>
      BY <1>3, Zenon DEF Looping, RunStep, RunRebuild, RunRebuildSkipped, HandleError, Stepping,
         StepFinishDelivery, PollEmpty, PollReply, PollUnserializable, PollFails, Producing, Begin,
         BeginFails, Produce, ProduceFails, ProduceDone, Flush, FlushFails, Committing, Commit,
         CommitRetriable, CommitAbortable, CommitFatal, CommitRefused, Abort, AbortFails
    <2>. QED BY <2>1
  <1>4. CASE Checkpoint
    BY <1>4 DEF Checkpoint, ReplaceCursor, HandlesOpen, BatchPoints
  <1>5. CASE CheckpointFails \/ DirSync \/ DirSyncFails
    BY <1>5 DEF CheckpointFails, DirSync, SyncDirectory, DirSyncFails
  <1>6. CASE Ack \/ AckFails
    BY <1>6 DEF Ack, Acknowledged, AckFails, AcknowledgeLost, CursorKept
  <1>7. CASE Stop \/ StopParked \/ StopClose \/ ProcessCrash
    BY <1>7 DEF Stop, StopParked, StopClose, ProcessCrash
  <1>8. CASE MachineCrash
    BY <1>8 DEF MachineCrash, CrashDisk
  <1>9. CASE Workload
    BY <1>9 DEF Workload, CommitVersion
  <1>10. CASE BrokerAppends \/ BrokerCommits \/ BrokerFaults \/ UNCHANGED vars
    BY <1>10 DEF BrokerAppends, BrokerCommits, BrokerFaults, others, vars
  <1>. QED BY <1>1, <1>2, <1>3, <1>4, <1>5, <1>6, <1>7, <1>8, <1>9, <1>10, Zenon
           DEF Next, Thread, Building, Acknowledging

\* A bridge asks for versions FoundationDB no longer keeps only after a crash
\* took the cursor file back below them.
THEOREM NothingReleasedIsAskedFor == Spec => TooOldByCrashOnly
  <1>1. DeliveryInv /\ LoopInv => (Polling /\ PositionTooOld => UseCursorFile /\ cursorFile + 1 < minVersion)
    BY DEF DeliveryInv, TypeOK, ListenerTypeOK, LoopInv, CursorKept, HandlesOpen, Polling, PositionTooOld
  <1>2. DeliveryInv /\ LoopInv /\ [Next]_vars =>
          [UseCursorFile /\ cursorFile + 1 >= minVersion
             => cursorFile' + 1 >= minVersion' \/ cursorFile' < cursorFile]_vars
    <2>. SUFFICES ASSUME DeliveryInv, LoopInv, [Next]_vars, UseCursorFile, cursorFile + 1 >= minVersion
                  PROVE  cursorFile' + 1 >= minVersion' \/ cursorFile' < cursorFile
      OBVIOUS
    <2>1. TypeOK /\ CursorKept /\ HandlesOpen
      BY Zenon DEF DeliveryInv, LoopInv
    <2>2. /\ position \in Int /\ minVersion \in Int /\ cursorFile \in Int /\ durableCursor \in Int
          /\ listener = "open" => position + 1 >= minVersion
      BY <2>1 DEF TypeOK, ListenerTypeOK, CursorTypeOK, CursorKept
    <2>. QED BY <2>1, <2>2, ReleaseShape DEF Release
  <1>. QED BY <1>1, <1>2, LoopInvariant, PTL DEF Spec, TooOldByCrashOnly
=============================================================================
