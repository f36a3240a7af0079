------------------------------- MODULE Bridge -------------------------------
(***************************************************************************)
(* BridgePipeline.step() and the daemon around it: start(), run(), the     *)
(* rebuild of a broken pipeline, stop(), and crashes between any two       *)
(* steps.  One thread drives everything; pc says where it is.  The broker, *)
(* the coordinator and the committing clients of the database move         *)
(* between its steps.                                                      *)
(*                                                                         *)
(*   step():   poll -> [begin] -> produce* -> flush / commit               *)
(*                  -> checkpoint -> dirsync -> ack                        *)
(*                                                                         *)
(* An exception is recorded in exc by kind; the kinds are those run()      *)
(* tells apart.  Each injected failure, timeout and crash is paid from the *)
(* budget MaxFaults; a failure the state makes inevitable is free.         *)
(***************************************************************************)
EXTENDS CDCListener, MutationProducer, CursorFile

CONSTANTS
  CommitRetries,   \* attempts at a retriable commit within one step()
  AckRetries,      \* attempts at a retryable acknowledgement within one step()
  MaxFaults        \* injected failures and crashes; bounds the model

ASSUME BridgeAssumption ==
  /\ CommitRetries \in Nat \ {0}
  /\ AckRetries \in Nat \ {0}
  /\ MaxFaults \in Nat

VARIABLES
  commitOutstanding,  \* pipeline: _commit_outstanding
  deliveredUnacked,   \* pipeline: _delivered_unacked
  checkpointed,       \* pipeline: _checkpointed
  attempt,            \* failed attempts of the running retry loop
  records,            \* polled records step() has not yet handed to produce()
  pipelineBound,      \* Bridge._pipeline is not None
  rebuildPending,     \* run(): rebuild_pending
  caller,             \* who drives the thread: "start", "run" or "stop"
  pc,                 \* where the thread is
  exc,                \* the exception being handled
  faults              \* failures injected so far

pipelineVars == <<commitOutstanding, deliveredUnacked, checkpointed, attempt, records>>
loopVars == <<pipelineBound, rebuildPending, caller>>
vars == <<fdbVars, listenerVars, clientVars, brokerVars, cursorVars,
          pipelineVars, loopVars, pc, exc, faults>>

Points == {"down", "listener", "reconcile", "producer", "init_txn", "loop", "step",
           "begin", "produce", "flush", "commit", "abort", "checkpoint", "dirsync",
           "ack", "error", "close", "halted"}

\* "permanent" is the ValueError of a cursor or a cursor file that is invalid.
Exceptions == {"none", "retryable", "terminal", "cdc", "serialization", "kafka",
               "kafka_fatal", "buffer", "timeout", "runtime", "os", "permanent"}

TypeOK ==
  /\ ListenerTypeOK
  /\ ProducerTypeOK
  /\ CursorTypeOK
  /\ commitOutstanding \in BOOLEAN
  /\ deliveredUnacked \in BOOLEAN
  /\ checkpointed \in BOOLEAN
  /\ attempt \in Nat
  /\ records \in Seq(Record)
  /\ pipelineBound \in BOOLEAN
  /\ rebuildPending \in BOOLEAN
  /\ caller \in {"start", "run", "stop"}
  /\ pc \in Points
  /\ exc \in Exceptions
  /\ faults \in Nat

PipelineReset ==
  /\ commitOutstanding' = FALSE
  /\ deliveredUnacked' = FALSE
  /\ checkpointed' = FALSE
  /\ attempt' = 0
  /\ records' = << >>

Init ==
  /\ ListenerInit
  /\ ProducerInit
  /\ CursorInit
  /\ commitOutstanding = FALSE
  /\ deliveredUnacked = FALSE
  /\ checkpointed = FALSE
  /\ attempt = 0
  /\ records = << >>
  /\ pipelineBound = FALSE
  /\ rebuildPending = FALSE
  /\ caller = "start"
  /\ pc = "down"
  /\ exc = "none"
  /\ faults = 0

-----------------------------------------------------------------------------
(***************************************************************************)
(* Small steps shared by the actions.                                      *)
(***************************************************************************)
Fault == faults < MaxFaults /\ faults' = faults + 1

\* A failure the state forces is free, one that is injected costs a fault.
Pays(forced) == IF forced THEN UNCHANGED faults ELSE Fault

Goto(p) == pc' = p /\ UNCHANGED exc

\* An exception leaves step(): run() handles it; _finish_outstanding_commit()
\* logs it and goes on to close the handles.
Raise(e) ==
  /\ exc' = IF caller = "stop" THEN "none" ELSE e
  /\ pc' = IF caller = "stop" THEN "close" ELSE "error"

\* step() returns.
StepReturns ==
  /\ pc' = IF caller = "stop" THEN "close" ELSE "loop"
  /\ UNCHANGED exc

-----------------------------------------------------------------------------
(***************************************************************************)
(* start() and _build_pipeline().                                          *)
(***************************************************************************)
\* A new process creates a Bridge and calls start().
Start ==
  /\ pc = "down"
  /\ caller' = "start"
  /\ Goto("listener")
  /\ UNCHANGED <<fdbVars, listenerVars, producerVars, cursorVars, pipelineVars,
                 pipelineBound, rebuildPending, faults>>

\* The cursor file is loaded and the listener started: fresh when there is no
\* cursor, else resumed, with the acknowledgement still to be restored.
BuildListener ==
  /\ pc = "listener"
  /\ IF cursorFile = 0
       THEN CreateConsumer /\ Goto("producer")
       ELSE OpenAt(cursorFile) /\ Goto("reconcile")
  /\ UNCHANGED <<fdbVars, producerVars, cursorVars, pipelineVars, loopVars, faults>>

\* _reconcile_resumed_consumer(): the cluster has caught up with the cursor,
\* and the resumed position is acknowledged.
Reconcile ==
  /\ pc = "reconcile"
  /\ Release
  /\ Goto("producer")
  /\ UNCHANGED <<committed, listenerVars, producerVars, cursorVars, pipelineVars, loopVars, faults>>

\* The new pipeline is bound.  start() returns and run() begins; a rebuild
\* goes on to step() in the same iteration of the loop.
Bind ==
  /\ pipelineBound' = TRUE
  /\ rebuildPending' = FALSE
  /\ caller' = "run"
  /\ Goto(IF caller = "start" THEN "loop" ELSE "step")

BuildProducer ==
  /\ pc = "producer"
  /\ NewProducer
  /\ IF Transactional THEN Goto("init_txn") /\ UNCHANGED loopVars ELSE Bind
  /\ UNCHANGED <<fdbVars, listenerVars, cursorVars, pipelineVars, faults>>

InitTransactions ==
  /\ pc = "init_txn"
  /\ InitializeTxn
  /\ Bind
  /\ UNCHANGED <<fdbVars, listenerVars, cursorVars, pipelineVars, faults>>

\* What can go wrong at each point of the build.
BuildErrors ==
  {e \in Exceptions :
     \/ pc = "listener" /\ e \in {"cdc", "os", "permanent"}
     \/ pc = "reconcile" /\ e \in {"retryable", "terminal", "cdc"}
     \/ pc = "producer" /\ e = "kafka"
     \/ pc = "init_txn" /\ e \in {"kafka", "kafka_fatal"}}

\* A component could not be built: what was built is closed and unset.  A
\* failed start() is the caller's; a failed rebuild is run()'s.  An
\* acknowledgement that failed in the reconcile may have been applied.
BuildFails ==
  /\ \E e \in BuildErrors :
       /\ exc' = IF caller = "start" THEN "none" ELSE e
       /\ pc' = IF caller = "start" THEN "down" ELSE "error"
  /\ Fault
  /\ IF pc = "reconcile" THEN Release \/ UNCHANGED minVersion ELSE UNCHANGED minVersion
  /\ NoListener
  /\ DropProducer
  /\ UNCHANGED <<committed, cursorVars, pipelineVars, loopVars>>

-----------------------------------------------------------------------------
(***************************************************************************)
(* run(): one iteration of the loop, and what it does with an exception.   *)
(***************************************************************************)
NoRebuildDue == pipelineBound /\ ~rebuildPending

RunStep ==
  /\ pc = "loop" /\ NoRebuildDue
  /\ Goto("step")
  /\ UNCHANGED <<fdbVars, listenerVars, producerVars, cursorVars, pipelineVars, loopVars, faults>>

\* _rebuild_pipeline(): listener and producer are closed and dropped, then
\* everything is built again from the last checkpoint.
RunRebuild ==
  /\ pc = "loop" /\ ~NoRebuildDue /\ ~commitOutstanding
  /\ pipelineBound' = FALSE
  /\ NoListener
  /\ DropProducer
  /\ PipelineReset
  /\ Goto("listener")
  /\ UNCHANGED <<fdbVars, cursorVars, rebuildPending, caller, faults>>

\* Mutant: the components are closed before the outstanding commit is looked at.
RunRebuildClosesFirst ==
  /\ pc = "loop" /\ ~NoRebuildDue /\ commitOutstanding
  /\ rebuildPending' = FALSE
  /\ NoListener
  /\ DropProducer
  /\ Goto("step")
  /\ UNCHANGED <<fdbVars, cursorVars, pipelineVars,
                 pipelineBound, caller, faults>>

\* _rebuild_pipeline() while a commit is outstanding: nothing is rebuilt, the
\* step that follows retries the commit.
RunRebuildSkipped ==
  /\ pc = "loop" /\ ~NoRebuildDue /\ commitOutstanding
  /\ rebuildPending' = FALSE
  /\ Goto("step")
  /\ UNCHANGED <<fdbVars, listenerVars, producerVars, cursorVars, pipelineVars,
                 pipelineBound, caller, faults>>

\* Mutant: a closed component is not noticed.
NeedsRebuildLessClosed(e) ==
  \/ fatal
  \/ deliveryFailed
  \/ awaitingAck /\ ~commitOutstanding /\ e \in {"kafka", "buffer"}

\* Mutant: a reply that failed to serialize is not noticed.
NeedsRebuildLessFailed(e) ==
  \/ producer # "open" \/ listener # "open" \/ ~pipelineBound
  \/ fatal
  \/ awaitingAck /\ ~commitOutstanding /\ e \in {"kafka", "buffer"}

\* Mutant: an aborted batch is not noticed.
NeedsRebuildLessAborted(e) ==
  \/ producer # "open" \/ listener # "open" \/ ~pipelineBound
  \/ fatal
  \/ deliveryFailed

\* _needs_rebuild(): only a resume from the checkpoint clears this state.
NeedsRebuild(e) ==
  \/ producer # "open" \/ listener # "open" \/ ~pipelineBound
  \/ fatal
  \/ deliveryFailed
  \/ awaitingAck /\ ~commitOutstanding /\ e \in {"kafka", "buffer"}

HandleError ==
  /\ pc = "error"
  /\ IF exc \in {"terminal", "kafka_fatal", "permanent"}
       THEN pc' = "halted" /\ UNCHANGED rebuildPending
       ELSE pc' = "loop" /\ rebuildPending' = (rebuildPending \/ NeedsRebuild(exc))
  /\ exc' = "none"
  /\ UNCHANGED <<fdbVars, listenerVars, producerVars, cursorVars, pipelineVars,
                 pipelineBound, caller, faults>>

-----------------------------------------------------------------------------
(***************************************************************************)
(* step(): poll, or finish the delivery already in progress.               *)
(***************************************************************************)
Polling == pc = "step" /\ ~commitOutstanding /\ ~deliveredUnacked

StepFinishDelivery ==
  /\ pc = "step" /\ (commitOutstanding \/ deliveredUnacked)
  /\ Goto(IF commitOutstanding THEN "commit" ELSE "checkpoint")
  /\ attempt' = 0
  /\ UNCHANGED <<fdbVars, listenerVars, producerVars, cursorVars, commitOutstanding,
                 deliveredUnacked, checkpointed, records, loopVars, faults>>

\* The stream has nothing and never had: the reply carries no watermark.
PollEmpty ==
  /\ Polling /\ ~PollRefused /\ committed = 0 /\ position = 0
  /\ Goto("loop")
  /\ UNCHANGED <<fdbVars, listenerVars, producerVars, cursorVars, pipelineVars, loopVars, faults>>

PollReply ==
  /\ Polling /\ ~PollRefused /\ ~PositionTooOld
  /\ \E hi \in NextWatermarks :
       /\ ~Unserializable(hi)
       /\ Deliver(hi)
       /\ records' = Reply(position, hi)
  /\ Goto(IF Transactional THEN "begin" ELSE "produce")
  /\ UNCHANGED <<fdbVars, producerVars, cursorVars, commitOutstanding, deliveredUnacked,
                 checkpointed, attempt, loopVars, faults>>

\* Mutant: the reply that does not fit is skipped.
PollSkipsUnserializable ==
  /\ Polling /\ ~PollRefused /\ ~PositionTooOld
  /\ \E hi \in NextWatermarks : Unserializable(hi) /\ Deliver(hi)
  /\ deliveredUnacked' = TRUE
  /\ Goto("checkpoint")
  /\ UNCHANGED <<fdbVars, producerVars, cursorVars, commitOutstanding, checkpointed, attempt,
                 records, loopVars, faults>>

\* A mutation of the reply fits no record: SerializationError.
PollUnserializable ==
  /\ Polling /\ ~PollRefused /\ ~PositionTooOld
  /\ \E hi \in NextWatermarks : Unserializable(hi) /\ FailDelivery(hi)
  /\ Raise("serialization")
  /\ UNCHANGED <<fdbVars, producerVars, cursorVars, pipelineVars, loopVars, faults>>

\* consume() raises: because it must, or because the cluster is overloaded,
\* the stream is gone, or the connection failed.
ForcedPollError ==
  IF PollRefused THEN {"cdc"}
  ELSE IF PositionTooOld THEN {"terminal"}
  ELSE IF PoisonPill THEN {"retryable"} ELSE {}

PollFails ==
  /\ Polling
  /\ \E e \in {"retryable", "terminal", "cdc"} :
       /\ ForcedPollError # {} => e \in ForcedPollError
       /\ Raise(e)
  /\ Pays(ForcedPollError # {})
  /\ UNCHANGED <<fdbVars, listenerVars, producerVars, cursorVars, pipelineVars, loopVars>>

-----------------------------------------------------------------------------
(***************************************************************************)
(* step(): hand the records to Kafka.                                      *)
(***************************************************************************)
Begin ==
  /\ pc = "begin" /\ ~fatal
  /\ BeginTxn
  /\ Goto("produce")
  /\ UNCHANGED <<fdbVars, listenerVars, cursorVars, pipelineVars, loopVars, faults>>

\* begin_transaction() raises outside the try: nothing is aborted.
BeginFails ==
  /\ pc = "begin"
  /\ \E e \in (IF fatal THEN {"runtime"} ELSE {"kafka", "kafka_fatal"}) :
       /\ Raise(e)
       /\ IF e = "kafka_fatal" THEN SetFatal ELSE UNCHANGED producerVars
  /\ Pays(fatal)
  /\ records' = << >>
  /\ UNCHANGED <<fdbVars, listenerVars, cursorVars, commitOutstanding, deliveredUnacked,
                 checkpointed, attempt, loopVars>>

\* A sticky delivery error refuses every later record of an idempotent producer.
StickyError == ~Transactional /\ deliveryErrors

Produce ==
  /\ pc = "produce" /\ records # << >>
  /\ ~fatal /\ ~StickyError
  /\ Accept(Head(records))
  /\ records' = Tail(records)
  /\ Goto("produce")
  /\ UNCHANGED <<fdbVars, listenerVars, cursorVars, commitOutstanding, deliveredUnacked,
                 checkpointed, attempt, loopVars, faults>>

\* produce() raises: the queue is full, an earlier record failed, or the
\* producer is fatal.  The idempotent producer is closed.  The transaction is
\* aborted, unless the error is fatal or a RuntimeError, which leave it open.
ProduceErrors ==
  IF fatal THEN {"runtime"} ELSE IF StickyError THEN {"kafka"}
  ELSE {"buffer", "kafka", "kafka_fatal"}

\* Mutant: a BufferError loses one record and the batch goes on.
ProduceSkipsRecord ==
  /\ pc = "produce" /\ records # << >>
  /\ Goto("produce")
  /\ Fault
  /\ records' = Tail(records)
  /\ UNCHANGED <<fdbVars, listenerVars, producerVars, cursorVars, commitOutstanding, deliveredUnacked,
                 checkpointed, attempt, loopVars>>

ProduceFails ==
  /\ pc = "produce" /\ records # << >>
  /\ \E e \in ProduceErrors :
       \/ ~Transactional /\ CloseProducer /\ Raise(e)
       \/ Transactional /\ e = "runtime" /\ UNCHANGED producerVars /\ Raise(e)
       \/ Transactional /\ e = "kafka_fatal" /\ SetFatal /\ Raise(e)
       \/ /\ Transactional /\ e \in {"buffer", "kafka"}
          /\ UNCHANGED producerVars
          /\ exc' = e /\ pc' = "abort"
  /\ Pays(fatal \/ StickyError)
  /\ records' = << >>
  /\ UNCHANGED <<fdbVars, listenerVars, cursorVars, commitOutstanding, deliveredUnacked,
                 checkpointed, attempt, loopVars>>

\* Every record was accepted: the batch waits for its commit or its flush.
ProduceDone ==
  /\ pc = "produce" /\ records = << >>
  /\ commitOutstanding' = Transactional
  /\ attempt' = 0
  /\ IF ~Transactional /\ fatal
       THEN CloseProducer /\ Raise("runtime")
       ELSE UNCHANGED producerVars /\ Goto(IF Transactional THEN "commit" ELSE "flush")
  /\ UNCHANGED <<fdbVars, listenerVars, cursorVars, deliveredUnacked, checkpointed,
                 records, loopVars, faults>>

\* Mutant: only the queue is looked at, not the delivery errors.
FlushUnchecked ==
  /\ pc = "flush" /\ queue = << >>
  /\ deliveredUnacked' = TRUE
  /\ Goto("checkpoint")
  /\ UNCHANGED <<fdbVars, listenerVars, producerVars, cursorVars, commitOutstanding,
                 checkpointed, attempt, records, loopVars, faults>>

\* flush_or_raise() returns: the queue is empty and nothing failed.
Flush ==
  /\ pc = "flush" /\ queue = << >> /\ ~deliveryErrors
  /\ deliveredUnacked' = TRUE
  /\ Goto("checkpoint")
  /\ UNCHANGED <<fdbVars, listenerVars, producerVars, cursorVars, commitOutstanding,
                 checkpointed, attempt, records, loopVars, faults>>

\* Mutant: what did not arrive in time is produced again.
FlushFailsResends ==
  /\ pc = "flush" /\ (deliveryErrors \/ queue # << >>)
  /\ Goto("produce")
  /\ records' = queue
  /\ Pays(deliveryErrors)
  /\ UNCHANGED <<fdbVars, listenerVars, producerVars, cursorVars, commitOutstanding, deliveredUnacked,
                 checkpointed, attempt, loopVars>>

FlushFails ==
  /\ pc = "flush" /\ (deliveryErrors \/ queue # << >>)
  /\ CloseProducer
  /\ Raise(IF deliveryErrors THEN "kafka" ELSE "timeout")
  /\ Pays(deliveryErrors)
  /\ UNCHANGED <<fdbVars, listenerVars, cursorVars, pipelineVars, loopVars>>

-----------------------------------------------------------------------------
(***************************************************************************)
(* _commit_with_retry() and _abort_and_raise().                            *)
(***************************************************************************)
Commit ==
  /\ pc = "commit" /\ ~fatal
  /\ CommitTxn
  /\ commitOutstanding' = FALSE
  /\ deliveredUnacked' = TRUE
  /\ attempt' = 0
  /\ Goto("checkpoint")
  /\ UNCHANGED <<fdbVars, listenerVars, cursorVars, checkpointed, records, loopVars, faults>>

\* Mutant: what is still queued is produced again before the next attempt.
CommitRetriableResends ==
  /\ pc = "commit" /\ ~fatal
  /\ CommitUnanswered
  /\ IF attempt + 1 < CommitRetries
       THEN attempt' = attempt + 1 /\ Goto("produce") /\ records' = queue
       ELSE attempt' = 0 /\ Raise("kafka") /\ UNCHANGED records
  /\ Fault
  /\ UNCHANGED <<fdbVars, listenerVars, cursorVars, commitOutstanding, deliveredUnacked,
                 checkpointed, loopVars>>

\* A retriable error: try again, or leave the transaction open and raise.
CommitRetriable ==
  /\ pc = "commit" /\ ~fatal
  /\ CommitUnanswered
  /\ IF attempt + 1 < CommitRetries
       THEN attempt' = attempt + 1 /\ Goto("commit")
       ELSE attempt' = 0 /\ Raise("kafka")
  /\ Fault
  /\ UNCHANGED <<fdbVars, listenerVars, cursorVars, commitOutstanding, deliveredUnacked,
                 checkpointed, records, loopVars>>

\* Mutant: the dead transaction is taken for a committed one.
CommitAbortIgnored ==
  /\ pc = "commit" /\ ~fatal /\ txnState = "open"
  /\ commitOutstanding' = FALSE
  /\ deliveredUnacked' = TRUE
  /\ attempt' = 0
  /\ Goto("checkpoint")
  /\ Pays(deliveryErrors)
  /\ UNCHANGED <<fdbVars, listenerVars, producerVars, cursorVars,
                 checkpointed, records, loopVars>>

\* An error that requires an abort: a record of the transaction failed, or the
\* coordinator says so.
CommitAbortable ==
  /\ pc = "commit" /\ ~fatal /\ txnState = "open"
  /\ commitOutstanding' = FALSE
  /\ attempt' = 0
  /\ exc' = "kafka" /\ pc' = "abort"
  /\ Pays(deliveryErrors)
  /\ UNCHANGED <<fdbVars, listenerVars, producerVars, cursorVars, deliveredUnacked,
                 checkpointed, records, loopVars>>

\* A fatal error: the transaction is gone, the producer was fenced.
CommitFatal ==
  /\ pc = "commit" /\ ~fatal
  /\ SetFatal
  /\ commitOutstanding' = FALSE
  /\ attempt' = 0
  /\ Raise("kafka_fatal")
  /\ Pays(txnState = "aborted")
  /\ UNCHANGED <<fdbVars, listenerVars, cursorVars, deliveredUnacked, checkpointed,
                 records, loopVars>>

\* Mutant: the commit of a fatal producer stays outstanding.
CommitRefusedKeeps ==
  /\ pc = "commit" /\ fatal
  /\ attempt' = 0
  /\ Raise("runtime")
  /\ UNCHANGED <<fdbVars, listenerVars, producerVars, cursorVars, commitOutstanding, deliveredUnacked,
                 checkpointed, records, loopVars, faults>>

\* _error_cb marked the producer fatal between two attempts: RuntimeError.
CommitRefused ==
  /\ pc = "commit" /\ fatal
  /\ commitOutstanding' = FALSE
  /\ attempt' = 0
  /\ Raise("runtime")
  /\ UNCHANGED <<fdbVars, listenerVars, producerVars, cursorVars, deliveredUnacked,
                 checkpointed, records, loopVars, faults>>

\* The error that led to the abort is raised once the abort is done.
Abort ==
  /\ pc = "abort" /\ ~fatal
  /\ AbortTxn
  /\ Raise(exc)
  /\ UNCHANGED <<fdbVars, listenerVars, cursorVars, pipelineVars, loopVars, faults>>

\* The abort fails: the producer is fatal and the abort's error is raised.  An
\* abort is refused with a RuntimeError when the producer already is fatal.
AbortFails ==
  /\ pc = "abort"
  /\ \E e \in (IF fatal THEN {"runtime"} ELSE {"kafka", "kafka_fatal"}) : Raise(e)
  /\ SetFatal
  /\ Pays(fatal)
  /\ UNCHANGED <<fdbVars, listenerVars, cursorVars, pipelineVars, loopVars>>

-----------------------------------------------------------------------------
(***************************************************************************)
(* _checkpoint_and_acknowledge().                                          *)
(***************************************************************************)
\* The position is checkpointed unless an earlier step() of this batch did it.
Checkpoint ==
  /\ pc = "checkpoint"
  /\ IF UseCursorFile /\ ~checkpointed
       THEN ReplaceCursor(position) /\ Goto("dirsync") /\ UNCHANGED checkpointed
       ELSE checkpointed' = TRUE /\ Goto("ack") /\ UNCHANGED cursorVars
  /\ UNCHANGED <<fdbVars, listenerVars, producerVars, commitOutstanding, deliveredUnacked,
                 attempt, records, loopVars, faults>>

\* get_position() fails; or, when there is a file to write, the position is no
\* cursor, or writing, syncing or renaming the temporary file fails.
CheckpointErrors == {"cdc"} \cup IF UseCursorFile THEN {"permanent", "os"} ELSE {}

\* Mutant: the batch is acknowledged although its cursor was not saved.
CheckpointFailureIgnored ==
  /\ pc = "checkpoint" /\ ~checkpointed
  /\ Goto("ack")
  /\ Fault
  /\ UNCHANGED <<fdbVars, listenerVars, producerVars, cursorVars, pipelineVars, loopVars>>

CheckpointFails ==
  /\ pc = "checkpoint" /\ ~checkpointed
  /\ \E e \in CheckpointErrors : Raise(e)
  /\ Fault
  /\ UNCHANGED <<fdbVars, listenerVars, producerVars, cursorVars, pipelineVars, loopVars>>

DirSync ==
  /\ pc = "dirsync"
  /\ SyncDirectory
  /\ checkpointed' = TRUE
  /\ Goto("ack")
  /\ UNCHANGED <<fdbVars, listenerVars, producerVars, commitOutstanding, deliveredUnacked,
                 attempt, records, loopVars, faults>>

\* Mutant: every error of the directory fsync is tolerated.
DirSyncFailureIgnored ==
  /\ pc = "dirsync"
  /\ checkpointed' = TRUE
  /\ Goto("ack")
  /\ Fault
  /\ UNCHANGED <<fdbVars, listenerVars, producerVars, cursorVars, commitOutstanding, deliveredUnacked,
                 attempt, records, loopVars>>

DirSyncFails ==
  /\ pc = "dirsync"
  /\ Raise("os")
  /\ Fault
  /\ UNCHANGED <<fdbVars, listenerVars, producerVars, cursorVars, pipelineVars, loopVars>>

Ack ==
  /\ pc = "ack"
  /\ Acknowledged
  /\ deliveredUnacked' = FALSE
  /\ checkpointed' = FALSE
  /\ attempt' = 0
  /\ StepReturns
  /\ UNCHANGED <<producerVars, cursorVars, commitOutstanding, records, loopVars, faults>>

\* acknowledge() fails: only CDCRetryableError is tried again.
AckFails ==
  /\ pc = "ack"
  /\ AcknowledgeLost
  /\ \/ attempt + 1 < AckRetries /\ attempt' = attempt + 1 /\ Goto("ack")
     \/ attempt + 1 >= AckRetries /\ attempt' = 0 /\ Raise("retryable")
     \/ \E e \in {"terminal", "cdc"} : attempt' = 0 /\ Raise(e)
  /\ Fault
  /\ UNCHANGED <<producerVars, cursorVars, commitOutstanding, deliveredUnacked,
                 checkpointed, records, loopVars>>

-----------------------------------------------------------------------------
(***************************************************************************)
(* stop(), with the run loop at rest, and crashes.                         *)
(***************************************************************************)
\* stop() takes the step lock between two iterations, or after run() raised.
\* It retries an outstanding commit, then closes everything.
Stop ==
  /\ pc \in {"loop", "halted"}
  /\ caller' = "stop"
  /\ Goto(IF commitOutstanding THEN "step" ELSE "close")
  /\ UNCHANGED <<fdbVars, listenerVars, producerVars, cursorVars, pipelineVars,
                 pipelineBound, rebuildPending, faults>>

\* The step is parked in consume(): stop() closes the listener, consume()
\* raises, and run() ends because shutdown was requested.
StopParked ==
  /\ Polling /\ ~PollRefused /\ caller = "run" /\ position = committed
  /\ listener' = "closed"
  /\ caller' = "stop"
  /\ Goto("close")
  /\ UNCHANGED <<fdbVars, awaitingAck, deliveryFailed, position, producerVars, cursorVars,
                 pipelineVars, pipelineBound, rebuildPending, faults>>

\* What a Bridge leaves behind when it is stopped or dies.
Gone ==
  /\ NoListener
  /\ PipelineReset
  /\ pipelineBound' = FALSE
  /\ rebuildPending' = FALSE
  /\ caller' = "start"
  /\ pc' = "down"
  /\ exc' = "none"

StopClose ==
  /\ pc = "close"
  /\ Gone
  /\ DropProducer
  /\ UNCHANGED <<fdbVars, cursorVars, faults>>

ProducerDies ==
  /\ IF producer = "open" THEN LoseQueue ELSE UNCHANGED brokerVars
  /\ ClientGone("none") /\ fatal' = FALSE

ProcessCrash ==
  /\ pc # "down"
  /\ Fault
  /\ Gone
  /\ ProducerDies
  /\ UNCHANGED <<fdbVars, cursorVars>>

MachineCrash ==
  /\ UseCursorFile
  /\ Fault
  /\ Gone
  /\ ProducerDies
  /\ CrashDisk
  /\ UNCHANGED fdbVars

-----------------------------------------------------------------------------
(***************************************************************************)
(* The environment.                                                        *)
(***************************************************************************)
others == <<listenerVars, fdbVars, cursorVars, pipelineVars, loopVars, pc, exc>>

Workload ==
  /\ CommitVersion
  /\ UNCHANGED <<producerVars, cursorVars, pipelineVars, loopVars, pc, exc, faults>>

BrokerAppends == BrokerAppend /\ UNCHANGED <<others, faults>>
BrokerCommits == BrokerCompleteCommit /\ UNCHANGED <<others, faults>>

\* librdkafka's callbacks run inside the calls that serve them.
ServesCallbacks ==
  \/ pc \in {"produce", "flush", "commit", "abort", "checkpoint"}
  \/ pc = "error" /\ commitOutstanding

BrokerFaults ==
  /\ \/ ServesCallbacks /\ (BrokerFail \/ ErrorCb)
     \/ BrokerTimeoutAbort
  /\ Fault
  /\ UNCHANGED others

-----------------------------------------------------------------------------
Building == BuildListener \/ Reconcile \/ BuildProducer \/ InitTransactions \/ BuildFails
Looping == RunStep \/ RunRebuild \/ RunRebuildSkipped \/ HandleError
Stepping == StepFinishDelivery \/ PollEmpty \/ PollReply \/ PollUnserializable \/ PollFails
Producing == Begin \/ BeginFails \/ Produce \/ ProduceFails \/ ProduceDone \/ Flush \/ FlushFails
Committing == Commit \/ CommitRetriable \/ CommitAbortable \/ CommitFatal \/ CommitRefused
              \/ Abort \/ AbortFails
Acknowledging == Checkpoint \/ CheckpointFails \/ DirSync \/ DirSyncFails \/ Ack \/ AckFails

\* Everything the bridge's thread does once it runs.
Thread == Building \/ Looping \/ Stepping \/ Producing \/ Committing \/ Acknowledging \/ StopClose

Next ==
  \/ Start \/ Thread
  \/ Stop \/ StopParked \/ ProcessCrash \/ MachineCrash
  \/ Workload \/ BrokerAppends \/ BrokerCommits \/ BrokerFaults

Spec == Init /\ [][Next]_vars

\* The thread keeps running, the broker keeps working.  Nobody has to start
\* or stop a bridge, and no failure has to happen.
FairSpec ==
  /\ Spec
  /\ WF_vars(Thread)
  /\ WF_vars(BrokerAppends)
  /\ WF_vars(BrokerCommits)
=============================================================================
