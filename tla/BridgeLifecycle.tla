--------------------------- MODULE BridgeLifecycle ---------------------------
(***************************************************************************)
(* One Bridge object and the two threads that share it: the one that calls *)
(* start() and then run(), and the one that calls stop().  They share the  *)
(* handles (_client, _listener, _producer, _pipeline), the shutdown event  *)
(* and _step_lock.  start() is over when stop() is called, and is not      *)
(* called again afterwards: start() takes no lock.                         *)
(*                                                                         *)
(* A step() of the pipeline is cut down to what run() and stop() see of    *)
(* it: it polls, where it may park for ever on an idle stream, delivers,   *)
(* and returns or raises; module Bridge has the rest.  A component is the  *)
(* number of its construction, 0 is None.  A stop() without the lock runs  *)
(* between any two actions of run(); an action assigns one handle, or      *)
(* several that the other thread does not tell apart, and ends before a    *)
(* call that takes its time.                                               *)
(***************************************************************************)
EXTENDS Integers, Sequences

CONSTANTS
  MaxBuilt,     \* components that are constructed; bounds the rebuilds
  MaxBatches,   \* replies that carry records; bounds the polls
  MaxStops      \* calls of stop()

ASSUME LifecycleAssumption ==
  MaxBuilt \in Nat /\ MaxBatches \in Nat /\ MaxStops \in Nat

VARIABLES
  shutdown,       \* _shutdown_requested
  lock,           \* _step_lock: "free", "run" or "stop"
  client, listener, producer,   \* the handles
  pipeline,       \* _pipeline with its _counting_listener
  closed,         \* components close() was called on
  live,           \* components that hold a connection or a native consumer, and were not
                  \* closed since: a close() that raises counts, its outcome is unknown
  built,          \* components constructed so far
  rpc,            \* where the thread of start() and run() is
  exc,            \* the exception in flight: "none", "recoverable" or "permanent"
  rebuildPending, \* run()'s rebuild_pending
  mine,           \* the listener whose start() it is in, and its client
  stepping,       \* the pipeline whose step() it is in
  finishing,      \* the pipeline's batch: "none", "commit" (outstanding), "ack"
  broken,         \* the last failure left what only a rebuild clears
  polled,         \* replies polled so far; names the batches
  pending,        \* the batch the pipeline is delivering
  last,           \* the batch _last_records holds
  popped,         \* the batch run() is about to count
  acked,          \* batches acknowledged, in order (history)
  counted,        \* batches counted by the metrics, in order
  byStop,         \* batches acknowledged by stop() (history)
  spc,            \* where the thread of stop() is
  closing,        \* handles stop() has read and not yet closed, 0 for None
  closeError,     \* first_error is set
  stops,          \* calls of stop() that are over
  forced          \* some stop() has given up the lock (history)

handles == <<client, listener, producer, pipeline>>
pipelineVars == <<finishing, broken, polled, pending, last>>
historyVars == <<acked, byStop>>
runVars == <<rpc, exc, rebuildPending, mine, stepping, popped, counted>>
stopVars == <<spc, closing, closeError, stops, forced>>
vars == <<shutdown, lock, handles, closed, live, built, pipelineVars, historyVars, runVars, stopVars>>

NoPipeline == [listener |-> -1, producer |-> -1]

\* The points of _rebuild_pipeline() and _build_pipeline(); start() goes through
\* them without the lock.
BuildPoints == {"client", "listener", "start", "connect", "reconcile", "producer", "init", "bind",
                "discard", "dropListener", "dropProducer"}

Init ==
  /\ shutdown = FALSE /\ lock = "free"
  /\ client = 0 /\ listener = 0 /\ producer = 0 /\ pipeline = NoPipeline
  /\ closed = {} /\ live = {} /\ built = 0
  /\ rpc = "new" /\ exc = "none" /\ rebuildPending = FALSE
  /\ mine = [listener |-> 0, client |-> 0] /\ stepping = NoPipeline
  /\ finishing = "none" /\ broken = FALSE
  /\ polled = 0 /\ pending = 0 /\ last = 0 /\ popped = 0
  /\ acked = << >> /\ counted = << >> /\ byStop = 0
  /\ spc = "idle" /\ closing = << >> /\ closeError = FALSE /\ stops = 0 /\ forced = FALSE

-----------------------------------------------------------------------------
(***************************************************************************)
(* What both threads do to the components.                                 *)
(***************************************************************************)
CloseAll(hs) ==
  /\ closed' = closed \cup hs
  /\ live' = live \ hs

\* A new component, connected or not.
Construct(connected) ==
  /\ built < MaxBuilt
  /\ built' = built + 1
  /\ live' = IF connected THEN live \cup {built + 1} ELSE live
  /\ UNCHANGED closed

\* An exception leaves the with block: run() catches it, start() raises it.
Leave(e) ==
  /\ exc' = e
  /\ IF lock = "run" THEN lock' = "free" /\ rpc' = "handle" ELSE rpc' = "new" /\ UNCHANGED lock

Raises(e) == Leave(e) /\ UNCHANGED <<handles, closed, live>>

-----------------------------------------------------------------------------
(***************************************************************************)
(* start(), _rebuild_pipeline() and _build_pipeline().                     *)
(***************************************************************************)
Start ==
  /\ rpc = "new" /\ ~shutdown
  /\ rpc' = "client" /\ exc' = "none"
  /\ UNCHANGED <<shutdown, lock, handles, closed, live, built, rebuildPending, mine, stepping, popped,
                 counted, pipelineVars, historyVars, stopVars>>

\* A no-op while a commit is outstanding; otherwise everything but the client
\* goes first.
Rebuild ==
  /\ rpc = "rebuild"
  /\ IF pipeline # NoPipeline /\ finishing = "commit"
       THEN rpc' = "step" /\ rebuildPending' = FALSE
       ELSE rpc' = "discard" /\ UNCHANGED rebuildPending
  /\ UNCHANGED <<shutdown, lock, handles, closed, live, built, exc, mine, stepping, popped, counted,
                 pipelineVars, historyVars, stopVars>>

\* _discard_listener_and_producer(): each is unset once its close() is over.
DiscardListener ==
  /\ rpc = "discard"
  /\ pipeline' = NoPipeline
  /\ CloseAll({listener} \ {0})
  /\ rpc' = "dropListener"
  /\ UNCHANGED <<shutdown, lock, client, listener, producer, built, exc, rebuildPending, mine, stepping,
                 popped, counted, pipelineVars, historyVars, stopVars>>

DiscardProducer ==
  /\ rpc = "dropListener"
  /\ listener' = 0
  /\ CloseAll({producer} \ {0})
  /\ rpc' = "dropProducer"
  /\ UNCHANGED <<shutdown, lock, client, producer, pipeline, built, exc, rebuildPending, mine, stepping,
                 popped, counted, pipelineVars, historyVars, stopVars>>

\* A rebuild goes on to build, a failed build raises.
Discarded ==
  /\ rpc = "dropProducer"
  /\ producer' = 0
  /\ IF exc = "none" THEN rpc' = "client" /\ UNCHANGED <<lock, exc>> ELSE Leave(exc)
  /\ UNCHANGED <<shutdown, client, listener, pipeline, closed, live, built, rebuildPending, mine, stepping,
                 popped, counted, pipelineVars, historyVars, stopVars>>

BuildClient ==
  /\ rpc = "client"
  /\ IF client = 0 THEN Construct(TRUE) /\ client' = built' ELSE UNCHANGED <<built, closed, live, client>>
  /\ rpc' = "listener"
  /\ UNCHANGED <<shutdown, lock, listener, producer, pipeline, exc, rebuildPending, mine, stepping, popped,
                 counted, pipelineVars, historyVars, stopVars>>

\* The listener is bound before it is started.
BuildListener ==
  /\ rpc = "listener"
  /\ Construct(FALSE)
  /\ listener' = built'
  /\ mine' = [listener |-> built', client |-> client]
  /\ rpc' = "start"
  /\ UNCHANGED <<shutdown, lock, client, producer, pipeline, exc, rebuildPending, stepping, popped,
                 counted, pipelineVars, historyVars, stopVars>>

\* self._listener.start() looks at _is_closed once, and opens its client again
\* if that was closed; its calls take their time.
StartListener ==
  /\ rpc = "start"
  /\ listener # 0 /\ listener \notin closed /\ mine.client # 0
  /\ live' = live \cup {mine.client}
  /\ rpc' = "connect"
  /\ UNCHANGED <<shutdown, lock, handles, closed, built, exc, rebuildPending, mine, stepping, popped,
                 counted, pipelineVars, historyVars, stopVars>>

\* The consumer is there and bound, whatever has become of the listener in the
\* meantime; one that resumes from a cursor has its acknowledgement to restore.
BindConsumer ==
  /\ rpc = "connect"
  /\ live' = live \cup {mine.listener, mine.client}
  /\ rpc' \in {"producer", "reconcile"}
  /\ UNCHANGED <<shutdown, lock, handles, closed, built, exc, rebuildPending, mine, stepping, popped,
                 counted, pipelineVars, historyVars, stopVars>>

\* _reconcile_resumed_consumer() needs a listener that is not closed.
Reconcile ==
  /\ rpc = "reconcile" /\ mine.listener \notin closed
  /\ live' = live \cup {mine.client}
  /\ rpc' = "producer"
  /\ UNCHANGED <<shutdown, lock, handles, closed, built, exc, rebuildPending, mine, stepping, popped,
                 counted, pipelineVars, historyVars, stopVars>>

BuildProducer ==
  /\ rpc = "producer"
  /\ Construct(TRUE)
  /\ producer' = built'
  /\ rpc' = "init"
  /\ UNCHANGED <<shutdown, lock, client, listener, pipeline, exc, rebuildPending, mine, stepping, popped,
                 counted, pipelineVars, historyVars, stopVars>>

\* init_transactions() is over, or there are no transactions.
InitProducer ==
  /\ rpc = "init" /\ producer # 0
  /\ rpc' = "bind"
  /\ UNCHANGED <<shutdown, lock, handles, closed, live, built, exc, rebuildPending, mine, stepping, popped,
                 counted, pipelineVars, historyVars, stopVars>>

\* The pipeline is bound to what the handles are now.  start() returns, run()
\* goes on to its step.
Bind ==
  /\ rpc = "bind"
  /\ pipeline' = [listener |-> listener, producer |-> producer]
  /\ finishing' = "none" /\ broken' = FALSE /\ pending' = 0 /\ last' = 0
  /\ IF lock = "run" THEN rpc' = "step" /\ rebuildPending' = FALSE
                     ELSE rpc' = "started" /\ UNCHANGED rebuildPending
  /\ UNCHANGED <<shutdown, lock, client, listener, producer, closed, live, built, exc, mine, stepping, popped,
                 counted, polled, historyVars, stopVars>>

\* Opening, loading the cursor, starting or initialising fails, for reasons of
\* its own or because stop() has taken or closed what it works with: nothing but
\* the client stays.  A failed reconcile has closed its consumer itself.
BuildFails ==
  /\ rpc \in {"client", "listener", "start", "connect", "reconcile", "producer", "init"}
  /\ exc' \in {"recoverable", "permanent"}
  /\ live' = IF rpc = "reconcile" THEN live \ {mine.listener} ELSE live
  /\ rpc' = "discard"
  /\ UNCHANGED <<shutdown, lock, handles, closed, built, rebuildPending, mine, stepping, popped, counted,
                 pipelineVars, historyVars, stopVars>>

-----------------------------------------------------------------------------
(***************************************************************************)
(* run().                                                                  *)
(***************************************************************************)
Run ==
  /\ rpc = "started"
  /\ rpc' = IF pipeline = NoPipeline THEN "raised" ELSE "top"
  /\ UNCHANGED <<shutdown, lock, handles, closed, live, built, exc, rebuildPending, mine, stepping, popped,
                 counted, pipelineVars, historyVars, stopVars>>

CheckShutdown ==
  /\ rpc = "top"
  /\ rpc' = IF shutdown THEN "ended" ELSE "locking"
  /\ UNCHANGED <<shutdown, lock, handles, closed, live, built, exc, rebuildPending, mine, stepping, popped,
                 counted, pipelineVars, historyVars, stopVars>>

\* Where an iteration goes on.
NextPoint == IF rebuildPending \/ pipeline = NoPipeline THEN "rebuild" ELSE "step"

\* Mutant: the event is not looked at again once the lock is held.
TakeLockBlindly ==
  /\ rpc = "locking" /\ lock = "free"
  /\ rpc' = NextPoint /\ lock' = "run"
  /\ UNCHANGED <<shutdown, handles, closed, live, built, exc, rebuildPending, mine, stepping, popped,
                 counted, pipelineVars, historyVars, stopVars>>

TakeLock ==
  /\ rpc = "locking" /\ lock = "free"
  /\ IF shutdown THEN rpc' = "ended" /\ UNCHANGED lock
                 ELSE rpc' = NextPoint /\ lock' = "run"
  /\ UNCHANGED <<shutdown, handles, closed, live, built, exc, rebuildPending, mine, stepping, popped,
                 counted, pipelineVars, historyVars, stopVars>>

\* step() is called on the pipeline that is bound now.
Step ==
  /\ rpc = "step"
  /\ IF pipeline = NoPipeline \/ (finishing = "none" /\ pipeline.listener = 0)
       THEN Raises("recoverable") /\ UNCHANGED stepping
       ELSE /\ stepping' = pipeline
            /\ rpc' = IF finishing = "none" THEN "polling" ELSE "delivering"
            /\ UNCHANGED <<lock, exc, handles, closed, live>>
  /\ UNCHANGED <<shutdown, built, rebuildPending, mine, popped, counted,
                 pipelineVars, historyVars, stopVars>>

\* consume() answers: a reply with records, or none of either.
PollReply ==
  /\ rpc = "polling" /\ stepping.listener \notin closed
  /\ polled < MaxBatches
  /\ polled' = polled + 1 /\ pending' = polled' /\ last' = polled'
  /\ rpc' = "delivering"
  /\ UNCHANGED <<shutdown, lock, handles, closed, live, built, exc, rebuildPending, mine, stepping, popped,
                 counted, finishing, broken, historyVars, stopVars>>

PollEmpty ==
  /\ rpc = "polling" /\ stepping.listener \notin closed
  /\ last' = 0
  /\ rpc' = "top"
  /\ lock' = "free"
  /\ UNCHANGED <<shutdown, handles, closed, live, built, exc, rebuildPending, mine, stepping, popped,
                 counted, finishing, broken, polled, pending, historyVars, stopVars>>

\* It fails, and the reply may be one that was consumed and not serialized.
PollFails ==
  /\ rpc = "polling"
  /\ \E e \in {"recoverable", "permanent"} : Raises(e)
  /\ broken' \in BOOLEAN
  /\ UNCHANGED <<shutdown, built, rebuildPending, mine, stepping, popped, counted,
                 finishing, polled, pending, last, historyVars, stopVars>>

\* The listener was closed under it: consume() raises.
PollClosed ==
  /\ rpc = "polling" /\ stepping.listener \in closed
  /\ Raises("recoverable")
  /\ UNCHANGED <<shutdown, built, rebuildPending, mine, stepping, popped, counted,
                 pipelineVars, historyVars, stopVars>>

\* The batch can get no further than its components allow.
CanCommit == finishing = "ack" \/ stepping.producer \notin closed \cup {0}
CanAcknowledge == stepping.listener \notin closed

\* Mutant: the batch counts as done although its acknowledgement failed.
DeliverUnacknowledged ==
  /\ rpc = "delivering" /\ CanCommit
  /\ acked' = IF CanAcknowledge THEN Append(acked, pending) ELSE acked
  /\ finishing' = "none" /\ pending' = 0
  /\ rpc' = "pop"
  /\ UNCHANGED <<shutdown, lock, handles, closed, live, built, exc, rebuildPending, mine, stepping, popped,
                 counted, broken, polled, last, byStop, stopVars>>

Deliver ==
  /\ rpc = "delivering" /\ CanCommit /\ CanAcknowledge
  /\ acked' = Append(acked, pending)
  /\ finishing' = "none" /\ pending' = 0
  /\ rpc' = "pop"
  /\ UNCHANGED <<shutdown, lock, handles, closed, live, built, exc, rebuildPending, mine, stepping, popped,
                 counted, broken, polled, last, byStop, stopVars>>

\* The batch failed for good, its commit is outstanding, or its checkpoint or
\* its acknowledgement is left to do.
DeliverFails ==
  /\ rpc = "delivering"
  /\ \/ /\ finishing # "ack" /\ finishing' = "none" /\ broken' = TRUE
        /\ \E e \in {"recoverable", "permanent"} : Raises(e)
     \/ /\ finishing # "ack" /\ CanCommit /\ finishing' = "commit" /\ UNCHANGED broken
        /\ Raises("recoverable")
     \/ /\ CanCommit /\ finishing' = "ack" /\ UNCHANGED broken
        /\ \E e \in {"recoverable", "permanent"} : Raises(e)
  /\ UNCHANGED <<shutdown, built, rebuildPending, mine, stepping, popped, counted,
                 polled, pending, last, historyVars, stopVars>>

\* pop_last_records(), while the lock is held.
Pop ==
  /\ rpc = "pop"
  /\ IF pipeline = NoPipeline
       THEN Raises("recoverable") /\ UNCHANGED <<popped, last>>
       ELSE /\ popped' = last /\ last' = 0 /\ rpc' = "count" /\ lock' = "free"
            /\ UNCHANGED <<exc, handles, closed, live>>
  /\ UNCHANGED <<shutdown, built, rebuildPending, mine, stepping, counted,
                 finishing, broken, polled, pending, historyVars, stopVars>>

\* The metrics, without the lock.
Count ==
  /\ rpc = "count"
  /\ counted' = Append(counted, popped)
  /\ rpc' = "top"
  /\ UNCHANGED <<shutdown, lock, handles, closed, live, built, exc, rebuildPending, mine, stepping, popped,
                 pipelineVars, historyVars, stopVars>>

\* The except clauses: a permanent error is raised, any other one retried.
Handle ==
  /\ rpc = "handle"
  /\ IF exc = "permanent" THEN shutdown' = TRUE /\ rpc' = "raised"
                          ELSE rpc' = "judging" /\ UNCHANGED shutdown
  /\ UNCHANGED <<lock, handles, closed, live, built, exc, rebuildPending, mine, stepping, popped,
                 counted, pipelineVars, historyVars, stopVars>>

NeedsRebuild ==
  producer = 0 \/ listener = 0 \/ pipeline = NoPipeline \/ producer \in closed \/ broken

\* _needs_rebuild() under the lock.
Judge ==
  /\ rpc = "judging" /\ lock = "free"
  /\ rebuildPending' = (rebuildPending \/ NeedsRebuild)
  /\ rpc' = "top" /\ exc' = "none"
  /\ UNCHANGED <<shutdown, lock, handles, closed, live, built, mine, stepping, popped,
                 counted, pipelineVars, historyVars, stopVars>>

-----------------------------------------------------------------------------
(***************************************************************************)
(* stop().                                                                 *)
(***************************************************************************)
\* Mutant: request_shutdown() is forgotten.
CallStopQuietly ==
  /\ spc = "idle" /\ stops < MaxStops
  /\ lock = "free" => rpc \notin BuildPoints
  /\ spc' = "first"
  /\ UNCHANGED <<shutdown, lock, handles, closed, live, built, runVars, pipelineVars, historyVars,
                 closing, closeError, stops, forced>>

\* start() is over: run() may be anywhere.
CallStop ==
  /\ spc = "idle" /\ stops < MaxStops
  /\ lock = "free" => rpc \notin BuildPoints
  /\ shutdown' = TRUE
  /\ spc' = "first"
  /\ UNCHANGED <<lock, handles, closed, live, built, runVars, pipelineVars, historyVars,
                 closing, closeError, stops, forced>>

AcquireLock ==
  /\ spc \in {"first", "second"} /\ lock = "free"
  /\ lock' = "stop"
  /\ spc' = "finish"
  /\ UNCHANGED <<shutdown, handles, closed, live, built, runVars, pipelineVars, historyVars,
                 closing, closeError, stops, forced>>

\* The first wait times out: the listener bound now is closed to end consume().
UnblockStep ==
  /\ spc = "first" /\ lock # "free"
  /\ CloseAll({listener} \ {0})
  /\ spc' = "second"
  /\ UNCHANGED <<shutdown, lock, handles, built, runVars, pipelineVars, historyVars,
                 closing, closeError, stops, forced>>

\* Mutant: the second wait has no timeout.
GiveUpNever ==
  /\ spc = "second" /\ lock = "free"
  /\ lock' = "stop"
  /\ spc' = "finish"
  /\ UNCHANGED <<shutdown, handles, closed, live, built, runVars, pipelineVars, historyVars,
                 closing, closeError, stops, forced>>

\* The second one does, too: the handles are closed anyway.
GiveUp ==
  /\ spc = "second" /\ lock # "free"
  /\ forced' = TRUE
  /\ spc' = "take"
  /\ UNCHANGED <<shutdown, lock, handles, closed, live, built, runVars, pipelineVars, historyVars,
                 closing, closeError, stops>>

\* _finish_outstanding_commit(): step() until the commit is resolved, it
\* raises, or the time is up.
FinishCommit ==
  /\ spc = "finish"
  /\ spc' = "take"
  /\ IF pipeline = NoPipeline \/ finishing # "commit" THEN UNCHANGED <<finishing, pending, acked, byStop>>
     ELSE \/ /\ pipeline.listener \notin closed
             /\ finishing' = "none" /\ pending' = 0
             /\ acked' = Append(acked, pending) /\ byStop' = byStop + 1
          \/ finishing' \in {"commit", "none", "ack"} /\ UNCHANGED <<pending, acked, byStop>>
  /\ UNCHANGED <<shutdown, lock, handles, closed, live, built, runVars, broken, polled, last,
                 closing, closeError, stops, forced>>

\* The handles are read, and then unset; what run() binds in between is unset
\* and closed by nobody.  Which one is read or unset first is of no consequence:
\* run() binds them one at a time, a call between two bindings.
TakeHandles ==
  /\ spc = "take"
  /\ closing' = <<producer, listener, client>>
  /\ spc' = "unset"
  /\ UNCHANGED <<shutdown, lock, handles, closed, live, built, runVars, pipelineVars, historyVars,
                 closeError, stops, forced>>

UnsetHandles ==
  /\ spc = "unset"
  /\ client' = 0 /\ listener' = 0 /\ producer' = 0 /\ pipeline' = NoPipeline
  /\ closeError' = FALSE
  /\ spc' = "close"
  /\ UNCHANGED <<shutdown, lock, closed, live, built, runVars, pipelineVars, historyVars, closing,
                 stops, forced>>

\* Of the three close() only the listener's, the second, lets an exception out.
CloseMayRaise == Len(closing) = 2 /\ Head(closing) # 0

\* Mutant: the first close that raises ends the loop.
CloseHandleStops ==
  /\ spc = "close" /\ closing # << >>
  /\ CloseAll({Head(closing)} \ {0})
  /\ closeError' \in {closeError, closeError \/ CloseMayRaise}
  /\ closing' = IF closeError' THEN << >> ELSE Tail(closing)
  /\ UNCHANGED <<shutdown, lock, handles, built, runVars, pipelineVars, historyVars, spc, stops, forced>>

\* One close(); the error a listener's may raise is kept, and the next handle is
\* closed all the same.
CloseHandle ==
  /\ spc = "close" /\ closing # << >>
  /\ CloseAll({Head(closing)} \ {0})
  /\ closing' = Tail(closing)
  /\ closeError' \in {closeError, closeError \/ CloseMayRaise}
  /\ UNCHANGED <<shutdown, lock, handles, built, runVars, pipelineVars, historyVars, spc, stops, forced>>

\* stop() returns, or raises the first error of a close().
StopReturns ==
  /\ spc = "close" /\ closing = << >>
  /\ lock' = IF lock = "stop" THEN "free" ELSE lock
  /\ spc' = "idle"
  /\ stops' = stops + 1
  /\ UNCHANGED <<shutdown, handles, closed, live, built, runVars, pipelineVars, historyVars,
                 closing, closeError, forced>>

-----------------------------------------------------------------------------
Building == Start \/ Rebuild \/ BuildClient \/ BuildListener \/ StartListener \/ BindConsumer
            \/ Reconcile \/ BuildProducer \/ InitProducer \/ Bind \/ BuildFails
            \/ DiscardListener \/ DiscardProducer \/ Discarded
Polling == PollReply \/ PollEmpty \/ PollFails
Looping == Run \/ CheckShutdown \/ TakeLock \/ Step \/ PollClosed \/ Deliver \/ DeliverFails
           \/ Pop \/ Count \/ Handle \/ Judge
Stopping == AcquireLock \/ UnblockStep \/ GiveUp \/ FinishCommit \/ TakeHandles \/ UnsetHandles
            \/ CloseHandle \/ StopReturns

Next == Building \/ Polling \/ Looping \/ CallStop \/ Stopping

Spec == Init /\ [][Next]_vars

\* Both threads keep running; an idle stream need not answer a consume().
FairSpec == Spec /\ WF_vars(Building \/ Looping) /\ WF_vars(Stopping)
=============================================================================
