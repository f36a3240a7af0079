-------------------------- MODULE LifecycleProofs --------------------------
(***************************************************************************)
(* Proofs that a stop() which got the step lock leaves nothing open and    *)
(* nothing at work (StopReleasesAll, NothingAfterStop), and that run()     *)
(* counts what it acknowledges (MetricsExact), for any number of rebuilds, *)
(* batches and calls of stop().                                            *)
(***************************************************************************)
EXTENDS LifecycleProperties, TLAPS

\* The points of an iteration that are under the step lock.
LockedPoints == {"rebuild", "step", "polling", "delivering", "pop"}
RunPoints == {"client", "listener", "start", "connect", "reconcile", "producer", "init", "bind",
              "discard", "dropListener", "dropProducer", "rebuild", "step", "polling", "delivering", "pop",
              "new", "started", "top", "locking", "count", "handle", "judging", "ended", "raised"}

PointsOK ==
  /\ lock \in {"free", "run", "stop"}
  /\ rpc \in RunPoints
  /\ spc \in {"idle", "first", "second", "finish", "take", "unset", "close"}

LifecycleTypeOK ==
  /\ client \in Nat /\ listener \in Nat /\ producer \in Nat /\ built \in Nat
  /\ closing \in Seq(Nat) /\ stops \in Nat
  /\ acked \in Seq(Nat) /\ counted \in Seq(Nat) /\ byStop \in Nat
  /\ polled \in Nat /\ pending \in Nat /\ last \in Nat /\ popped \in Nat

\* Who holds the step lock.
LockHeld ==
  /\ rpc \in LockedPoints => lock = "run"
  /\ lock = "run" => rpc \in LockedPoints \cup BuildPoints
  /\ lock = "stop" => spc \in {"finish", "take", "unset", "close"}
  /\ spc \in {"finish", "take", "unset", "close"} => lock = "stop"

\* A stop() that has had the lock leaves it to no iteration any more; start()
\* builds when no stop() is about.
ShutdownSeen ==
  /\ spc # "idle" \/ stops > 0 => shutdown
  /\ stops > 0 \/ lock = "stop" => rpc \notin LockedPoints \cup BuildPoints
  /\ rpc \in BuildPoints /\ lock # "run" => spc = "idle" /\ stops = 0 /\ ~shutdown

\* What stop() has taken and not yet closed.
Taken == {closing[i] : i \in 1..Len(closing)}

\* What is open is in a handle, or taken.  A handle is bound only when it is unset.
OpenIsHeld ==
  /\ 0 \notin live
  /\ live \subseteq {client, listener, producer} \cup Taken
  /\ rpc \in {"new", "client", "listener", "dropProducer"} => listener = 0
  /\ rpc \in {"new", "client", "listener", "start", "connect", "reconcile", "producer"} => producer = 0
  /\ rpc = "dropListener" => listener \notin live
  /\ rpc = "dropProducer" => producer \notin live
  /\ rpc \in {"start", "connect", "reconcile"} => mine = [listener |-> listener, client |-> client]
  /\ rpc \in {"connect", "reconcile"} => listener # 0 /\ client # 0
  /\ spc \notin {"unset", "close"} => closing = << >>
  /\ spc = "unset" => live \subseteq Taken
  /\ spc = "close" \/ (spc = "idle" /\ stops > 0) => client = 0 /\ listener = 0 /\ producer = 0

\* The batch the metrics count next is the one the pipeline acknowledged last.
CountedNext ==
  /\ rpc = "delivering" \/ finishing # "none" => last = pending
  /\ rpc \in {"polling", "pop", "count"} => finishing = "none"
  /\ rpc \in {"polling", "delivering", "pop"} => pipeline # NoPipeline
  /\ rpc = "pop" => Len(acked) > 0 /\ last = acked[Len(acked)]
  /\ rpc = "count" => Len(acked) > 0 /\ popped = acked[Len(acked)]
  /\ byStop > 0 => (stops > 0 \/ lock = "stop") /\ rpc # "count"
  /\ Len(acked) = Len(counted) + byStop + IF rpc \in {"pop", "count"} THEN 1 ELSE 0
  /\ \A i \in 1..Len(counted) : counted[i] = acked[i]

LifecycleInv ==
  /\ PointsOK
  /\ LifecycleTypeOK
  /\ ~forced => LockHeld /\ ShutdownSeen /\ OpenIsHeld /\ CountedNext
-----------------------------------------------------------------------------
\* Both threads are at points of the code.
LEMMA PointsStep == PointsOK /\ [Next]_vars => PointsOK'
  <1>. SUFFICES ASSUME PointsOK, [Next]_vars PROVE PointsOK'
    OBVIOUS
  <1>. USE DEF RunPoints, vars, handles, pipelineVars, historyVars,
               runVars, stopVars
  <1>1. CASE Start
    BY <1>1 DEF PointsOK, Start
  <1>2. CASE Rebuild
    BY <1>2 DEF PointsOK, Rebuild
  <1>3. CASE DiscardListener
    BY <1>3 DEF PointsOK, DiscardListener, CloseAll
  <1>4. CASE DiscardProducer
    BY <1>4 DEF PointsOK, DiscardProducer, CloseAll
  <1>5. CASE Discarded
    BY <1>5 DEF PointsOK, Discarded, Leave
  <1>6. CASE BuildClient
    BY <1>6 DEF PointsOK, BuildClient, Construct
  <1>7. CASE BuildListener
    BY <1>7 DEF PointsOK, BuildListener, Construct
  <1>8. CASE StartListener
    BY <1>8 DEF PointsOK, StartListener
  <1>9. CASE BindConsumer
    BY <1>9 DEF PointsOK, BindConsumer
  <1>10. CASE Reconcile
    BY <1>10 DEF PointsOK, Reconcile
  <1>11. CASE BuildProducer
    BY <1>11 DEF PointsOK, BuildProducer, Construct
  <1>12. CASE InitProducer
    BY <1>12 DEF PointsOK, InitProducer
  <1>13. CASE Bind
    BY <1>13 DEF PointsOK, Bind
  <1>14. CASE BuildFails
    BY <1>14 DEF PointsOK, BuildFails
  <1>15. CASE PollReply
    BY <1>15 DEF PointsOK, PollReply
  <1>16. CASE PollEmpty
    BY <1>16 DEF PointsOK, PollEmpty
  <1>17. CASE PollFails
    BY <1>17 DEF PointsOK, PollFails, Raises, Leave
  <1>18. CASE Run
    BY <1>18 DEF PointsOK, Run
  <1>19. CASE CheckShutdown
    BY <1>19 DEF PointsOK, CheckShutdown
  <1>20. CASE TakeLock
    BY <1>20 DEF PointsOK, TakeLock, NextPoint
  <1>21. CASE Step
    BY <1>21 DEF PointsOK, Step, Raises, Leave
  <1>22. CASE PollClosed
    BY <1>22 DEF PointsOK, PollClosed, Raises, Leave
  <1>23. CASE Deliver
    BY <1>23 DEF PointsOK, Deliver
  <1>24. CASE DeliverFails
    BY <1>24 DEF PointsOK, DeliverFails, Raises, Leave
  <1>25. CASE Pop
    BY <1>25 DEF PointsOK, Pop, Raises, Leave
  <1>26. CASE Count
    BY <1>26 DEF PointsOK, Count
  <1>27. CASE Handle
    BY <1>27 DEF PointsOK, Handle
  <1>28. CASE Judge
    BY <1>28 DEF PointsOK, Judge
  <1>29. CASE CallStop
    BY <1>29 DEF PointsOK, CallStop
  <1>30. CASE AcquireLock
    BY <1>30 DEF PointsOK, AcquireLock
  <1>31. CASE UnblockStep
    BY <1>31 DEF PointsOK, UnblockStep, CloseAll
  <1>32. CASE GiveUp
    BY <1>32 DEF PointsOK, GiveUp
  <1>33. CASE FinishCommit
    BY <1>33 DEF PointsOK, FinishCommit
  <1>34. CASE TakeHandles
    BY <1>34 DEF PointsOK, TakeHandles
  <1>35. CASE UnsetHandles
    BY <1>35 DEF PointsOK, UnsetHandles
  <1>36. CASE CloseHandle
    BY <1>36 DEF PointsOK, CloseHandle, CloseAll
  <1>37. CASE StopReturns
    BY <1>37 DEF PointsOK, StopReturns
  <1>38. CASE UNCHANGED vars
    BY <1>38 DEF PointsOK, vars
  <1>. QED BY <1>1, <1>2, <1>3, <1>4, <1>5, <1>6, <1>7, <1>8, <1>9, <1>10, <1>11, <1>12,
              <1>13, <1>14, <1>15, <1>16, <1>17, <1>18, <1>19, <1>20, <1>21, <1>22, <1>23,
              <1>24, <1>25, <1>26, <1>27, <1>28, <1>29, <1>30, <1>31, <1>32, <1>33, <1>34,
              <1>35, <1>36, <1>37, <1>38
           DEF Next, Building, Polling, Looping, Stopping

\* Every action keeps the state well typed.
LEMMA LifecycleTypeStep == LifecycleTypeOK /\ [Next]_vars => LifecycleTypeOK'
  <1>. SUFFICES ASSUME LifecycleTypeOK, [Next]_vars PROVE LifecycleTypeOK'
    OBVIOUS
  <1>. USE DEF vars, handles, pipelineVars, historyVars,
               runVars, stopVars
  <1>1. CASE Start
    BY <1>1 DEF LifecycleTypeOK, Start
  <1>2. CASE Rebuild
    BY <1>2 DEF LifecycleTypeOK, Rebuild
  <1>3. CASE DiscardListener
    BY <1>3 DEF LifecycleTypeOK, DiscardListener, CloseAll
  <1>4. CASE DiscardProducer
    BY <1>4 DEF LifecycleTypeOK, DiscardProducer, CloseAll
  <1>5. CASE Discarded
    BY <1>5 DEF LifecycleTypeOK, Discarded, Leave
  <1>6. CASE BuildClient
    BY <1>6 DEF LifecycleTypeOK, BuildClient, Construct
  <1>7. CASE BuildListener
    BY <1>7 DEF LifecycleTypeOK, BuildListener, Construct
  <1>8. CASE StartListener
    BY <1>8 DEF LifecycleTypeOK, StartListener
  <1>9. CASE BindConsumer
    BY <1>9 DEF LifecycleTypeOK, BindConsumer
  <1>10. CASE Reconcile
    BY <1>10 DEF LifecycleTypeOK, Reconcile
  <1>11. CASE BuildProducer
    BY <1>11 DEF LifecycleTypeOK, BuildProducer, Construct
  <1>12. CASE InitProducer
    BY <1>12 DEF LifecycleTypeOK, InitProducer
  <1>13. CASE Bind
    BY <1>13 DEF LifecycleTypeOK, Bind
  <1>14. CASE BuildFails
    BY <1>14 DEF LifecycleTypeOK, BuildFails
  <1>15. CASE PollReply
    BY <1>15 DEF LifecycleTypeOK, PollReply
  <1>16. CASE PollEmpty
    BY <1>16 DEF LifecycleTypeOK, PollEmpty
  <1>17. CASE PollFails
    BY <1>17 DEF LifecycleTypeOK, PollFails, Raises, Leave
  <1>18. CASE Run
    BY <1>18 DEF LifecycleTypeOK, Run
  <1>19. CASE CheckShutdown
    BY <1>19 DEF LifecycleTypeOK, CheckShutdown
  <1>20. CASE TakeLock
    BY <1>20 DEF LifecycleTypeOK, TakeLock, NextPoint
  <1>21. CASE Step
    BY <1>21 DEF LifecycleTypeOK, Step, Raises, Leave
  <1>22. CASE PollClosed
    BY <1>22 DEF LifecycleTypeOK, PollClosed, Raises, Leave
  <1>23. CASE Deliver
    BY <1>23 DEF LifecycleTypeOK, Deliver
  <1>24. CASE DeliverFails
    BY <1>24 DEF LifecycleTypeOK, DeliverFails, Raises, Leave
  <1>25. CASE Pop
    <2>1. UNCHANGED <<built, counted, polled, pending, acked, byStop, stopVars, handles>>
      BY <1>25, Zenon DEF Pop, Raises
    <2>2. \/ popped' = popped /\ last' = last /\ Leave("recoverable")
          \/ popped' = last /\ last' = 0 /\ rpc' = "count" /\ lock' = "free"
      BY <1>25, Zenon DEF Pop, Raises
    <2>. QED BY <2>1, <2>2 DEF LifecycleTypeOK, Leave
  <1>26. CASE Count
    BY <1>26 DEF LifecycleTypeOK, Count
  <1>27. CASE Handle
    BY <1>27 DEF LifecycleTypeOK, Handle
  <1>28. CASE Judge
    BY <1>28 DEF LifecycleTypeOK, Judge
  <1>29. CASE CallStop
    BY <1>29 DEF LifecycleTypeOK, CallStop
  <1>30. CASE AcquireLock
    BY <1>30 DEF LifecycleTypeOK, AcquireLock
  <1>31. CASE UnblockStep
    BY <1>31 DEF LifecycleTypeOK, UnblockStep, CloseAll
  <1>32. CASE GiveUp
    BY <1>32 DEF LifecycleTypeOK, GiveUp
  <1>33. CASE FinishCommit
    <2>1. UNCHANGED <<handles, built, runVars, polled, last, closing, stops>>
      BY <1>33, Zenon DEF FinishCommit
    <2>2. \/ UNCHANGED <<pending, acked, byStop>>
          \/ pending' = 0 /\ acked' = Append(acked, pending) /\ byStop' = byStop + 1
      BY <1>33, Zenon DEF FinishCommit
    <2>3. acked \in Seq(Nat) /\ pending \in Nat
      BY DEF LifecycleTypeOK
    <2>4. acked' \in Seq(Nat)
      BY <2>2, <2>3
    <2>. QED BY <2>1, <2>2, <2>4 DEF LifecycleTypeOK
  <1>34. CASE TakeHandles
    <2>1. UNCHANGED <<lock, handles, built, runVars, pipelineVars, historyVars, stops>> /\ spc' = "unset"
      BY <1>34, Zenon DEF TakeHandles
    <2>2. closing' = <<producer, listener, client>>
      BY <1>34, Zenon DEF TakeHandles
    <2>. QED BY <2>1, <2>2 DEF LifecycleTypeOK
  <1>35. CASE UnsetHandles
    <2>1. UNCHANGED <<built, closing, runVars, pipelineVars, historyVars, stops>>
      BY <1>35, Zenon DEF UnsetHandles
    <2>2. client' = 0 /\ listener' = 0 /\ producer' = 0
      BY <1>35, Zenon DEF UnsetHandles
    <2>. QED BY <2>1, <2>2 DEF LifecycleTypeOK
  <1>36. CASE CloseHandle
    <2>1. UNCHANGED <<lock, handles, built, runVars, pipelineVars, historyVars, spc, stops>>
      BY <1>36, Zenon DEF CloseHandle
    <2>2. closing # << >> /\ closing' = Tail(closing)
      BY <1>36, Zenon DEF CloseHandle
    <2>3. closing' \in Seq(Nat)
      BY <2>2 DEF LifecycleTypeOK
    <2>. QED BY <2>1, <2>3 DEF LifecycleTypeOK
  <1>37. CASE StopReturns
    <2>1. UNCHANGED <<handles, built, runVars, pipelineVars, historyVars, closing>> /\ spc' = "idle"
      BY <1>37, Zenon DEF StopReturns
    <2>2. stops' = stops + 1 /\ lock' = IF lock = "stop" THEN "free" ELSE lock
      BY <1>37, Zenon DEF StopReturns
    <2>. QED BY <2>1, <2>2 DEF LifecycleTypeOK
  <1>38. CASE UNCHANGED vars
    BY <1>38 DEF LifecycleTypeOK, vars
  <1>. QED BY <1>1, <1>2, <1>3, <1>4, <1>5, <1>6, <1>7, <1>8, <1>9, <1>10, <1>11, <1>12,
              <1>13, <1>14, <1>15, <1>16, <1>17, <1>18, <1>19, <1>20, <1>21, <1>22, <1>23,
              <1>24, <1>25, <1>26, <1>27, <1>28, <1>29, <1>30, <1>31, <1>32, <1>33, <1>34,
              <1>35, <1>36, <1>37, <1>38
           DEF Next, Building, Polling, Looping, Stopping

\* A stop() that gave up the lock is not forgotten.
LEMMA ForcedStays == forced /\ [Next]_vars => forced'
  <1>. SUFFICES ASSUME forced, [Next]_vars PROVE forced'
    OBVIOUS
  <1>. USE DEF stopVars
  <1>1. ASSUME Next PROVE forced' = forced \/ forced' = TRUE
    <2>1. CASE Building
      BY <2>1, Zenon
      DEF Building, Start, Rebuild, BuildClient, BuildListener, StartListener, BindConsumer,
         Reconcile, BuildProducer, InitProducer, Bind, BuildFails, DiscardListener, DiscardProducer,
         Discarded
    <2>2. CASE Polling
      BY <2>2, Zenon DEF Polling, PollReply, PollEmpty, PollFails
    <2>3. CASE Looping
      BY <2>3, Zenon
      DEF Looping, Run, CheckShutdown, TakeLock, Step, PollClosed, Deliver, DeliverFails, Pop,
         Count, Handle, Judge
    <2>4. CASE CallStop
      BY <2>4, Zenon DEF CallStop
    <2>5. CASE Stopping
      BY <2>5, Zenon
      DEF Stopping, AcquireLock, UnblockStep, GiveUp, FinishCommit, TakeHandles, UnsetHandles,
         CloseHandle, StopReturns
    <2>. QED BY <1>1, <2>1, <2>2, <2>3, <2>4, <2>5 DEF Next
  <1>. QED BY <1>1, Zenon DEF vars

LEMMA LockHeldStep ==
  ASSUME PointsOK, LifecycleTypeOK, LockHeld, ShutdownSeen, OpenIsHeld, CountedNext, [Next]_vars, ~forced'
  PROVE  LockHeld'
  <1>. USE DEF BuildPoints, LockedPoints, handles, pipelineVars, historyVars, runVars, stopVars
  <1>1. CASE Start
    BY <1>1 DEF LockHeld, Start
  <1>2. CASE Rebuild
    BY <1>2 DEF LockHeld, Rebuild
  <1>3. CASE DiscardListener
    BY <1>3 DEF LockHeld, DiscardListener, CloseAll
  <1>4. CASE DiscardProducer
    BY <1>4 DEF LockHeld, DiscardProducer, CloseAll
  <1>5. CASE Discarded
    BY <1>5 DEF LockHeld, Discarded, Leave
  <1>6. CASE BuildClient
    BY <1>6 DEF LockHeld, BuildClient, Construct
  <1>7. CASE BuildListener
    BY <1>7 DEF LockHeld, BuildListener, Construct
  <1>8. CASE StartListener
    BY <1>8 DEF LockHeld, StartListener
  <1>9. CASE BindConsumer
    BY <1>9 DEF LockHeld, BindConsumer
  <1>10. CASE Reconcile
    BY <1>10 DEF LockHeld, Reconcile
  <1>11. CASE BuildProducer
    BY <1>11 DEF LockHeld, BuildProducer, Construct
  <1>12. CASE InitProducer
    BY <1>12 DEF LockHeld, InitProducer
  <1>13. CASE Bind
    BY <1>13 DEF LockHeld, Bind
  <1>14. CASE BuildFails
    BY <1>14 DEF LockHeld, BuildFails
  <1>15. CASE PollReply
    BY <1>15 DEF LockHeld, PollReply
  <1>16. CASE PollEmpty
    BY <1>16 DEF LockHeld, PollEmpty
  <1>17. CASE PollFails
    BY <1>17 DEF LockHeld, PollFails, Raises, Leave
  <1>18. CASE Run
    BY <1>18 DEF LockHeld, Run
  <1>19. CASE CheckShutdown
    BY <1>19 DEF LockHeld, CheckShutdown
  <1>20. CASE TakeLock
    BY <1>20 DEF LockHeld, TakeLock, NextPoint
  <1>21. CASE Step
    BY <1>21 DEF LockHeld, Step, Raises, Leave
  <1>22. CASE PollClosed
    BY <1>22 DEF LockHeld, PollClosed, Raises, Leave
  <1>23. CASE Deliver
    BY <1>23 DEF LockHeld, Deliver
  <1>24. CASE DeliverFails
    BY <1>24 DEF LockHeld, DeliverFails, Raises, Leave
  <1>25. CASE Pop
    BY <1>25 DEF LockHeld, Pop, Raises, Leave
  <1>26. CASE Count
    BY <1>26 DEF LockHeld, Count
  <1>27. CASE Handle
    BY <1>27 DEF LockHeld, Handle
  <1>28. CASE Judge
    BY <1>28 DEF LockHeld, Judge
  <1>29. CASE CallStop
    BY <1>29 DEF LockHeld, CallStop
  <1>30. CASE AcquireLock
    BY <1>30 DEF LockHeld, AcquireLock
  <1>31. CASE UnblockStep
    BY <1>31 DEF LockHeld, UnblockStep, CloseAll
  <1>32. CASE GiveUp
    BY <1>32 DEF LockHeld, GiveUp
  <1>33. CASE FinishCommit
    BY <1>33 DEF LockHeld, FinishCommit
  <1>34. CASE TakeHandles
    BY <1>34 DEF LockHeld, TakeHandles
  <1>35. CASE UnsetHandles
    BY <1>35 DEF LockHeld, UnsetHandles
  <1>36. CASE CloseHandle
    BY <1>36 DEF LockHeld, CloseHandle, CloseAll
  <1>37. CASE StopReturns
    BY <1>37 DEF LockHeld, StopReturns
  <1>38. CASE UNCHANGED vars
    BY <1>38 DEF LockHeld, vars
  <1>. QED BY <1>1, <1>2, <1>3, <1>4, <1>5, <1>6, <1>7, <1>8, <1>9, <1>10, <1>11, <1>12,
              <1>13, <1>14, <1>15, <1>16, <1>17, <1>18, <1>19, <1>20, <1>21, <1>22, <1>23,
              <1>24, <1>25, <1>26, <1>27, <1>28, <1>29, <1>30, <1>31, <1>32, <1>33, <1>34,
              <1>35, <1>36, <1>37, <1>38
           DEF Next, Building, Polling, Looping, Stopping

LEMMA ShutdownSeenStep ==
  ASSUME PointsOK, LifecycleTypeOK, LockHeld, ShutdownSeen, OpenIsHeld, CountedNext, [Next]_vars, ~forced'
  PROVE  ShutdownSeen'
  <1>. USE DEF BuildPoints, LockedPoints, handles, pipelineVars, historyVars, runVars, stopVars
  <1>1. CASE Start
    <2>1. rpc = "new" /\ ~shutdown /\ ~shutdown' /\ rpc' = "client" /\ UNCHANGED <<lock, spc, stops>>
      BY <1>1, Zenon DEF Start
    <2>2. spc = "idle" /\ ~(stops > 0)
      BY <2>1, Zenon DEF ShutdownSeen
    <2>3. lock = "free"
      BY <2>1, <2>2 DEF LockHeld, PointsOK
    <2>4. stops = 0
      BY <2>2 DEF LifecycleTypeOK
    <2>. QED BY <2>1, <2>2, <2>3, <2>4 DEF ShutdownSeen
  <1>2. CASE Rebuild
    <2>1. rpc = "rebuild" /\ rpc' \in {"step", "discard"} /\ UNCHANGED <<lock, shutdown, spc, stops>>
      BY <1>2, Zenon DEF Rebuild
    <2>. QED BY <2>1 DEF ShutdownSeen, LockHeld
  <1>3. CASE DiscardListener
    BY <1>3 DEF ShutdownSeen, DiscardListener, CloseAll
  <1>4. CASE DiscardProducer
    BY <1>4 DEF ShutdownSeen, DiscardProducer, CloseAll
  <1>5. CASE Discarded
    BY <1>5 DEF ShutdownSeen, Discarded, Leave
  <1>6. CASE BuildClient
    BY <1>6 DEF ShutdownSeen, BuildClient, Construct
  <1>7. CASE BuildListener
    BY <1>7 DEF ShutdownSeen, BuildListener, Construct
  <1>8. CASE StartListener
    BY <1>8 DEF ShutdownSeen, StartListener
  <1>9. CASE BindConsumer
    BY <1>9 DEF ShutdownSeen, BindConsumer
  <1>10. CASE Reconcile
    BY <1>10 DEF ShutdownSeen, Reconcile
  <1>11. CASE BuildProducer
    BY <1>11 DEF ShutdownSeen, BuildProducer, Construct
  <1>12. CASE InitProducer
    BY <1>12 DEF ShutdownSeen, InitProducer
  <1>13. CASE Bind
    BY <1>13 DEF ShutdownSeen, Bind
  <1>14. CASE BuildFails
    BY <1>14 DEF ShutdownSeen, BuildFails
  <1>15. CASE PollReply
    BY <1>15 DEF ShutdownSeen, PollReply
  <1>16. CASE PollEmpty
    BY <1>16 DEF ShutdownSeen, PollEmpty
  <1>17. CASE PollFails
    BY <1>17 DEF ShutdownSeen, PollFails, Raises, Leave
  <1>18. CASE Run
    BY <1>18 DEF ShutdownSeen, Run
  <1>19. CASE CheckShutdown
    BY <1>19 DEF ShutdownSeen, CheckShutdown
  <1>20. CASE TakeLock
    BY <1>20 DEF ShutdownSeen, TakeLock, NextPoint
  <1>21. CASE Step
    <2>1. rpc = "step" /\ UNCHANGED <<shutdown, spc, stops>>
      BY <1>21, Zenon DEF Step
    <2>2. \/ rpc' \in {"polling", "delivering"} /\ lock' = lock
          \/ Leave("recoverable")
      BY <1>21, Zenon DEF Step, Raises
    <2>. QED BY <2>1, <2>2 DEF ShutdownSeen, LockHeld, Leave
  <1>22. CASE PollClosed
    BY <1>22 DEF ShutdownSeen, PollClosed, Raises, Leave
  <1>23. CASE Deliver
    BY <1>23 DEF ShutdownSeen, Deliver
  <1>24. CASE DeliverFails
    BY <1>24 DEF ShutdownSeen, DeliverFails, Raises, Leave
  <1>25. CASE Pop
    BY <1>25 DEF ShutdownSeen, Pop, Raises, Leave
  <1>26. CASE Count
    BY <1>26 DEF ShutdownSeen, Count
  <1>27. CASE Handle
    BY <1>27 DEF ShutdownSeen, Handle
  <1>28. CASE Judge
    BY <1>28 DEF ShutdownSeen, Judge
  <1>29. CASE CallStop
    <2>1. /\ shutdown' /\ spc = "idle" /\ spc' = "first" /\ UNCHANGED <<lock, rpc, stops>>
          /\ lock = "free" => rpc \notin BuildPoints
      BY <1>29, Zenon DEF CallStop
    <2>2. rpc \in BuildPoints => lock = "run"
      BY <2>1 DEF LockHeld, PointsOK
    <2>. QED BY <2>1, <2>2 DEF ShutdownSeen
  <1>30. CASE AcquireLock
    <2>1. /\ spc # "idle" /\ lock = "free" /\ lock' = "stop" /\ spc' = "finish"
          /\ UNCHANGED <<shutdown, rpc, stops>>
      BY <1>30, Zenon DEF AcquireLock
    <2>. QED BY <2>1 DEF ShutdownSeen, LockHeld
  <1>31. CASE UnblockStep
    BY <1>31 DEF ShutdownSeen, UnblockStep, CloseAll
  <1>32. CASE GiveUp
    BY <1>32 DEF ShutdownSeen, GiveUp
  <1>33. CASE FinishCommit
    BY <1>33 DEF ShutdownSeen, FinishCommit
  <1>34. CASE TakeHandles
    BY <1>34 DEF ShutdownSeen, TakeHandles
  <1>35. CASE UnsetHandles
    BY <1>35 DEF ShutdownSeen, UnsetHandles
  <1>36. CASE CloseHandle
    BY <1>36 DEF ShutdownSeen, CloseHandle, CloseAll
  <1>37. CASE StopReturns
    <2>1. /\ spc = "close" /\ stops' = stops + 1 /\ spc' = "idle"
          /\ lock' = IF lock = "stop" THEN "free" ELSE lock
          /\ UNCHANGED <<shutdown, rpc>>
      BY <1>37, Zenon DEF StopReturns
    <2>. QED BY <2>1 DEF ShutdownSeen, LockHeld
  <1>38. CASE UNCHANGED vars
    BY <1>38 DEF ShutdownSeen, vars
  <1>. QED BY <1>1, <1>2, <1>3, <1>4, <1>5, <1>6, <1>7, <1>8, <1>9, <1>10, <1>11, <1>12,
              <1>13, <1>14, <1>15, <1>16, <1>17, <1>18, <1>19, <1>20, <1>21, <1>22, <1>23,
              <1>24, <1>25, <1>26, <1>27, <1>28, <1>29, <1>30, <1>31, <1>32, <1>33, <1>34,
              <1>35, <1>36, <1>37, <1>38
           DEF Next, Building, Polling, Looping, Stopping

LEMMA OpenIsHeldStep ==
  ASSUME PointsOK, LifecycleTypeOK, LockHeld, ShutdownSeen, OpenIsHeld, CountedNext, [Next]_vars, ~forced'
  PROVE  OpenIsHeld'
  <1>. USE DEF BuildPoints, LockedPoints, handles, pipelineVars, historyVars, runVars, stopVars
  <1>a. rpc \in LockedPoints \cup BuildPoints => spc \notin {"unset", "close"} /\ ~(stops > 0)
    BY DEF LockHeld, ShutdownSeen
  <1>b. spc \notin {"unset", "close"} => live \subseteq {client, listener, producer}
    <2>1. spc \notin {"unset", "close"} => closing = << >>
      BY DEF OpenIsHeld
    <2>2. closing = << >> => Taken = {}
      BY DEF Taken
    <2>. QED BY <2>1, <2>2 DEF OpenIsHeld
  <1>c. built \in Nat
    BY DEF LifecycleTypeOK
  <1>1. CASE Start
    BY <1>1 DEF OpenIsHeld, Taken, Start
  <1>2. CASE Rebuild
    BY <1>2 DEF OpenIsHeld, Taken, Rebuild
  <1>3. CASE DiscardListener
    BY <1>3 DEF OpenIsHeld, Taken, DiscardListener, CloseAll
  <1>4. CASE DiscardProducer
    BY <1>4 DEF OpenIsHeld, Taken, DiscardProducer, CloseAll
  <1>5. CASE Discarded
    BY <1>5 DEF OpenIsHeld, Taken, Discarded, Leave
  <1>6. CASE BuildClient
    <2>1. rpc = "client" /\ rpc' = "listener" /\ UNCHANGED <<listener, producer, spc, closing, stops>>
      BY <1>6, Zenon DEF BuildClient
    <2>2. \/ live' = live \cup {built + 1} /\ client' = built + 1 /\ client = 0
          \/ UNCHANGED <<live, client>>
      BY <1>6 DEF BuildClient, Construct
    <2>. QED BY <1>a, <1>b, <1>c, <2>1, <2>2 DEF OpenIsHeld
  <1>7. CASE BuildListener
    <2>1. /\ rpc = "listener" /\ rpc' = "start" /\ listener' = built + 1
          /\ mine' = [listener |-> listener', client |-> client']
          /\ UNCHANGED <<live, client, producer, spc, closing, stops>>
      BY <1>7 DEF BuildListener, Construct
    <2>. QED BY <1>a, <1>b, <1>c, <2>1 DEF OpenIsHeld
  <1>8. CASE StartListener
    <2>1. /\ rpc = "start" /\ rpc' = "connect" /\ listener # 0 /\ mine.client # 0
          /\ live' = live \cup {mine.client}
          /\ UNCHANGED <<handles, mine, spc, closing, stops>>
      BY <1>8, Zenon DEF StartListener
    <2>2. mine = [listener |-> listener, client |-> client]
      BY <2>1, Zenon DEF OpenIsHeld
    <2>3. mine.client = client
      BY <2>2
    <2>. QED BY <1>a, <1>b, <2>1, <2>2, <2>3 DEF OpenIsHeld
  <1>9. CASE BindConsumer
    <2>1. /\ rpc = "connect" /\ rpc' \in {"producer", "reconcile"}
          /\ live' = live \cup {mine.listener, mine.client}
          /\ UNCHANGED <<handles, mine, spc, closing, stops>>
      BY <1>9, Zenon DEF BindConsumer
    <2>2. mine = [listener |-> listener, client |-> client] /\ listener # 0 /\ client # 0
      BY <2>1, Zenon DEF OpenIsHeld
    <2>3. mine.client = client /\ mine.listener = listener
      BY <2>2
    <2>. QED BY <1>a, <1>b, <2>1, <2>2, <2>3 DEF OpenIsHeld
  <1>10. CASE Reconcile
    <2>1. /\ rpc = "reconcile" /\ rpc' = "producer" /\ live' = live \cup {mine.client}
          /\ UNCHANGED <<handles, spc, closing, stops>>
      BY <1>10, Zenon DEF Reconcile
    <2>2. mine = [listener |-> listener, client |-> client] /\ client # 0
      BY <2>1, Zenon DEF OpenIsHeld
    <2>3. mine.client = client
      BY <2>2
    <2>. QED BY <1>a, <1>b, <2>1, <2>2, <2>3 DEF OpenIsHeld
  <1>11. CASE BuildProducer
    <2>1. /\ rpc = "producer" /\ rpc' = "init" /\ live' = live \cup {built + 1} /\ producer' = built + 1
          /\ UNCHANGED <<client, listener, spc, closing, stops>>
      BY <1>11 DEF BuildProducer, Construct
    <2>. QED BY <1>a, <1>b, <1>c, <2>1 DEF OpenIsHeld
  <1>12. CASE InitProducer
    BY <1>12 DEF OpenIsHeld, Taken, InitProducer
  <1>13. CASE Bind
    BY <1>13 DEF OpenIsHeld, Taken, Bind
  <1>14. CASE BuildFails
    <2>1. /\ rpc \in BuildPoints /\ rpc' = "discard" /\ live' \subseteq live
          /\ UNCHANGED <<handles, spc, closing, stops>>
      BY <1>14, Zenon DEF BuildFails
    <2>. QED BY <1>a, <1>b, <2>1 DEF OpenIsHeld
  <1>15. CASE PollReply
    BY <1>15 DEF OpenIsHeld, Taken, PollReply
  <1>16. CASE PollEmpty
    BY <1>16 DEF OpenIsHeld, Taken, PollEmpty
  <1>17. CASE PollFails
    <2>1. rpc = "polling" /\ UNCHANGED <<handles, live, spc, closing, stops>>
      BY <1>17, Zenon DEF PollFails, Raises
    <2>2. lock = "run"
      BY <2>1 DEF LockHeld
    <2>3. rpc' = "handle"
      BY <1>17, <2>2, Zenon DEF PollFails, Raises, Leave
    <2>. QED BY <2>1, <2>3 DEF OpenIsHeld, Taken
  <1>18. CASE Run
    BY <1>18 DEF OpenIsHeld, Taken, Run
  <1>19. CASE CheckShutdown
    BY <1>19 DEF OpenIsHeld, Taken, CheckShutdown
  <1>20. CASE TakeLock
    BY <1>20 DEF OpenIsHeld, Taken, TakeLock, NextPoint
  <1>21. CASE Step
    <2>1. rpc = "step" /\ UNCHANGED <<handles, live, spc, closing, stops>>
      BY <1>21, Zenon DEF Step, Raises
    <2>2. lock = "run"
      BY <2>1 DEF LockHeld
    <2>3. rpc' \in {"handle", "polling", "delivering"}
      BY <1>21, <2>2, Zenon DEF Step, Raises, Leave
    <2>. QED BY <2>1, <2>3 DEF OpenIsHeld, Taken
  <1>22. CASE PollClosed
    <2>1. rpc = "polling" /\ UNCHANGED <<handles, live, spc, closing, stops>>
      BY <1>22, Zenon DEF PollClosed, Raises
    <2>2. lock = "run"
      BY <2>1 DEF LockHeld
    <2>3. rpc' = "handle"
      BY <1>22, <2>2, Zenon DEF PollClosed, Raises, Leave
    <2>. QED BY <2>1, <2>3 DEF OpenIsHeld, Taken
  <1>23. CASE Deliver
    BY <1>23 DEF OpenIsHeld, Taken, Deliver
  <1>24. CASE DeliverFails
    <2>1. rpc = "delivering" /\ UNCHANGED <<handles, live, spc, closing, stops>>
      BY <1>24, Zenon DEF DeliverFails, Raises
    <2>2. lock = "run"
      BY <2>1 DEF LockHeld
    <2>3. rpc' = "handle"
      BY <1>24, <2>2, Zenon DEF DeliverFails, Raises, Leave
    <2>. QED BY <2>1, <2>3 DEF OpenIsHeld, Taken
  <1>25. CASE Pop
    <2>1. rpc = "pop" /\ UNCHANGED <<handles, live, spc, closing, stops>>
      BY <1>25, Zenon DEF Pop, Raises
    <2>2. lock = "run"
      BY <2>1 DEF LockHeld
    <2>3. rpc' \in {"handle", "count"}
      BY <1>25, <2>2, Zenon DEF Pop, Raises, Leave
    <2>. QED BY <2>1, <2>3 DEF OpenIsHeld, Taken
  <1>26. CASE Count
    BY <1>26 DEF OpenIsHeld, Taken, Count
  <1>27. CASE Handle
    BY <1>27 DEF OpenIsHeld, Taken, Handle
  <1>28. CASE Judge
    BY <1>28 DEF OpenIsHeld, Taken, Judge
  <1>29. CASE CallStop
    BY <1>29 DEF OpenIsHeld, Taken, CallStop
  <1>30. CASE AcquireLock
    BY <1>30 DEF OpenIsHeld, Taken, AcquireLock
  <1>31. CASE UnblockStep
    BY <1>31 DEF OpenIsHeld, Taken, UnblockStep, CloseAll
  <1>32. CASE GiveUp
    BY <1>32 DEF OpenIsHeld, Taken, GiveUp
  <1>33. CASE FinishCommit
    BY <1>33 DEF OpenIsHeld, Taken, FinishCommit
  <1>34. CASE TakeHandles
    <2>1. /\ spc = "take" /\ spc' = "unset" /\ closing' = <<producer, listener, client>>
          /\ UNCHANGED <<lock, handles, live, runVars, stops>>
      BY <1>34, Zenon DEF TakeHandles
    <2>2. Taken' = {client, listener, producer}
      <3>1. Len(closing') = 3 /\ 1..3 = {1, 2, 3}
        BY <2>1
      <3>2. closing'[1] = producer /\ closing'[2] = listener /\ closing'[3] = client
        BY <2>1
      <3>. QED BY <3>1, <3>2 DEF Taken
    <2>. QED BY <1>b, <2>1, <2>2 DEF OpenIsHeld
  <1>35. CASE UnsetHandles
    <2>1. /\ spc = "unset" /\ spc' = "close"
          /\ client' = 0 /\ listener' = 0 /\ producer' = 0
          /\ UNCHANGED <<lock, closing, live, rpc>>
      BY <1>35, Zenon DEF UnsetHandles
    <2>2. rpc \notin LockedPoints \cup BuildPoints
      BY <2>1 DEF LockHeld, ShutdownSeen
    <2>3. Taken' = Taken
      BY <2>1 DEF Taken
    <2>. QED BY <2>1, <2>2, <2>3 DEF OpenIsHeld
  <1>36. CASE CloseHandle
    <2>1. spc = "close" /\ UNCHANGED <<lock, handles, runVars, spc, stops>>
      BY <1>36, Zenon DEF CloseHandle
    <2>2. /\ closing # << >> /\ closing' = Tail(closing)
          /\ live' = live \ ({Head(closing)} \ {0})
      BY <1>36, Zenon DEF CloseHandle, CloseAll
    <2>3. rpc \notin LockedPoints \cup BuildPoints
      BY <2>1 DEF LockHeld, ShutdownSeen
    <2>4. Taken \subseteq {Head(closing)} \cup Taken'
      <3>1. closing \in Seq(Nat) /\ Len(closing) > 0
        BY <2>2 DEF LifecycleTypeOK
      <3>2. ASSUME NEW i \in 1..Len(closing)
            PROVE  closing[i] = closing[1] \/ \E j \in 1..Len(Tail(closing)) : closing[i] = Tail(closing)[j]
        <4>1. CASE i = 1
          BY <4>1
        <4>2. CASE i # 1
          <5>1. i - 1 \in 1..Len(Tail(closing)) /\ Tail(closing)[i - 1] = closing[i]
            BY <3>1, <4>2
          <5>. QED BY <5>1
        <4>. QED BY <4>1, <4>2
      <3>3. Head(closing) = closing[1]
        BY <3>1
      <3>. QED BY <2>2, <3>2, <3>3 DEF Taken
    <2>. QED BY <2>1, <2>2, <2>3, <2>4 DEF OpenIsHeld
  <1>37. CASE StopReturns
    BY <1>37 DEF OpenIsHeld, Taken, StopReturns
  <1>38. CASE UNCHANGED vars
    BY <1>38 DEF OpenIsHeld, Taken, vars
  <1>. QED BY <1>1, <1>2, <1>3, <1>4, <1>5, <1>6, <1>7, <1>8, <1>9, <1>10, <1>11, <1>12,
              <1>13, <1>14, <1>15, <1>16, <1>17, <1>18, <1>19, <1>20, <1>21, <1>22, <1>23,
              <1>24, <1>25, <1>26, <1>27, <1>28, <1>29, <1>30, <1>31, <1>32, <1>33, <1>34,
              <1>35, <1>36, <1>37, <1>38
           DEF Next, Building, Polling, Looping, Stopping

LEMMA CountedNextStep ==
  ASSUME PointsOK, LifecycleTypeOK, LockHeld, ShutdownSeen, OpenIsHeld, CountedNext, [Next]_vars, ~forced'
  PROVE  CountedNext'
  <1>. USE DEF BuildPoints, LockedPoints, handles, pipelineVars, historyVars, runVars, stopVars
  <1>1. CASE Start
    BY <1>1 DEF CountedNext, LifecycleTypeOK, Start
  <1>2. CASE Rebuild
    BY <1>2 DEF CountedNext, LifecycleTypeOK, Rebuild
  <1>3. CASE DiscardListener
    BY <1>3 DEF CountedNext, LifecycleTypeOK, DiscardListener, CloseAll
  <1>4. CASE DiscardProducer
    BY <1>4 DEF CountedNext, LifecycleTypeOK, DiscardProducer, CloseAll
  <1>5. CASE Discarded
    BY <1>5 DEF CountedNext, LifecycleTypeOK, Discarded, Leave
  <1>6. CASE BuildClient
    BY <1>6 DEF CountedNext, LifecycleTypeOK, BuildClient, Construct
  <1>7. CASE BuildListener
    BY <1>7 DEF CountedNext, LifecycleTypeOK, BuildListener, Construct
  <1>8. CASE StartListener
    BY <1>8 DEF CountedNext, LifecycleTypeOK, StartListener
  <1>9. CASE BindConsumer
    BY <1>9 DEF CountedNext, LifecycleTypeOK, BindConsumer
  <1>10. CASE Reconcile
    BY <1>10 DEF CountedNext, LifecycleTypeOK, Reconcile
  <1>11. CASE BuildProducer
    BY <1>11 DEF CountedNext, LifecycleTypeOK, BuildProducer, Construct
  <1>12. CASE InitProducer
    BY <1>12 DEF CountedNext, LifecycleTypeOK, InitProducer
  <1>13. CASE Bind
    BY <1>13 DEF CountedNext, LifecycleTypeOK, Bind
  <1>14. CASE BuildFails
    BY <1>14 DEF CountedNext, LifecycleTypeOK, BuildFails
  <1>15. CASE PollReply
    BY <1>15 DEF CountedNext, LifecycleTypeOK, PollReply
  <1>16. CASE PollEmpty
    <2>1. /\ rpc = "polling" /\ last' = 0 /\ rpc' = "top" /\ lock' = "free"
          /\ UNCHANGED <<pipeline, stops, finishing, acked, byStop, counted>>
      BY <1>16, Zenon DEF PollEmpty
    <2>. QED BY <2>1 DEF CountedNext, LifecycleTypeOK, LockHeld, ShutdownSeen
  <1>17. CASE PollFails
    BY <1>17 DEF CountedNext, LifecycleTypeOK, PollFails, Raises, Leave
  <1>18. CASE Run
    BY <1>18 DEF CountedNext, LifecycleTypeOK, Run
  <1>19. CASE CheckShutdown
    BY <1>19 DEF CountedNext, LifecycleTypeOK, CheckShutdown
  <1>20. CASE TakeLock
    BY <1>20 DEF CountedNext, LifecycleTypeOK, TakeLock, NextPoint
  <1>21. CASE Step
    BY <1>21 DEF CountedNext, LifecycleTypeOK, Step, Raises, Leave
  <1>22. CASE PollClosed
    BY <1>22 DEF CountedNext, LifecycleTypeOK, PollClosed, Raises, Leave
  <1>23. CASE Deliver
    <2>1. /\ rpc = "delivering" /\ acked' = Append(acked, pending) /\ finishing' = "none" /\ pending' = 0
          /\ rpc' = "pop" /\ UNCHANGED <<lock, pipeline, stops, counted, last, byStop>>
      BY <1>23, Zenon DEF Deliver
    <2>2. byStop = 0
      BY <2>1 DEF CountedNext, LifecycleTypeOK, LockHeld, ShutdownSeen
    <2>3. acked \in Seq(Nat) /\ counted \in Seq(Nat) /\ pending \in Nat
      BY DEF LifecycleTypeOK
    <2>4. Len(acked') = Len(acked) + 1 /\ acked'[Len(acked')] = pending
      BY <2>1, <2>3
    <2>5. \A i \in 1..Len(acked) : acked'[i] = acked[i]
      BY <2>1, <2>3
    <2>6. Len(counted) = Len(acked)
      BY <2>1, <2>2, <2>3 DEF CountedNext
    <2>. QED BY <2>1, <2>2, <2>3, <2>4, <2>5, <2>6 DEF CountedNext
  <1>24. CASE DeliverFails
    BY <1>24 DEF CountedNext, LifecycleTypeOK, DeliverFails, Raises, Leave
  <1>25. CASE Pop
    <2>1. rpc = "pop" /\ pipeline # NoPipeline
      BY <1>25, Zenon DEF Pop, CountedNext
    <2>2. /\ popped' = last /\ last' = 0 /\ rpc' = "count" /\ lock' = "free"
          /\ UNCHANGED <<pipeline, stops, finishing, acked, byStop, counted, pending>>
      BY <1>25, <2>1, Zenon DEF Pop
    <2>3. byStop = 0
      BY <2>1 DEF CountedNext, LifecycleTypeOK, LockHeld, ShutdownSeen
    <2>. QED BY <2>1, <2>2, <2>3 DEF CountedNext
  <1>26. CASE Count
    <2>1. /\ rpc = "count" /\ counted' = Append(counted, popped) /\ rpc' = "top"
          /\ UNCHANGED <<lock, pipeline, stops, finishing, acked, byStop, pending, last>>
      BY <1>26, Zenon DEF Count
    <2>2. byStop = 0 /\ Len(acked) = Len(counted) + 1
      BY <2>1 DEF CountedNext, LifecycleTypeOK
    <2>3. \A i \in 1..Len(counted') : counted'[i] = acked[i]
      BY <2>1, <2>2 DEF CountedNext, LifecycleTypeOK
    <2>. QED BY <2>1, <2>2, <2>3 DEF CountedNext, LifecycleTypeOK
  <1>27. CASE Handle
    BY <1>27 DEF CountedNext, LifecycleTypeOK, Handle
  <1>28. CASE Judge
    BY <1>28 DEF CountedNext, LifecycleTypeOK, Judge
  <1>29. CASE CallStop
    BY <1>29 DEF CountedNext, LifecycleTypeOK, CallStop
  <1>30. CASE AcquireLock
    BY <1>30 DEF CountedNext, LifecycleTypeOK, AcquireLock
  <1>31. CASE UnblockStep
    BY <1>31 DEF CountedNext, LifecycleTypeOK, UnblockStep, CloseAll
  <1>32. CASE GiveUp
    BY <1>32 DEF CountedNext, LifecycleTypeOK, GiveUp
  <1>33. CASE FinishCommit
    <2>1. spc = "finish" /\ UNCHANGED <<lock, pipeline, stops, rpc, popped, last, counted>>
      BY <1>33, Zenon DEF FinishCommit
    <2>2. lock = "stop" /\ rpc \notin LockedPoints
      BY <2>1 DEF CountedNext, LifecycleTypeOK, LockHeld, ShutdownSeen
    <2>3. CASE UNCHANGED <<finishing, pending, acked, byStop>>
      BY <2>1, <2>2, <2>3 DEF CountedNext, LifecycleTypeOK
    <2>4. CASE /\ finishing = "commit" /\ finishing' = "none" /\ pending' = 0
               /\ acked' = Append(acked, pending) /\ byStop' = byStop + 1
      <3>1. acked \in Seq(Nat) /\ pending \in Nat /\ Len(counted) \in Nat /\ byStop \in Nat
        BY DEF LifecycleTypeOK
      <3>2. Len(acked') = Len(acked) + 1 /\ \A i \in 1..Len(acked) : acked'[i] = acked[i]
        BY <2>4, <3>1
      <3>3. Len(counted) <= Len(acked)
        BY <3>1 DEF CountedNext
      <3>. QED BY <2>1, <2>2, <2>4, <3>1, <3>2, <3>3 DEF CountedNext
    <2>5. CASE finishing = "commit" /\ UNCHANGED <<pending, acked, byStop>>
      BY <2>1, <2>2, <2>5 DEF CountedNext, LifecycleTypeOK
    <2>. QED BY <1>33, <2>3, <2>4, <2>5, Zenon DEF FinishCommit
  <1>34. CASE TakeHandles
    BY <1>34 DEF CountedNext, LifecycleTypeOK, TakeHandles
  <1>35. CASE UnsetHandles
    <2>1. spc = "unset" /\ UNCHANGED <<lock, stops, runVars, pipelineVars, historyVars>>
      BY <1>35, Zenon DEF UnsetHandles
    <2>2. rpc \notin LockedPoints
      BY <2>1 DEF CountedNext, LifecycleTypeOK, LockHeld, ShutdownSeen
    <2>. QED BY <2>1, <2>2 DEF CountedNext, LifecycleTypeOK
  <1>36. CASE CloseHandle
    BY <1>36 DEF CountedNext, LifecycleTypeOK, CloseHandle, CloseAll
  <1>37. CASE StopReturns
    <2>1. /\ spc = "close" /\ stops' = stops + 1
          /\ UNCHANGED <<handles, runVars, pipelineVars, historyVars>>
      BY <1>37, Zenon DEF StopReturns
    <2>2. stops \in Nat
      BY DEF LifecycleTypeOK
    <2>. QED BY <2>1, <2>2 DEF CountedNext
  <1>38. CASE UNCHANGED vars
    BY <1>38 DEF CountedNext, LifecycleTypeOK, vars
  <1>. QED BY <1>1, <1>2, <1>3, <1>4, <1>5, <1>6, <1>7, <1>8, <1>9, <1>10, <1>11, <1>12,
              <1>13, <1>14, <1>15, <1>16, <1>17, <1>18, <1>19, <1>20, <1>21, <1>22, <1>23,
              <1>24, <1>25, <1>26, <1>27, <1>28, <1>29, <1>30, <1>31, <1>32, <1>33, <1>34,
              <1>35, <1>36, <1>37, <1>38
           DEF Next, Building, Polling, Looping, Stopping

-----------------------------------------------------------------------------
(***************************************************************************)
(* What follows for stop() and run().                                      *)
(***************************************************************************)
LEMMA LifecycleStarts == Init => LifecycleInv
  <1>. SUFFICES ASSUME Init PROVE LifecycleInv
    OBVIOUS
  <1>. USE DEF Init
  <1>1. PointsOK
    BY DEF PointsOK, RunPoints
  <1>2. LifecycleTypeOK
    BY DEF LifecycleTypeOK
  <1>3. LockHeld
    BY DEF LockHeld, LockedPoints, BuildPoints
  <1>4. ShutdownSeen
    BY DEF ShutdownSeen, LockedPoints, BuildPoints
  <1>5. OpenIsHeld
    BY DEF OpenIsHeld
  <1>6. CountedNext
    BY DEF CountedNext
  <1>. QED BY <1>1, <1>2, <1>3, <1>4, <1>5, <1>6 DEF LifecycleInv

LEMMA LifecycleStep == LifecycleInv /\ [Next]_vars => LifecycleInv'
  <1>. SUFFICES ASSUME LifecycleInv, [Next]_vars PROVE LifecycleInv'
    OBVIOUS
  <1>1. PointsOK' /\ LifecycleTypeOK'
    BY PointsStep, LifecycleTypeStep DEF LifecycleInv
  <1>2. ASSUME ~forced'
        PROVE  LockHeld' /\ ShutdownSeen' /\ OpenIsHeld' /\ CountedNext'
    <2>1. ~forced
      BY <1>2, ForcedStays
    <2>. QED BY <1>2, <2>1, LockHeldStep, ShutdownSeenStep, OpenIsHeldStep, CountedNextStep
             DEF LifecycleInv
  <1>. QED BY <1>1, <1>2 DEF LifecycleInv

\* The inductive invariant: the lock, the shutdown, what is open and what is
\* counted next, for every stop() but those that gave up the lock.
THEOREM LifecycleInvariant == Spec => []LifecycleInv
  BY LifecycleStarts, LifecycleStep, PTL DEF Spec

\* A stop() that had the lock leaves nothing open, whatever run(), a rebuild or
\* the closing of the listener under a parked step have done before.
THEOREM StopLeavesNothingOpen == Spec => []StopReleasesAll
  <1>1. ASSUME LifecycleInv, Stopped, ~forced PROVE live = {}
    <2>1. spc = "idle" /\ stops > 0 /\ OpenIsHeld
      BY <1>1 DEF LifecycleInv, Stopped
    <2>2. closing = << >> /\ client = 0 /\ listener = 0 /\ producer = 0
      BY <2>1 DEF OpenIsHeld
    <2>3. Taken = {}
      BY <2>2 DEF Taken
    <2>. QED BY <2>1, <2>2, <2>3 DEF OpenIsHeld
  <1>2. LifecycleInv => StopReleasesAll
    BY <1>1 DEF StopReleasesAll
  <1>. QED BY <1>2, LifecycleInvariant, PTL

\* A batch is counted once, in order, unless stop() has finished it.
THEOREM BatchesAreCounted == Spec => []MetricsExact
  <1>1. ASSUME LifecycleInv, ~forced
        PROVE  /\ IsPrefix(counted, acked)
               /\ Len(acked) - Len(counted) = byStop + IF rpc \in {"pop", "count"} THEN 1 ELSE 0
    <2>1. counted \in Seq(Nat) /\ acked \in Seq(Nat) /\ byStop \in Nat
      BY <1>1 DEF LifecycleInv, LifecycleTypeOK
    <2>2. /\ Len(acked) = Len(counted) + byStop + IF rpc \in {"pop", "count"} THEN 1 ELSE 0
          /\ \A i \in 1..Len(counted) : counted[i] = acked[i]
      BY <1>1 DEF LifecycleInv, CountedNext
    <2>3. Len(counted) <= Len(acked)
      BY <2>1, <2>2
    <2>4. SubSeq(counted, 1, Len(counted)) = SubSeq(acked, 1, Len(counted))
      BY <2>1, <2>2, <2>3
    <2>5. IsPrefix(counted, acked)
      BY <2>3, <2>4 DEF IsPrefix
    <2>6. Len(acked) - Len(counted) = byStop + IF rpc \in {"pop", "count"} THEN 1 ELSE 0
      <3>1. Len(acked) \in Nat /\ Len(counted) \in Nat
        BY <2>1
      <3>2. CASE rpc \in {"pop", "count"}
        BY <2>1, <2>2, <3>1, <3>2
      <3>3. CASE rpc \notin {"pop", "count"}
        BY <2>1, <2>2, <3>1, <3>3
      <3>. QED BY <3>2, <3>3
    <2>. QED BY <2>5, <2>6
  <1>2. LifecycleInv => MetricsExact
    BY <1>1 DEF MetricsExact
  <1>. QED BY <1>2, LifecycleInvariant, PTL

\* The thread of run() may still have to notice the shutdown; it builds, polls
\* and acknowledges nothing any more.
THEOREM RunIsQuiet == Spec => NothingAfterStop
  <1>1. ASSUME LifecycleInv, Stopped, ~forced, [Next]_vars
        PROVE  UNCHANGED <<live, built, polled, acked>>
    <2>1. rpc \notin LockedPoints \cup BuildPoints /\ spc = "idle"
      BY <1>1 DEF LifecycleInv, ShutdownSeen, Stopped
    <2>. USE <2>1 DEF LockedPoints, BuildPoints, pipelineVars, historyVars
    <2>2. CASE Building
      BY <2>2 DEF Building, Start, Rebuild, BuildClient, BuildListener, StartListener, BindConsumer,
         Reconcile, BuildProducer, InitProducer, Bind, BuildFails, DiscardListener, DiscardProducer,
         Discarded
    <2>3. CASE Polling
      BY <2>3 DEF Polling, PollReply, PollEmpty, PollFails
    <2>4. CASE Looping
      BY <2>4
      DEF Looping, Run, CheckShutdown, TakeLock, Step, PollClosed, Deliver, DeliverFails, Pop,
         Count, Handle, Judge
    <2>5. CASE CallStop
      BY <2>5 DEF CallStop
    <2>6. CASE Stopping
      BY <2>6
      DEF Stopping, AcquireLock, UnblockStep, GiveUp, FinishCommit, TakeHandles, UnsetHandles,
         CloseHandle, StopReturns
    <2>7. CASE UNCHANGED vars
      BY <2>7 DEF vars
    <2>. QED BY <1>1, <2>2, <2>3, <2>4, <2>5, <2>6, <2>7 DEF Next
  <1>2. LifecycleInv /\ [Next]_vars => [Stopped /\ ~forced => UNCHANGED <<live, built, polled, acked>>]_vars
    BY <1>1
  <1>. QED BY <1>2, LifecycleInvariant, PTL DEF Spec, NothingAfterStop
=============================================================================
