------------------------- MODULE BridgeOrderProofs -------------------------
(***************************************************************************)
(* Proofs, for every stream, every number of retries and every number of   *)
(* failures, that the topic grows in commit order (GapFree), by whole      *)
(* versions when the producer is transactional (TxnAtomic), that a         *)
(* producer sends a record once (NoRepublish), and that the bridge         *)
(* implements the abstract specification Delivery (KeepsPromise).          *)
(***************************************************************************)
EXTENDS BridgeLoopProofs, FiniteSetTheorems

-----------------------------------------------------------------------------
(***************************************************************************)
(* Sequences of records in commit order.                                   *)
(***************************************************************************)
\* A queue in order stays so when its oldest record arrives, and whatever part
\* of it a dying client gets across leaves no gap.
LEMMA FollowsArrives ==
  ASSUME NEW T, NEW S, NEW q \in Seq(T), Follows(S, q)
  PROVE  /\ InOrder(S) /\ InOrder(S \cup Members(q))
         /\ q # << >> => InOrder(S \cup {Head(q)}) /\ Follows(S \cup {Head(q)}, Tail(q))
  <1>0. Len(q) \in Nat /\ DOMAIN q = 1..Len(q)
    OBVIOUS
  <1>1. InOrder(S)
    <2>1. 0 \in 0..Len(q) /\ {q[i] : i \in 1..0} = {}
      BY <1>0
    <2>2. InOrder(S \cup {q[i] : i \in 1..0})
      BY <2>1 DEF Follows
    <2>3. S \cup {q[i] : i \in 1..0} = S
      BY <2>1
    <2>. QED BY <2>2, <2>3
  <1>2. InOrder(S \cup Members(q))
    <2>1. Len(q) \in 0..Len(q) /\ {q[i] : i \in 1..Len(q)} = Members(q)
      BY <1>0 DEF Members
    <2>. QED BY <2>1 DEF Follows
  <1>3. ASSUME q # << >>
        PROVE  InOrder(S \cup {Head(q)}) /\ Follows(S \cup {Head(q)}, Tail(q))
    <2>0. /\ Len(q) >= 1 /\ Head(q) = q[1] /\ Len(Tail(q)) = Len(q) - 1
          /\ \A i \in 1..(Len(q) - 1) : Tail(q)[i] = q[i + 1]
      BY <1>0, <1>3
    <2>1. InOrder(S \cup {Head(q)})
      <3>1. 1 \in 0..Len(q) /\ {q[i] : i \in 1..1} = {Head(q)}
        BY <1>0, <2>0
      <3>2. InOrder(S \cup {q[i] : i \in 1..1})
        BY <3>1 DEF Follows
      <3>. QED BY <3>1, <3>2
    <2>2. ASSUME NEW n \in 0..Len(Tail(q))
          PROVE  InOrder((S \cup {Head(q)}) \cup {Tail(q)[i] : i \in 1..n})
      <3>1. n \in Nat /\ n + 1 \in 0..Len(q)
        BY <1>0, <2>0, <2>2
      <3>2. InOrder(S \cup {q[i] : i \in 1..(n + 1)})
        BY <3>1 DEF Follows
      <3>3. {q[i] : i \in 1..(n + 1)} = {Head(q)} \cup {Tail(q)[i] : i \in 1..n}
        <4>1. \A i \in 1..(n + 1) : q[i] \in {Head(q)} \cup {Tail(q)[j] : j \in 1..n}
          <5> TAKE i \in 1..(n + 1)
          <5>1. i = 1 \/ (i - 1 \in 1..n /\ i - 1 \in 1..(Len(q) - 1))
            BY <3>1, <1>0
          <5>2. i # 1 => Tail(q)[i - 1] = q[i]
            BY <5>1, <2>0
          <5>. QED BY <5>1, <5>2, <2>0
        <4>2. \A j \in 1..n : Tail(q)[j] \in {q[i] : i \in 1..(n + 1)}
          <5> TAKE j \in 1..n
          <5>1. j \in 1..(Len(q) - 1) /\ j + 1 \in 1..(n + 1)
            BY <3>1, <1>0
          <5>. QED BY <5>1, <2>0
        <4>3. Head(q) \in {q[i] : i \in 1..(n + 1)}
          BY <2>0, <3>1
        <4>. QED BY <4>1, <4>2, <4>3
      <3>4. S \cup {q[i] : i \in 1..(n + 1)} = (S \cup {Head(q)}) \cup {Tail(q)[i] : i \in 1..n}
        BY <3>3
      <3>. QED BY <3>2, <3>4
    <2>. QED BY <2>1, <2>2 DEF Follows
  <1>. QED BY <1>1, <1>2, <1>3

\* A record that continues the queue may be accepted into it.
LEMMA FollowsAccepts ==
  ASSUME NEW T, NEW S, NEW q \in Seq(T), NEW r \in T, Follows(S, q),
         InOrder(S \cup Members(q) \cup {r})
  PROVE  Follows(S, Append(q, r))
  <1>1. /\ Len(q) \in Nat /\ Len(Append(q, r)) = Len(q) + 1
        /\ \A i \in 1..Len(q) : Append(q, r)[i] = q[i]
        /\ Append(q, r)[Len(q) + 1] = r
        /\ DOMAIN q = 1..Len(q)
    OBVIOUS
  <1>2. ASSUME NEW n \in 0..Len(Append(q, r))
        PROVE  InOrder(S \cup {Append(q, r)[i] : i \in 1..n})
    <2>1. CASE n \in 0..Len(q)
      <3>1. \A i \in 1..n : Append(q, r)[i] = q[i]
        BY <1>1, <2>1
      <3>2. {Append(q, r)[i] : i \in 1..n} = {q[i] : i \in 1..n}
        BY <3>1
      <3>. QED BY <2>1, <3>2 DEF Follows
    <2>2. CASE n = Len(q) + 1
      <3>1. \A i \in 1..n : Append(q, r)[i] \in Members(q) \cup {r}
        BY <1>1, <2>2 DEF Members
      <3>2. \A i \in 1..Len(q) : q[i] \in {Append(q, r)[j] : j \in 1..n}
        <4> TAKE i \in 1..Len(q)
        <4>1. i \in 1..n /\ Append(q, r)[i] = q[i]
          BY <1>1, <2>2
        <4>. QED BY <4>1
      <3>3. r \in {Append(q, r)[j] : j \in 1..n}
        <4>1. n \in 1..n /\ Append(q, r)[n] = r
          BY <1>1, <2>2
        <4>. QED BY <4>1
      <3>4. S \cup {Append(q, r)[i] : i \in 1..n} = S \cup Members(q) \cup {r}
        BY <1>1, <3>1, <3>2, <3>3 DEF Members
      <3>. QED BY <3>4
    <2>3. n \in 0..Len(q) \/ n = Len(q) + 1
      BY <1>1, <1>2
    <2>. QED BY <2>1, <2>2, <2>3
  <1>. QED BY <1>2 DEF Follows

\* A reply holds nothing beyond its watermark.
LEMMA ReplyWithin ==
  ASSUME NEW lo \in 0..MaxVersion, NEW hi \in 1..MaxVersion, lo <= hi
  PROVE  Within(Members(Reply(lo, hi)), hi)
  <1> DEFINE groups == EndOf[hi] - EndOf[lo]
             n == groups + (IF Idle(hi) THEN 1 ELSE 0)
             f == [i \in 1..n |-> IF i <= groups THEN EndOf[lo] + i ELSE -hi]
  <1>1. EndOf[lo] \in Nat /\ EndOf[hi] \in Nat /\ EndOf[lo] <= EndOf[hi]
    BY StreamAssumption
  <1>2. ASSUME NEW i \in DOMAIN f PROVE f[i] <= EndOf[hi]
    BY <1>1, <1>2
  <1>3. Reply(lo, hi) = f
    BY DEF Reply
  <1>. QED BY <1>2, <1>3 DEF Within, Members

\* A reply holds every record once, and none that an earlier reply held.
LEMMA ReplyIsNew ==
  ASSUME NEW lo \in 0..MaxVersion, NEW hi \in (lo + 1)..MaxVersion
  PROVE  /\ Polled(Members(Reply(lo, hi)), hi)
         /\ \A i \in DOMAIN Reply(lo, hi) :
              /\ Reply(lo, hi)[i] > EndOf[lo] \/ -Reply(lo, hi)[i] > lo
              /\ \A j \in DOMAIN Reply(lo, hi) : Reply(lo, hi)[i] = Reply(lo, hi)[j] => i = j
  <1> DEFINE groups == EndOf[hi] - EndOf[lo]
             n == groups + (IF Idle(hi) THEN 1 ELSE 0)
             f == [i \in 1..n |-> IF i <= groups THEN EndOf[lo] + i ELSE -hi]
  <1>1. /\ EndOf[lo] \in Nat /\ EndOf[hi] \in Nat /\ EndOf[lo] <= EndOf[hi]
        /\ groups \in Nat /\ n \in groups..(groups + 1) /\ lo \in Nat /\ hi \in Nat /\ lo < hi
    BY StreamAssumption
  <1>2. /\ DOMAIN f = 1..n
        /\ \A i \in 1..n : f[i] = (IF i <= groups THEN EndOf[lo] + i ELSE -hi)
    OBVIOUS
  <1>. HIDE DEF f
  <1>3. ASSUME NEW i \in 1..n
        PROVE  /\ f[i] <= EndOf[hi] /\ -f[i] <= hi
               /\ f[i] > EndOf[lo] \/ -f[i] > lo
    BY <1>1, <1>2
  <1>4. ASSUME NEW i \in 1..n, NEW j \in 1..n, f[i] = f[j]
        PROVE  i = j
    BY <1>1, <1>2, <1>4
  <1>5. Reply(lo, hi) = f
    BY DEF Reply, f
  <1>. QED BY <1>2, <1>3, <1>4, <1>5 DEF Polled, Members

\* It continues a topic that holds everything up to the listener's position.
LEMMA ReplyFollows ==
  ASSUME NEW lo \in 0..MaxVersion, NEW hi \in 1..MaxVersion, lo <= hi,
         NEW S, InOrder(S), UpTo(lo) \subseteq S
  PROVE  Follows(S, Reply(lo, hi))
  <1> DEFINE groups == EndOf[hi] - EndOf[lo]
             n == groups + (IF Idle(hi) THEN 1 ELSE 0)
             f == [i \in 1..n |-> IF i <= groups THEN EndOf[lo] + i ELSE -hi]
  <1>1. /\ EndOf[lo] \in Nat /\ EndOf[hi] \in Nat /\ EndOf[lo] <= EndOf[hi]
        /\ groups \in Nat /\ n \in Nat
    BY StreamAssumption
  <1>2. Reply(lo, hi) = f
    BY DEF Reply
  <1>3. Len(f) = n /\ DOMAIN f = 1..n
    BY <1>1
  <1>4. \A i \in 1..n : f[i] = (IF i <= groups THEN EndOf[lo] + i ELSE -hi)
    OBVIOUS
  <1>. HIDE DEF f
  <1>5. ASSUME NEW m \in 0..n, NEW r \in S \cup {f[i] : i \in 1..m}, r > 0
        PROVE  1..r \subseteq S \cup {f[i] : i \in 1..m}
    <2>1. CASE r \in S
      BY <1>5, <2>1 DEF InOrder
    <2>2. CASE r \notin S
      <3>1. PICK i \in 1..m : r = f[i]
        BY <2>2
      <3>2. i \in 1..n /\ i <= groups /\ r = EndOf[lo] + i
        BY <1>1, <1>4, <1>5, <3>1
      <3>3. ASSUME NEW k \in 1..r, k \notin S
            PROVE  k \in {f[j] : j \in 1..m}
        <4>1. k > EndOf[lo]
          BY <1>1, <3>2, <3>3 DEF UpTo
        <4>2. k - EndOf[lo] \in 1..m /\ k - EndOf[lo] <= groups /\ k - EndOf[lo] \in 1..n
          BY <1>1, <3>2, <3>3, <4>1
        <4>3. f[k - EndOf[lo]] = k
          BY <1>1, <1>4, <4>2
        <4>. QED BY <4>2, <4>3
      <3>. QED BY <3>3
    <2>. QED BY <2>1, <2>2
  <1>6. Follows(S, f)
    BY <1>3, <1>5 DEF Follows, InOrder
  <1>. QED BY <1>2, <1>6

\* A transaction that completes the batch of position completes its versions.
LEMMA CompletedBatch ==
  ASSUME ListenerTypeOK, position <= committed, Whole(topic), Within(staged, position),
         UpTo(position) \subseteq topic \cup staged, staged \subseteq Record
  PROVE  Whole(topic \cup staged)
  <1>1. PICK v \in 0..committed : {r \in topic : r > 0} = UpTo(v)
    BY DEF Whole
  <1>2. /\ v \in 0..MaxVersion /\ position \in 0..MaxVersion /\ position \in 0..committed
        /\ EndOf[v] \in Nat /\ EndOf[position] \in Nat
        /\ v <= position => EndOf[v] <= EndOf[position]
        /\ position <= v => EndOf[position] <= EndOf[v]
    BY StreamAssumption DEF ListenerTypeOK
  <1>3. \A r \in staged : r \in Int /\ r <= EndOf[position]
    BY <1>2, StreamAssumption DEF Within, Record, Version
  <1>4. CASE v <= position
    <2>1. {r \in topic \cup staged : r > 0} = UpTo(position)
      BY <1>1, <1>2, <1>3, <1>4 DEF UpTo
    <2>. QED BY <1>2, <2>1 DEF Whole
  <1>5. CASE position <= v
    <2>1. {r \in topic \cup staged : r > 0} = UpTo(v)
      BY <1>1, <1>2, <1>3, <1>5 DEF UpTo
    <2>. QED BY <1>1, <2>1 DEF Whole
  <1>. QED BY <1>2, <1>4, <1>5

-----------------------------------------------------------------------------
(***************************************************************************)
(* The versions: the listener is behind the database, the cursor behind    *)
(* the listener, and what a crash leaves behind the cursor.                *)
(***************************************************************************)
\* A listener starts at the cursor or, without one, at what the database keeps,
\* and moves on with the database; the cursor follows it.
LEMMA VersionsStep ==
  ASSUME TypeOK, HandlesOpen, CursorDurable, VersionsInOrder, [Next]_vars
  PROVE  VersionsInOrder'
  <1>0. /\ committed \in Int /\ minVersion \in Int /\ minVersion >= 1 /\ position \in Int
        /\ cursorFile \in Nat /\ durableCursor \in Int
    BY DEF TypeOK, ListenerTypeOK, CursorTypeOK
  <1>. USE <1>0 DEF VersionsInOrder, Goto, Raise, loopVars, pipelineVars, listenerVars, fdbVars, cursorVars
  <1>1. CASE Start \/ BuildProducer \/ InitTransactions
    BY <1>1 DEF Start, BuildProducer, InitTransactions
  <1>2. CASE BuildListener
    BY <1>2 DEF BuildListener, CreateConsumer, OpenAt
  <1>3. CASE Reconcile
    BY <1>3 DEF Reconcile, Release
  <1>4. CASE BuildFails
    <2>1. minVersion' = minVersion \/ Release
      BY <1>4, Zenon DEF BuildFails
    <2>. QED BY <1>4, <2>1 DEF BuildFails, NoListener, Release
  <1>5. CASE Looping
    BY <1>5 DEF Looping, RunStep, RunRebuild, RunRebuildSkipped, HandleError, NoListener
  <1>6. CASE StepFinishDelivery \/ PollEmpty \/ PollFails
    BY <1>6 DEF StepFinishDelivery, PollEmpty, PollFails
  <1>7. CASE PollReply \/ PollUnserializable
    <2>1. PICK hi \in NextWatermarks : Deliver(hi) \/ FailDelivery(hi)
      BY <1>7 DEF PollReply, PollUnserializable
    <2>2. hi \in (position + 1)..committed /\ position' = hi /\ listener' = listener
      BY <2>1 DEF NextWatermarks, Deliver, FailDelivery
    <2>3. UNCHANGED <<fdbVars, cursorVars>>
      BY <1>7 DEF PollReply, PollUnserializable
    <2>. QED BY <2>2, <2>3
  <1>8. CASE Producing
    BY <1>8 DEF Producing, Begin, BeginFails, Produce, ProduceFails, ProduceDone, Flush, FlushFails
  <1>9. CASE Committing
    BY <1>9 DEF Committing, Commit, CommitRetriable, CommitAbortable, CommitFatal, CommitRefused,
                Abort, AbortFails
  <1>10. CASE Checkpoint
    BY <1>10 DEF Checkpoint, ReplaceCursor, HandlesOpen, BatchPoints
  <1>11. CASE CheckpointFails \/ DirSyncFails
    BY <1>11 DEF CheckpointFails, DirSyncFails
  <1>12. CASE DirSync
    BY <1>12 DEF DirSync, SyncDirectory
  <1>13. CASE Ack
    BY <1>13 DEF Ack, Acknowledged, Release
  <1>14. CASE AckFails
    BY <1>14 DEF AckFails, AcknowledgeLost, Release
  <1>15. CASE Stop \/ StopParked
    BY <1>15 DEF Stop, StopParked
  <1>16. CASE StopClose \/ ProcessCrash
    BY <1>16 DEF StopClose, ProcessCrash, Gone, NoListener
  <1>17. CASE MachineCrash
    BY <1>17 DEF MachineCrash, CrashDisk, Gone, NoListener
  <1>18. CASE Workload
    BY <1>18 DEF Workload, CommitVersion
  <1>19. CASE BrokerAppends \/ BrokerCommits \/ BrokerFaults \/ UNCHANGED vars
    BY <1>19 DEF BrokerAppends, BrokerCommits, BrokerFaults, others, vars
  <1>. QED BY <1>1, <1>2, <1>3, <1>4, <1>5, <1>6, <1>7, <1>8, <1>9, <1>10, <1>11, <1>12, <1>13,
              <1>14, <1>15, <1>16, <1>17, <1>18, <1>19, Zenon
           DEF Next, Thread, Building, Stepping, Acknowledging

-----------------------------------------------------------------------------
(***************************************************************************)
(* Between two batches nothing is in flight.                               *)
(***************************************************************************)
\* A batch leaves nothing behind, or its error makes the loop rebuild.
LEMMA QuietBatchStep ==
  ASSUME FlagsInPlace, TxnInPlace, QuietBetween, Producing \/ Committing \/ Acknowledging
  PROVE  QuietBetween'
  <1>. USE DEF FlagsInPlace, TxnInPlace, QuietBetween, Quiet, NoBatchPoints, CommitPoints,
               RebuildDue, Cures, NeedsRebuild, Goto, Raise,
               loopVars, pipelineVars, listenerVars, producerVars, clientVars, brokerVars
  <1>1. CASE Begin
    BY <1>1 DEF Begin, BeginTxn
  <1>2. CASE BeginFails
    BY <1>2 DEF BeginFails, SetFatal
  <1>3. CASE Produce
    BY <1>3 DEF Produce
  <1>4. CASE ProduceFails
    BY <1>4 DEF ProduceFails, ProduceErrors, CloseProducer, ClientGone, SetFatal
  <1>5. CASE ProduceDone
    BY <1>5 DEF ProduceDone, CloseProducer, ClientGone
  <1>6. CASE Flush
    BY <1>6 DEF Flush
  <1>7. CASE FlushFails
    BY <1>7 DEF FlushFails, CloseProducer, ClientGone
  <1>8. CASE Commit
    BY <1>8 DEF Commit, CommitTxn, CompleteCommit
  <1>9. CASE CommitRetriable
    BY <1>9 DEF CommitRetriable
  <1>10. CASE CommitAbortable
    BY <1>10 DEF CommitAbortable
  <1>11. CASE CommitFatal
    BY <1>11 DEF CommitFatal
  <1>12. CASE CommitRefused
    BY <1>12 DEF CommitRefused
  <1>13. CASE Abort
    BY <1>13 DEF Abort, AbortTxn
  <1>14. CASE AbortFails
    BY <1>14 DEF AbortFails, SetFatal
  <1>15. CASE Checkpoint \/ CheckpointFails
    BY <1>15 DEF Checkpoint, CheckpointFails
  <1>16. CASE DirSync \/ DirSyncFails
    BY <1>16 DEF DirSync, DirSyncFails
  <1>17. CASE Ack
    BY <1>17 DEF Ack, StepReturns
  <1>18. CASE AckFails
    BY <1>18 DEF AckFails, AcknowledgeLost
  <1>. QED BY <1>1, <1>2, <1>3, <1>4, <1>5, <1>6, <1>7, <1>8, <1>9, <1>10, <1>11, <1>12,
              <1>13, <1>14, <1>15, <1>16, <1>17, <1>18, Zenon
           DEF Producing, Committing, Acknowledging

\* The broker and librdkafka's callbacks start nothing of their own.
LEMMA QuietBrokerStep ==
  ASSUME QuietBetween, BrokerAppends \/ BrokerCommits \/ BrokerFaults
  PROVE  QuietBetween'
  <1>1. UNCHANGED <<listenerVars, pipelineVars, loopVars, pc, exc, producer>>
    BY Zenon DEF BrokerAppends, BrokerAppend, BrokerCommits, BrokerCompleteCommit, BrokerFaults,
       BrokerFail, BrokerTimeoutAbort, ErrorCb, others, clientVars
  <1>2. fatal' = fatal \/ fatal' = TRUE
    BY Zenon DEF BrokerAppends, BrokerAppend, BrokerCommits, BrokerCompleteCommit, BrokerFaults,
       BrokerFail, BrokerTimeoutAbort, ErrorCb, clientVars
  <1>3. queue = << >> => queue' = << >>
    BY Zenon DEF BrokerAppends, BrokerAppend, BrokerCommits, BrokerCompleteCommit, BrokerFaults,
       BrokerFail, BrokerTimeoutAbort, ErrorCb, clientVars
  <1>4. Quiet => Quiet'
    BY <1>3 DEF Quiet, BrokerAppends, BrokerAppend, BrokerCommits, BrokerCompleteCommit, BrokerFaults,
       BrokerFail, BrokerTimeoutAbort, ErrorCb, clientVars, brokerVars
  <1>. QED BY <1>1, <1>2, <1>3, <1>4
           DEF QuietBetween, RebuildDue, Cures, NeedsRebuild, listenerVars, pipelineVars, loopVars

\* A new producer starts with an empty queue, and initializing a transactional
\* one ends the transaction of its predecessor.
LEMMA QuietStep ==
  ASSUME TypeOK, FlagsInPlace, TxnInPlace, QuietBetween, [Next]_vars
  PROVE  QuietBetween'
  <1>. USE DEF FlagsInPlace, TxnInPlace, QuietBetween, Quiet, NoBatchPoints, CommitPoints,
               RebuildDue, Cures, NeedsRebuild, Goto, Raise,
               loopVars, pipelineVars, listenerVars, producerVars, clientVars, brokerVars
  <1>1. CASE Start
    BY <1>1 DEF Start
  <1>2. CASE BuildListener \/ Reconcile
    BY <1>2 DEF BuildListener, Reconcile
  <1>3. CASE BuildProducer
    BY <1>3 DEF BuildProducer, NewProducer, Bind
  <1>4. CASE InitTransactions
    BY <1>4 DEF InitTransactions, InitializeTxn, CompleteCommit, Bind
  <1>5. CASE BuildFails
    BY <1>5 DEF BuildFails, BuildErrors, NoListener, DropProducer, ClientGone
  <1>6. CASE RunStep
    BY <1>6 DEF RunStep, NoRebuildDue
  <1>7. CASE RunRebuild
    BY <1>7 DEF RunRebuild, DropProducer, ClientGone
  <1>8. CASE RunRebuildSkipped
    BY <1>8 DEF RunRebuildSkipped
  <1>9. CASE HandleError
    BY <1>9 DEF HandleError
  <1>10. CASE StepFinishDelivery
    BY <1>10 DEF StepFinishDelivery
  <1>11. CASE PollEmpty \/ PollReply
    BY <1>11 DEF PollEmpty, PollReply, Polling
  <1>12. CASE PollUnserializable \/ PollFails
    BY <1>12 DEF PollUnserializable, PollFails, Polling, FailDelivery
  <1>13. CASE Producing \/ Committing \/ Acknowledging
    BY <1>13, QuietBatchStep
  <1>14. CASE Stop \/ StopParked
    BY <1>14 DEF Stop, StopParked
  <1>15. CASE StopClose \/ ProcessCrash \/ MachineCrash
    BY <1>15 DEF StopClose, ProcessCrash, MachineCrash, Gone, PipelineReset, DropProducer,
                 ProducerDies, ClientGone
  <1>16. CASE Workload
    BY <1>16 DEF Workload, CommitVersion
  <1>17. CASE BrokerAppends \/ BrokerCommits \/ BrokerFaults
    BY <1>17, QuietBrokerStep
  <1>18. CASE UNCHANGED vars
    BY <1>18 DEF vars
  <1>. QED BY <1>1, <1>2, <1>3, <1>4, <1>5, <1>6, <1>7, <1>8, <1>9, <1>10, <1>11, <1>12, <1>13,
              <1>14, <1>15, <1>16, <1>17, <1>18, Zenon
           DEF Next, Thread, Building, Looping, Stepping

-----------------------------------------------------------------------------
(***************************************************************************)
(* An idempotent producer: topic, queue and records are one ordered log.   *)
(***************************************************************************)
\* Only produce() puts a record into the queue.
LEMMA QueueGrows ==
  ASSUME TypeOK, [Next]_vars
  PROVE  Produce \/ Len(queue') <= Len(queue)
  <1>0. /\ Len(queue) \in Nat /\ Len(<< >>) = 0
        /\ queue # << >> => Len(Tail(queue)) <= Len(queue)
    BY DEF TypeOK, ProducerTypeOK
  <1>1. queue' \in {queue, << >>} => Len(queue') <= Len(queue)
    BY <1>0
  <1>. USE DEF loopVars, pipelineVars, producerVars, clientVars
  <1>2. CASE Start \/ Building
    <2>1. queue' \in {queue, << >>}
      BY <1>2, Zenon DEF Start, Building, BuildListener, Reconcile, BuildProducer, NewProducer,
         InitTransactions, InitializeTxn, BuildFails, DropProducer, ClientGone
    <2>. QED BY <1>1, <2>1
  <1>3. CASE Looping \/ Stepping
    <2>1. queue' \in {queue, << >>}
      BY <1>3, Zenon DEF Looping, RunStep, RunRebuild, RunRebuildSkipped, HandleError, DropProducer,
         ClientGone, Stepping, StepFinishDelivery, PollEmpty, PollReply, PollUnserializable, PollFails
    <2>. QED BY <1>1, <2>1
  <1>4. CASE Producing
    <2>1. Produce \/ queue' \in {queue, << >>}
      BY <1>4, Zenon DEF Producing, Begin, BeginTxn, BeginFails, SetFatal, ProduceFails, CloseProducer,
         ClientGone, ProduceDone, Flush, FlushFails
    <2>. QED BY <1>1, <2>1
  <1>5. CASE Committing \/ Acknowledging
    <2>1. queue' \in {queue, << >>}
      BY <1>5, Zenon DEF Committing, Commit, CommitTxn, CommitRetriable, CommitUnanswered,
         CommitAbortable, CommitFatal, SetFatal, CommitRefused, Abort, AbortTxn, AbortFails,
         Acknowledging, Checkpoint, CheckpointFails, DirSync, DirSyncFails, Ack, AckFails
    <2>. QED BY <1>1, <2>1
  <1>6. CASE \/ StopClose \/ Stop \/ StopParked \/ ProcessCrash \/ MachineCrash
             \/ Workload \/ BrokerCommits \/ BrokerFaults \/ UNCHANGED vars
    <2>1. queue' \in {queue, << >>}
      BY <1>6, Zenon DEF StopClose, DropProducer, Stop, StopParked, ProcessCrash, MachineCrash,
         ProducerDies, ClientGone, Workload, BrokerCommits, BrokerCompleteCommit, BrokerFaults,
         BrokerFail, BrokerTimeoutAbort, ErrorCb, vars
    <2>. QED BY <1>1, <2>1
  <1>7. CASE BrokerAppends
    BY <1>0, <1>7 DEF BrokerAppends, BrokerAppend
  <1>. QED BY <1>2, <1>3, <1>4, <1>5, <1>6, <1>7, Zenon DEF Next, Thread

\* Only a poll and a begun transaction start to produce.
LEMMA ProducePoint ==
  ASSUME FlagsInPlace, [Next]_vars, pc' = "produce"
  PROVE  PollReply \/ Begin \/ Produce \/ (pc = "produce" /\ UNCHANGED <<records, position>>)
  <1>. USE DEF FlagsInPlace, Goto, Raise, pipelineVars, listenerVars
  <1>1. CASE Start \/ Building
    BY <1>1 DEF Start, Building, BuildListener, Reconcile, BuildProducer, InitTransactions,
                BuildFails, Bind
  <1>2. CASE Looping
    BY <1>2 DEF Looping, RunStep, RunRebuild, RunRebuildSkipped, HandleError
  <1>3. CASE Stepping
    BY <1>3 DEF Stepping, StepFinishDelivery, PollEmpty, PollUnserializable, PollFails
  <1>4. CASE Producing
    BY <1>4 DEF Producing, BeginFails, ProduceFails, ProduceDone, Flush, FlushFails
  <1>5. CASE Committing
    BY <1>5 DEF Committing, Commit, CommitRetriable, CommitAbortable, CommitFatal, CommitRefused,
                Abort, AbortFails
  <1>6. CASE Acknowledging
    BY <1>6 DEF Acknowledging, Checkpoint, CheckpointFails, DirSync, DirSyncFails, Ack, AckFails,
                StepReturns
  <1>7. CASE StopClose \/ Stop \/ StopParked \/ ProcessCrash \/ MachineCrash
    BY <1>7 DEF StopClose, Stop, StopParked, ProcessCrash, MachineCrash, Gone
  <1>8. CASE Workload \/ BrokerAppends \/ BrokerCommits \/ BrokerFaults \/ UNCHANGED vars
    BY <1>8 DEF Workload, CommitVersion, BrokerAppends, BrokerCommits, BrokerFaults, others, vars
  <1>. QED BY <1>1, <1>2, <1>3, <1>4, <1>5, <1>6, <1>7, <1>8, Zenon DEF Next, Thread

\* The database only goes forward, and what was within it stays within it.
LEMMA CommittedGrows ==
  ASSUME TypeOK, [Next]_vars
  PROVE  /\ committed \in 0..MaxVersion /\ committed' \in 0..MaxVersion /\ committed <= committed'
         /\ EndOf[committed] \in Nat /\ EndOf[committed'] \in Nat
         /\ EndOf[committed] <= EndOf[committed']
  <1>1. ListenerStep
    BY PartSteps DEF TypeOK
  <1>2. committed \in 0..MaxVersion /\ committed' \in 0..MaxVersion /\ committed' >= committed
    BY <1>1, StreamAssumption DEF ListenerStep, fdbVars, CommitVersion, Acknowledged, AcknowledgeLost,
       TypeOK, ListenerTypeOK
  <1>. QED BY <1>2, StreamAssumption

\* A closed or new producer has an empty queue, which continues anything.
LEMMA FollowsEmpty ==
  ASSUME NEW S, InOrder(S)
  PROVE  Follows(S, << >>)
  <1>1. \A n \in 0..0 : {<< >>[i] : i \in 1..n} = {}
    OBVIOUS
  <1>2. Len(<< >>) = 0
    OBVIOUS
  <1>3. \A n \in 0..0 : S \cup {<< >>[i] : i \in 1..n} = S
    BY <1>1
  <1>. QED BY <1>2, <1>3 DEF Follows

\* The part of PlainOrder that speaks of the broker and librdkafka alone.
PlainQueue ==
  /\ InOrder(topic)
  /\ IF deliveryErrors THEN queue = << >> ELSE Follows(topic, queue)
  /\ Within(topic \cup Members(queue), committed)

\* What arrives, fails or is lost leaves the topic in order, and the queue in
\* order behind it.
LEMMA PlainQueueStep ==
  ASSUME TypeOK, TxnInPlace, PlainQueue, ~Transactional, ProducerStep, [Next]_vars,
         Len(queue') <= Len(queue)
  PROVE  PlainQueue'
  <1>0. /\ queue \in Seq(Record) /\ topic \subseteq Record /\ Members(<< >>) = {}
        /\ staged = {} /\ txnState = "none" /\ Record \subseteq Int
    <2>1. queue \in Seq(Record) /\ topic \subseteq Record /\ staged = {} /\ txnState = "none"
      BY DEF TypeOK, ProducerTypeOK, TxnInPlace
    <2>2. Record \subseteq Int
      BY StreamAssumption DEF Record, Version
    <2>. QED BY <2>1, <2>2, MembersOfSeq
  <1>1. \A S : S \subseteq topic \cup Members(queue) => Within(S, committed)'
    <2>. SUFFICES ASSUME NEW S, S \subseteq topic \cup Members(queue), NEW r \in S
                  PROVE  r <= EndOf[committed']
      BY DEF Within
    <2>1. r \in Int /\ r <= EndOf[committed]
      BY <1>0, MembersOfSeq DEF PlainQueue, Within
    <2>. QED BY <2>1, CommittedGrows
  <1>2. CASE UNCHANGED <<topic, queue, deliveryErrors>>
    BY <1>1, <1>2 DEF PlainQueue
  <1>3. ASSUME topic' = topic \/ (~deliveryErrors /\ \E n \in 0..Len(queue) : topic' = topic \cup {queue[i] : i \in 1..n}),
               queue' = << >>
        PROVE  PlainQueue'
    <2>1. InOrder(topic')
      BY <1>3 DEF PlainQueue, Follows
    <2>2. topic' \subseteq topic \cup Members(queue)
      <3>1. \A n \in 0..Len(queue) : {queue[i] : i \in 1..n} \subseteq Members(queue)
        BY <1>0 DEF Members
      <3>. QED BY <1>3, <3>1
    <2>3. Follows(topic', << >>)
      BY <2>1, FollowsEmpty
    <2>4. Members(queue') = {}
      BY <1>0, <1>3
    <2>5. Within(topic' \cup Members(queue'), committed')
      BY <1>1, <2>2, <2>4 DEF Within
    <2>. QED BY <1>3, <2>1, <2>3, <2>5 DEF PlainQueue
  <1>4. CASE BrokerAppend
    <2>1. /\ queue # << >> /\ ~deliveryErrors /\ topic' = topic \cup {Head(queue)}
          /\ queue' = Tail(queue) /\ deliveryErrors' = deliveryErrors
      BY <1>4 DEF BrokerAppend, Arrive
    <2>2. InOrder(topic') /\ Follows(topic', queue')
      BY <1>0, <2>1, FollowsArrives DEF PlainQueue
    <2>3. topic' \cup Members(queue') \subseteq topic \cup Members(queue)
      BY <1>0, <2>1, MembersOfSeq
    <2>4. Within(topic' \cup Members(queue'), committed')
      BY <1>1, <2>3 DEF Within
    <2>. QED BY <2>1, <2>2, <2>4 DEF PlainQueue
  <1>5. CASE BrokerFail
    <2>1. queue # << >> /\ ~deliveryErrors /\ queue' = << >>
      BY <1>5 DEF BrokerFail
    <2>2. topic' = topic \/ topic' = topic \cup {Head(queue)}
      BY <1>5 DEF BrokerFail, Arrive, brokerVars
    <2>3. 1 \in 0..Len(queue) /\ {queue[i] : i \in 1..1} = {Head(queue)}
      BY <1>0, <2>1
    <2>. QED BY <1>3, <2>1, <2>2, <2>3
  <1>6. CASE CloseProducer \/ DropProducer \/ ProducerDies
    <2>1. queue' = << >>
      BY <1>6 DEF CloseProducer, DropProducer, ProducerDies, ClientGone
    <2>2. CASE LoseQueue
      <3>1. PICK n \in 0..Len(queue) : Arrive({queue[i] : i \in 1..n})
        BY <2>2 DEF LoseQueue
      <3>2. topic' = topic \cup {queue[i] : i \in 1..n}
        BY <3>1 DEF Arrive
      <3>3. deliveryErrors => {queue[i] : i \in 1..n} = {}
        BY DEF PlainQueue
      <3>. QED BY <1>3, <2>1, <3>2, <3>3
    <2>3. CASE ~LoseQueue
      <3>1. topic' = topic
        BY <1>0, <1>6, <2>3 DEF CloseProducer, DropProducer, ProducerDies, CloseEffect, brokerVars
      <3>. QED BY <1>3, <2>1, <3>1
    <2>. QED BY <2>2, <2>3
  <1>7. CASE NewProducer
    BY <1>3, <1>7 DEF NewProducer, brokerVars
  <1>8. CASE AbortTxn
    BY <1>3, <1>8 DEF AbortTxn
  <1>9. CASE InitializeTxn \/ BeginTxn \/ SetFatal \/ ErrorCb \/ CommitUnanswered \/ UNCHANGED producerVars
    BY <1>0, <1>2, <1>9 DEF InitializeTxn, BeginTxn, SetFatal, ErrorCb, CommitUnanswered,
                            producerVars, clientVars, brokerVars
  <1>10. CASE BrokerCompleteCommit \/ BrokerTimeoutAbort \/ CommitTxn
    BY <1>0, <1>10 DEF BrokerCompleteCommit, BrokerTimeoutAbort, CommitTxn
  <1>11. ASSUME NEW r \in Record, Accept(r) PROVE FALSE
    <2>1. Len(queue') = Len(queue) + 1 /\ Len(queue) \in Nat
      BY <1>0, <1>11 DEF Accept
    <2>. QED BY <2>1
  <1>. QED BY <1>4, <1>5, <1>6, <1>7, <1>8, <1>9, <1>10, <1>11, Zenon DEF ProducerStep

\* Producing hands the records over in their order; what arrives meanwhile
\* moves from the queue to the topic.
LEMMA PlainStep ==
  ASSUME DeliveryInv, QuietBetween, PlainOrder, VersionsInOrder, [Next]_vars
  PROVE  PlainOrder'
  <1>. SUFFICES ASSUME ~Transactional
                PROVE  /\ PlainQueue'
                       /\ pc' = "produce" =>
                            /\ ~deliveryErrors' => Follows(topic' \cup Members(queue'), records')
                            /\ Within(Members(records'), committed')
    BY DEF PlainOrder, PlainQueue
  <1>0. /\ TypeOK /\ ReaderDelivered /\ FlagsInPlace /\ TxnInPlace
        /\ queue \in Seq(Record) /\ records \in Seq(Record)
        /\ ProducerStep /\ ListenerTypeOK /\ PlainQueue /\ Record \subseteq Int
    BY PartSteps, StreamAssumption
       DEF DeliveryInv, TypeOK, ProducerTypeOK, PlainOrder, PlainQueue, Record, Version
  <1>1. CASE Produce
    <2>1. /\ pc = "produce" /\ records # << >> /\ ~deliveryErrors
          /\ queue' = Append(queue, Head(records)) /\ records' = Tail(records)
          /\ UNCHANGED <<topic, deliveryErrors, committed>>
      BY <1>1 DEF Produce, StickyError, Accept, brokerVars, fdbVars
    <2>2. /\ Head(records) \in Record
          /\ Members(queue') = Members(queue) \cup {Head(records)}
          /\ Members(records) = {Head(records)} \cup Members(Tail(records))
      BY <1>0, <2>1, MembersOfSeq
    <2>3. /\ Follows(topic, queue) /\ InOrder(topic)
          /\ Follows(topic \cup Members(queue), records)
          /\ Within(Members(records), committed)
          /\ Within(topic \cup Members(queue), committed)
      BY <2>1 DEF PlainOrder
    <2>4. /\ InOrder(topic \cup Members(queue) \cup {Head(records)})
          /\ Follows(topic \cup Members(queue) \cup {Head(records)}, Tail(records))
      BY <1>0, <2>1, <2>3, FollowsArrives
    <2>5. Follows(topic', queue')
      BY <1>0, <2>1, <2>2, <2>3, <2>4, FollowsAccepts
    <2>6. topic' \cup Members(queue') = topic \cup Members(queue) \cup {Head(records)}
      BY <2>1, <2>2
    <2>7. Within(topic' \cup Members(queue'), committed') /\ Within(Members(records'), committed')
      BY <2>1, <2>2, <2>3, <2>6 DEF Within
    <2>. QED BY <2>1, <2>3, <2>4, <2>5, <2>6, <2>7 DEF PlainQueue
  <1>2. CASE ~Produce
    <2>1. PlainQueue'
      BY <1>0, <1>2, QueueGrows, PlainQueueStep
    <2>2. ASSUME pc' = "produce"
          PROVE  /\ ~deliveryErrors' => Follows(topic' \cup Members(queue'), records')
                 /\ Within(Members(records'), committed')
      <3>1. CASE PollReply
        <4>1. PICK hi \in NextWatermarks : records' = Reply(position, hi)
          BY <3>1 DEF PollReply
        <4>2. /\ position \in 0..MaxVersion /\ hi \in 1..MaxVersion /\ position <= hi
              /\ hi \in 0..committed
          BY <1>0, StreamAssumption DEF NextWatermarks, ListenerTypeOK
        <4>3. UpTo(position) \subseteq topic /\ InOrder(topic) /\ queue = << >>
              /\ UNCHANGED <<topic, queue, committed>>
          BY <1>0, <3>1 DEF PollReply, PollRefused, ReaderDelivered, Delivered, PlainQueue, Polling,
             QuietBetween, Quiet, producerVars, clientVars, brokerVars, fdbVars
        <4>4. topic' \cup Members(queue') = topic
          BY <4>3 DEF Members
        <4>5. Follows(topic, records') /\ Within(Members(records'), hi)
          BY <4>1, <4>2, <4>3, ReplyFollows, ReplyWithin
        <4>6. Members(records') \subseteq Int /\ EndOf[hi] \in Nat /\ EndOf[committed] \in Nat
              /\ EndOf[hi] <= EndOf[committed]
          <5>1. records' \in Seq(Record)
            BY <4>1, <4>2, ReplyCovers
          <5>2. Members(records') \subseteq Record
            BY <5>1, MembersOfSeq
          <5>3. committed \in 0..MaxVersion /\ hi \in 0..MaxVersion /\ hi <= committed
            BY <1>0, <4>2 DEF ListenerTypeOK
          <5>. QED BY <1>0, <5>2, <5>3, StreamAssumption
        <4>7. Within(Members(records'), committed)
          BY <4>5, <4>6 DEF Within
        <4>. QED BY <4>3, <4>4, <4>5, <4>7
      <3>2. CASE Begin
        BY <1>0, <3>2 DEF Begin, FlagsInPlace
      <3>3. CASE pc = "produce" /\ UNCHANGED <<records, position>>
        <4>1. Members(records) \subseteq Int /\ Within(Members(records), committed)
          BY <1>0, <3>3, MembersOfSeq DEF PlainOrder
        <4>2. Within(Members(records'), committed')
          BY <1>0, <3>3, <4>1, CommittedGrows DEF Within
        <4>3. \/ UNCHANGED producerVars \/ CommitUnanswered
              \/ BrokerAppend \/ BrokerFail \/ BrokerCompleteCommit \/ BrokerTimeoutAbort \/ ErrorCb
          BY <1>0, <1>2, <2>2, <3>3, BatchShape DEF BatchInHand, Begin, PollReply, Polling
        <4>4. CASE BrokerAppend
          <5>1. /\ queue # << >> /\ ~deliveryErrors /\ topic' = topic \cup {Head(queue)}
                /\ queue' = Tail(queue)
            BY <4>4 DEF BrokerAppend, Arrive
          <5>2. topic' \cup Members(queue') = topic \cup Members(queue)
            BY <1>0, <5>1, MembersOfSeq
          <5>. QED BY <3>3, <4>2, <5>1, <5>2 DEF PlainOrder
        <4>5. CASE BrokerFail
          BY <4>2, <4>5 DEF BrokerFail
        <4>6. CASE UNCHANGED producerVars \/ CommitUnanswered \/ ErrorCb
          BY <3>3, <4>2, <4>6 DEF PlainOrder, CommitUnanswered, ErrorCb, producerVars, clientVars, brokerVars
        <4>7. CASE BrokerCompleteCommit \/ BrokerTimeoutAbort
          BY <1>0, <4>7 DEF TxnInPlace, BrokerCompleteCommit, BrokerTimeoutAbort
        <4>. QED BY <4>3, <4>4, <4>5, <4>6, <4>7
      <3>. QED BY <1>0, <1>2, <2>2, <3>1, <3>2, <3>3, ProducePoint
    <2>. QED BY <2>1, <2>2
  <1>. QED BY <1>1, <1>2

-----------------------------------------------------------------------------
(***************************************************************************)
(* A transactional producer: what is committed is whole versions.          *)
(***************************************************************************)
\* Whatever a dying client gets across belongs to a transaction still open.
LEMMA LoseQueueStages ==
  ASSUME Transactional, LoseQueue
  PROVE  topic' = topic /\ txnState' = txnState /\ (txnState # "open" => staged' = staged)
  <1>1. PICK n \in 0..Len(queue) : (n > 0 => Accepting) /\ Arrive({queue[i] : i \in 1..n})
    BY DEF LoseQueue
  <1>2. txnState # "open" => {queue[i] : i \in 1..n} = {}
    BY <1>1 DEF Accepting
  <1>. QED BY <1>1, <1>2 DEF Arrive

\* The topic grows by a commit only, and only a commit request prepares one.
LEMMA TxnShape ==
  ASSUME Transactional, [Next]_vars
  PROVE  \/ topic' = topic /\ (txnState' = "prepared" => txnState = "prepared" /\ staged' = staged)
         \/ CommitRetriable \/ Commit
         \/ BrokerCompleteCommit \/ InitializeTxn
  <1>. USE DEF loopVars, pipelineVars, producerVars, brokerVars
  <1>1. CASE Start \/ BuildListener \/ Reconcile
    BY <1>1 DEF Start, BuildListener, Reconcile
  <1>2. CASE BuildProducer
    BY <1>2 DEF BuildProducer, NewProducer
  <1>3. CASE InitTransactions
    BY <1>3, Zenon DEF InitTransactions
  <1>4. CASE CloseProducer \/ DropProducer \/ ProducerDies
    BY <1>4, LoseQueueStages DEF CloseProducer, DropProducer, ProducerDies, CloseEffect
  <1>5. CASE BuildFails \/ RunRebuild \/ FlushFails \/ StopClose \/ ProcessCrash \/ MachineCrash
    BY <1>4, <1>5, Zenon DEF BuildFails, RunRebuild, FlushFails, StopClose, ProcessCrash, MachineCrash
  <1>6. CASE RunStep \/ RunRebuildSkipped \/ HandleError
    BY <1>6 DEF RunStep, RunRebuildSkipped, HandleError
  <1>7. CASE Stepping
    BY <1>7 DEF Stepping, StepFinishDelivery, PollEmpty, PollReply, PollUnserializable, PollFails
  <1>8. CASE Begin
    BY <1>8 DEF Begin, BeginTxn
  <1>9. CASE BeginFails
    BY <1>9 DEF BeginFails, SetFatal
  <1>10. CASE Produce
    BY <1>10 DEF Produce, Accept
  <1>11. CASE ProduceFails
    BY <1>11 DEF ProduceFails, SetFatal
  <1>12. CASE ProduceDone
    <2>1. UNCHANGED producerVars \/ CloseProducer
      BY <1>12, Zenon DEF ProduceDone
    <2>. QED BY <1>4, <2>1
  <1>13. CASE Flush
    BY <1>13 DEF Flush
  <1>14. CASE CommitAbortable \/ CommitFatal \/ CommitRefused
    BY <1>14 DEF CommitAbortable, CommitFatal, CommitRefused, SetFatal
  <1>15. CASE Abort \/ AbortFails
    BY <1>15 DEF Abort, AbortTxn, AbortFails, SetFatal
  <1>16. CASE Acknowledging
    BY <1>16 DEF Acknowledging, Checkpoint, CheckpointFails, DirSync, DirSyncFails, Ack, AckFails
  <1>17. CASE Stop \/ StopParked \/ Workload \/ UNCHANGED vars
    BY <1>17 DEF Stop, StopParked, Workload, vars
  <1>18. CASE BrokerAppends
    BY <1>18 DEF BrokerAppends, BrokerAppend, Arrive, Accepting
  <1>19. CASE BrokerCommits
    BY <1>19, Zenon DEF BrokerCommits
  <1>20. CASE BrokerFaults
    BY <1>20 DEF BrokerFaults, BrokerFail, Arrive, Accepting, BrokerTimeoutAbort, ErrorCb
  <1>21. CASE CommitRetriable \/ Commit
    BY <1>21
  <1>. QED BY <1>1, <1>2, <1>3, <1>5, <1>6, <1>7, <1>8, <1>9, <1>10, <1>11, <1>12, <1>13, <1>14,
              <1>15, <1>16, <1>17, <1>18, <1>19, <1>20, <1>21, Zenon
           DEF Next, Thread, Building, Looping, Producing, Committing

\* A transaction that commits, now or when the coordinator answers, holds
\* every record of its batch and no other.
LEMMA WholeStep ==
  ASSUME DeliveryInv, TxnOrder, VersionsInOrder, Transactional, [Next]_vars
  PROVE  Whole(topic)' /\ (txnState' = "prepared" => Whole(topic \cup staged)')
  <1>0. /\ TypeOK /\ FlagsInPlace /\ TxnInPlace /\ BatchCovered /\ ListenerTypeOK
        /\ staged \subseteq Record /\ position <= committed
        /\ Whole(topic) /\ (txnState = "prepared" => Whole(topic \cup staged))
    BY DEF DeliveryInv, TypeOK, ProducerTypeOK, TxnOrder, VersionsInOrder
  <1>1. \A S : Whole(S) => \E v \in 0..committed' : {r \in S : r > 0} = UpTo(v)
    <2>1. 0..committed \subseteq 0..committed'
      BY <1>0, CommittedGrows
    <2>. QED BY <2>1 DEF Whole
  <1>2. ASSUME topic' = topic \/ (topic' = topic \cup staged /\ Whole(topic \cup staged))
        PROVE  Whole(topic)'
    <2>1. \E v \in 0..committed' : {r \in topic' : r > 0} = UpTo(v)
      BY <1>0, <1>1, <1>2
    <2>. QED BY <2>1 DEF Whole, UpTo
  <1>3. pc = "commit" /\ queue = << >> /\ ~deliveryErrors /\ txnState = "open"
          => Whole(topic \cup staged)
    <2>. SUFFICES ASSUME pc = "commit", queue = << >>, ~deliveryErrors, txnState = "open"
                  PROVE  Whole(topic \cup staged)
      OBVIOUS
    <2>1. commitOutstanding /\ records = << >> /\ Members(<< >>) = {}
      BY <1>0 DEF FlagsInPlace, Members
    <2>2. UpTo(position) \subseteq topic \cup staged
      BY <1>0, <2>1 DEF BatchCovered
    <2>3. Within(staged, position)
      BY <2>1 DEF TxnOrder, Within
    <2>. QED BY <1>0, <2>2, <2>3, CompletedBatch
  <1>4. CASE topic' = topic /\ (txnState' = "prepared" => txnState = "prepared" /\ staged' = staged)
    <2>1. ASSUME txnState' = "prepared" PROVE Whole(topic \cup staged)'
      <3>1. topic' \cup staged' = topic \cup staged /\ Whole(topic \cup staged)
        BY <1>0, <1>4, <2>1
      <3>2. \E v \in 0..committed' : {r \in topic' \cup staged' : r > 0} = UpTo(v)
        BY <1>1, <3>1
      <3>. QED BY <3>2 DEF Whole, UpTo
    <2>. QED BY <1>2, <1>4, <2>1
  <1>5. CASE CommitRetriable
    <2>1. /\ pc = "commit" /\ ~deliveryErrors /\ topic' = topic /\ staged' = staged
          /\ txnState' = txnState \/ (queue = << >> /\ txnState = "open")
      BY <1>5 DEF CommitRetriable, CommitUnanswered
    <2>2. txnState' = "prepared" => Whole(topic \cup staged)
      BY <1>0, <1>3, <2>1
    <2>3. ASSUME txnState' = "prepared" PROVE Whole(topic \cup staged)'
      <3>1. \E v \in 0..committed' : {r \in topic' \cup staged' : r > 0} = UpTo(v)
        BY <1>1, <2>1, <2>2, <2>3
      <3>. QED BY <3>1 DEF Whole, UpTo
    <2>. QED BY <1>2, <2>1, <2>3
  <1>6. CASE Commit
    <2>1. /\ pc = "commit" /\ queue = << >> /\ ~deliveryErrors /\ txnState' = "none"
          /\ \/ topic' = topic
             \/ topic' = topic \cup staged /\ txnState \in {"open", "prepared"}
      BY <1>6 DEF Commit, CommitTxn, CompleteCommit
    <2>. QED BY <1>0, <1>2, <1>3, <2>1
  <1>7. CASE BrokerCompleteCommit \/ InitializeTxn
    <2>1. /\ txnState' # "prepared"
          /\ \/ topic' = topic
             \/ topic' = topic \cup staged /\ txnState = "prepared"
      BY <1>7 DEF BrokerCompleteCommit, InitializeTxn, CompleteCommit
    <2>. QED BY <1>0, <1>2, <2>1
  <1>. QED BY <1>4, <1>5, <1>6, <1>7, TxnShape

\* Only a poll leads to the beginning of a transaction.
LEMMA BeginPoint ==
  ASSUME FlagsInPlace, [Next]_vars, pc' = "begin"
  PROVE  PollReply \/ (pc = "begin" /\ UNCHANGED <<position, records>>)
  <1>. USE DEF FlagsInPlace, Goto, Raise, pipelineVars, listenerVars
  <1>1. CASE Start \/ Building
    BY <1>1 DEF Start, Building, BuildListener, Reconcile, BuildProducer, InitTransactions,
                BuildFails, Bind
  <1>2. CASE Looping
    BY <1>2 DEF Looping, RunStep, RunRebuild, RunRebuildSkipped, HandleError
  <1>3. CASE Stepping
    BY <1>3 DEF Stepping, StepFinishDelivery, PollEmpty, PollUnserializable, PollFails
  <1>4. CASE Producing
    BY <1>4 DEF Producing, Begin, BeginFails, Produce, ProduceFails, ProduceDone, Flush, FlushFails
  <1>5. CASE Committing
    BY <1>5 DEF Committing, Commit, CommitRetriable, CommitAbortable, CommitFatal, CommitRefused,
                Abort, AbortFails
  <1>6. CASE Acknowledging
    BY <1>6 DEF Acknowledging, Checkpoint, CheckpointFails, DirSync, DirSyncFails, Ack, AckFails,
                StepReturns
  <1>7. CASE StopClose \/ Stop \/ StopParked \/ ProcessCrash \/ MachineCrash
    BY <1>7 DEF StopClose, Stop, StopParked, ProcessCrash, MachineCrash, Gone
  <1>8. CASE Workload \/ BrokerAppends \/ BrokerCommits \/ BrokerFaults \/ UNCHANGED vars
    BY <1>8 DEF Workload, CommitVersion, BrokerAppends, BrokerCommits, BrokerFaults, others, vars
  <1>. QED BY <1>1, <1>2, <1>3, <1>4, <1>5, <1>6, <1>7, <1>8, Zenon DEF Next, Thread

\* What a batch has on its way is within the position it was polled up to.
LEMMA BatchWithin ==
  ASSUME DeliveryInv, QuietBetween, TxnOrder, Transactional, [Next]_vars,
         pc' \in {"begin", "produce"} \/ commitOutstanding'
  PROVE  Within(staged' \cup Members(queue') \cup Members(records'), position')
  <1>0. /\ FlagsInPlace /\ ListenerTypeOK
        /\ queue \in Seq(Record) /\ records \in Seq(Record) /\ Members(<< >>) = {}
    BY MembersOfSeq DEF DeliveryInv, TypeOK, ProducerTypeOK
  <1>1. ASSUME staged' \cup Members(queue') \cup Members(records')
                 \subseteq staged \cup Members(queue) \cup Members(records),
               pc \in {"begin", "produce"} \/ commitOutstanding, position' = position
        PROVE  Within(staged' \cup Members(queue') \cup Members(records'), position')
    BY <1>1 DEF TxnOrder, Within
  <1>2. CASE PollReply
    <2>1. PICK hi \in NextWatermarks : records' = Reply(position, hi) /\ position' = hi
      BY <1>2 DEF PollReply, Deliver
    <2>2. position \in 0..MaxVersion /\ hi \in 1..MaxVersion /\ position <= hi
      BY <1>0, StreamAssumption DEF NextWatermarks, ListenerTypeOK
    <2>3. staged' = {} /\ Members(queue') = {}
      BY <1>0, <1>2 DEF PollReply, Polling, QuietBetween, Quiet, producerVars, clientVars, brokerVars
    <2>4. Within(Members(records'), position')
      BY <2>1, <2>2, ReplyWithin
    <2>. QED BY <2>3, <2>4 DEF Within
  <1>3. CASE Begin
    <2>1. UNCHANGED <<staged, queue, records, position>> /\ pc = "begin"
      BY <1>3 DEF Begin, BeginTxn, pipelineVars, listenerVars
    <2>. QED BY <1>1, <2>1
  <1>4. CASE Produce
    <2>1. /\ pc = "produce" /\ records # << >> /\ position' = position /\ staged' = staged
          /\ queue' = Append(queue, Head(records)) /\ records' = Tail(records)
      BY <1>4 DEF Produce, Accept, brokerVars, listenerVars
    <2>2. /\ Members(queue') = Members(queue) \cup {Head(records)}
          /\ Members(records) = {Head(records)} \cup Members(Tail(records))
      BY <1>0, <2>1, MembersOfSeq
    <2>. QED BY <1>1, <2>1, <2>2
  <1>5. CASE pc' = "begin" /\ ~PollReply
    <2>1. pc = "begin" /\ UNCHANGED <<position, records>>
      BY <1>0, <1>5, BeginPoint
    <2>2. staged' = {} /\ Members(queue') = {}
      BY <1>0, <1>5, QuietStep DEF DeliveryInv, QuietBetween, Quiet
    <2>3. Within(Members(records), position)
      BY <2>1 DEF TxnOrder, Within
    <2>. QED BY <2>1, <2>2, <2>3 DEF Within
  <1>6. CASE BatchUnmoved /\ (UNCHANGED producerVars \/ CommitUnanswered \/ BrokerTimeoutAbort \/ ErrorCb)
    BY <1>0, <1>1, <1>6 DEF BatchUnmoved, BatchInHand, FlagsInPlace, CommitUnanswered,
       BrokerTimeoutAbort, ErrorCb, producerVars, clientVars, brokerVars
  <1>7. CASE BatchUnmoved /\ (BrokerAppend \/ BrokerFail)
    <2>1. /\ Members(queue) = {Head(queue)} \cup Members(Tail(queue))
          /\ staged' \in {staged, staged \cup {Head(queue)}} /\ queue' \in {Tail(queue), << >>}
      BY <1>0, <1>7, MembersOfSeq DEF BrokerAppend, BrokerFail, Arrive, brokerVars
    <2>2. Members(queue') \subseteq Members(queue)
      BY <1>0, <2>1
    <2>. QED BY <1>0, <1>1, <1>7, <2>1, <2>2 DEF BatchUnmoved, BatchInHand, FlagsInPlace
  <1>8. CASE BatchUnmoved /\ BrokerCompleteCommit
    BY <1>0, <1>1, <1>8 DEF BatchUnmoved, BatchInHand, FlagsInPlace, BrokerCompleteCommit,
       CompleteCommit, clientVars
  <1>9. CASE BatchInHand'
    BY <1>0, <1>2, <1>3, <1>4, <1>6, <1>7, <1>8, <1>9, BatchShape
  <1>. QED BY <1>2, <1>5, <1>9 DEF BatchInHand

\* The transactional half of OrderInv is kept.
LEMMA TxnOrderStep ==
  ASSUME DeliveryInv, QuietBetween, TxnOrder, VersionsInOrder, [Next]_vars
  PROVE  TxnOrder'
  BY WholeStep, BatchWithin DEF TxnOrder

-----------------------------------------------------------------------------
(***************************************************************************)
(* One producer sends a record once.                                       *)
(***************************************************************************)
\* What a producer has sent is forgotten with it; while it lives, the listener
\* does not go back.
LEMMA SentShape ==
  ASSUME TypeOK, SentOnce, QuietBetween, [Next]_vars
  PROVE  \/ Produce
         \/ sent' = {}
         \/ sent' = sent /\ position <= position' /\ (producer' = "none" => producer = "none")
  <1>0. position \in Int
    BY DEF TypeOK, ListenerTypeOK
  <1>. USE <1>0 DEF pipelineVars, listenerVars, producerVars, clientVars
  <1>1. CASE Start \/ Reconcile
    BY <1>1 DEF Start, Reconcile
  <1>2. CASE BuildListener
    BY <1>2 DEF BuildListener, SentOnce, QuietBetween
  <1>3. CASE BuildProducer \/ BuildFails \/ RunRebuild \/ StopClose \/ ProcessCrash \/ MachineCrash
    BY <1>3, Zenon DEF BuildProducer, NewProducer, BuildFails, RunRebuild, StopClose, ProcessCrash,
       MachineCrash, DropProducer, ProducerDies, ClientGone
  <1>4. CASE InitTransactions
    BY <1>4 DEF InitTransactions, InitializeTxn
  <1>5. CASE RunStep \/ RunRebuildSkipped \/ HandleError \/ StepFinishDelivery \/ PollEmpty \/ PollFails
    BY <1>5 DEF RunStep, RunRebuildSkipped, HandleError, StepFinishDelivery, PollEmpty, PollFails
  <1>6. CASE PollReply \/ PollUnserializable
    <2>1. PICK hi \in NextWatermarks : position' = hi
      BY <1>6 DEF PollReply, PollUnserializable, Deliver, FailDelivery
    <2>2. hi \in Int /\ hi > position
      BY <2>1 DEF NextWatermarks, TypeOK, ListenerTypeOK
    <2>3. UNCHANGED <<sent, producer>>
      BY <1>6, Zenon DEF PollReply, PollUnserializable
    <2>. QED BY <1>0, <2>1, <2>2, <2>3
  <1>7. CASE Begin \/ BeginFails
    BY <1>7 DEF Begin, BeginTxn, BeginFails, SetFatal
  <1>8. CASE ProduceFails \/ ProduceDone \/ FlushFails
    <2>1. sent' = {} \/ (UNCHANGED <<sent, producer>> /\ position' = position)
      BY <1>8, Zenon DEF ProduceFails, ProduceDone, FlushFails, CloseProducer, ClientGone, SetFatal
    <2>. QED BY <2>1
  <1>9. CASE Flush
    BY <1>9 DEF Flush
  <1>10. CASE Committing
    <2>1. UNCHANGED <<sent, producer, position>>
      BY <1>10, Zenon DEF Committing, Commit, CommitTxn, CommitRetriable, CommitUnanswered,
         CommitAbortable, CommitFatal, SetFatal, CommitRefused, Abort, AbortTxn, AbortFails
    <2>. QED BY <2>1
  <1>11. CASE Acknowledging
    <2>1. UNCHANGED <<sent, producer, position>>
      BY <1>11, Zenon DEF Acknowledging, Checkpoint, CheckpointFails, DirSync, DirSyncFails, Ack,
         Acknowledged, AckFails, AcknowledgeLost
    <2>. QED BY <2>1
  <1>12. CASE Stop \/ StopParked \/ UNCHANGED vars
    BY <1>12 DEF Stop, StopParked, vars
  <1>13. CASE Workload
    BY <1>13 DEF Workload, CommitVersion
  <1>14. CASE BrokerAppends \/ BrokerCommits \/ BrokerFaults
    <2>1. UNCHANGED <<sent, producer, position>>
      BY <1>14, Zenon DEF BrokerAppends, BrokerAppend, BrokerCommits, BrokerCompleteCommit,
         BrokerFaults, BrokerFail, BrokerTimeoutAbort, ErrorCb, others
    <2>. QED BY <2>1
  <1>15. CASE Produce
    BY <1>15
  <1>. QED BY <1>1, <1>2, <1>3, <1>4, <1>5, <1>6, <1>7, <1>8, <1>9, <1>10, <1>11, <1>12, <1>13,
              <1>14, <1>15, Zenon
           DEF Next, Thread, Building, Looping, Stepping, Producing

\* A reply brings records that were never sent, and produce() sends each once.
LEMMA SentStep ==
  ASSUME TypeOK, FlagsInPlace, HandlesOpen, QuietBetween, SentOnce, [Next]_vars
  PROVE  SentOnce'
  <1>0. /\ ListenerTypeOK /\ records \in Seq(Record) /\ sent \subseteq Int
        /\ \A v \in 0..MaxVersion : EndOf[v] \in Nat
    <2>1. ListenerTypeOK /\ records \in Seq(Record) /\ sent \subseteq Record
      BY DEF TypeOK, ProducerTypeOK
    <2>2. Record \subseteq Int
      BY StreamAssumption DEF Record, Version
    <2>. QED BY <2>1, <2>2, StreamAssumption
  <1>1. CASE Produce
    <2>1. /\ pc = "produce" /\ records # << >> /\ position' = position /\ producer' = producer
          /\ sent' = sent \cup {Head(records)} /\ records' = Tail(records) /\ producer = "open"
      BY <1>1 DEF Produce, Accept, listenerVars, HandlesOpen, BatchPoints
    <2>2. /\ Head(records) = records[1] /\ Len(records) \in Nat /\ DOMAIN records = 1..Len(records)
          /\ 1 \in DOMAIN records
          /\ DOMAIN Tail(records) = 1..(Len(records) - 1)
          /\ \A i \in 1..(Len(records) - 1) : Tail(records)[i] = records[i + 1]
      BY <1>0, <2>1
    <2>3. /\ Polled(Members(records), position) /\ Polled(sent, position)
          /\ \A i \in DOMAIN records :
               /\ records[i] \notin sent
               /\ \A j \in DOMAIN records : records[i] = records[j] => i = j
      BY <2>1 DEF SentOnce
    <2>4. Polled(sent', position')
      BY <2>1, <2>2, <2>3 DEF Polled, Members
    <2>5. ASSUME NEW i \in DOMAIN records'
          PROVE  /\ records'[i] \notin sent'
                 /\ \A j \in DOMAIN records' : records'[i] = records'[j] => i = j
      <3>1. /\ i \in 1..(Len(records) - 1) /\ i + 1 \in DOMAIN records /\ i + 1 # 1
            /\ records'[i] = records[i + 1]
        BY <2>1, <2>2, <2>5
      <3>2. records[i + 1] # records[1]
        BY <2>2, <2>3, <3>1
      <3>3. records'[i] \notin sent'
        BY <2>1, <2>2, <2>3, <3>1, <3>2
      <3>4. ASSUME NEW j \in DOMAIN records', records'[i] = records'[j] PROVE i = j
        <4>1. j \in 1..(Len(records) - 1) /\ j + 1 \in DOMAIN records /\ records'[j] = records[j + 1]
          BY <2>1, <2>2, <3>4
        <4>2. i + 1 = j + 1
          BY <2>3, <3>1, <3>4, <4>1
        <4>. QED BY <3>1, <4>1, <4>2
      <3>. QED BY <3>3, <3>4
    <2>6. Polled(Members(records'), position')
      <3>1. Members(records') \subseteq Members(records)
        BY <1>0, <2>1, MembersOfSeq
      <3>. QED BY <2>1, <2>3, <3>1 DEF Polled
    <2>. QED BY <2>1, <2>4, <2>5, <2>6 DEF SentOnce
  <1>2. CASE ~Produce
    <2>1. (producer' = "none" => sent' = {}) /\ sent' \subseteq sent
      BY <1>2, SentShape DEF SentOnce
    <2>2. Polled(sent', position')
      <3>1. CASE sent' = {}
        BY <3>1 DEF Polled
      <3>2. CASE sent' = sent /\ position <= position'
        <4>1. position \in 0..MaxVersion /\ position' \in 0..MaxVersion
          BY <1>0, TypeStep DEF TypeOK, ListenerTypeOK
        <4>2. EndOf[position] \in Nat /\ EndOf[position'] \in Nat /\ EndOf[position] <= EndOf[position']
          BY <3>2, <4>1, StreamAssumption
        <4>3. ASSUME NEW r \in sent PROVE r <= EndOf[position'] /\ -r <= position'
          <5>1. r \in Int /\ r <= EndOf[position] /\ -r <= position
            BY <1>0 DEF SentOnce, Polled
          <5>. QED BY <3>2, <4>1, <4>2, <5>1
        <4>. QED BY <3>2, <4>3 DEF Polled
      <3>. QED BY <1>2, <3>1, <3>2, SentShape
    <2>3. ASSUME pc' \in {"begin", "produce"}
          PROVE  /\ Polled(Members(records'), position')
                 /\ \A i \in DOMAIN records' :
                      /\ records'[i] \notin sent'
                      /\ \A j \in DOMAIN records' : records'[i] = records'[j] => i = j
      <3>1. CASE PollReply
        <4>1. PICK hi \in NextWatermarks : records' = Reply(position, hi) /\ position' = hi
          BY <3>1 DEF PollReply, Deliver
        <4>2. position \in 0..MaxVersion /\ hi \in (position + 1)..MaxVersion
          BY <1>0, <4>1, StreamAssumption DEF NextWatermarks, ListenerTypeOK
        <4>3. /\ Polled(Members(records'), position')
              /\ \A i \in DOMAIN records' :
                   /\ records'[i] > EndOf[position] \/ -records'[i] > position
                   /\ \A j \in DOMAIN records' : records'[i] = records'[j] => i = j
          BY <4>1, <4>2, ReplyIsNew
        <4>4. \A r \in sent' : r \in Int /\ r <= EndOf[position] /\ -r <= position
          BY <1>0, <2>1 DEF SentOnce, Polled
        <4>5. position \in Int /\ EndOf[position] \in Int
          BY <1>0, <4>2
        <4>6. \A i \in DOMAIN records' : records'[i] \notin sent'
          BY <4>3, <4>4, <4>5
        <4>. QED BY <4>3, <4>6
      <3>2. CASE pc \in {"begin", "produce"} /\ UNCHANGED <<records, position>>
        BY <2>1, <3>2 DEF SentOnce
      <3>3. Begin => pc = "begin" /\ UNCHANGED <<records, position>>
        BY DEF Begin, pipelineVars, listenerVars
      <3>. QED BY <1>2, <2>3, <3>1, <3>2, <3>3, BeginPoint, ProducePoint
    <2>. QED BY <2>1, <2>2, <2>3 DEF SentOnce
  <1>. QED BY <1>1, <1>2

-----------------------------------------------------------------------------
(***************************************************************************)
(* The invariant, and the order it gives.                                  *)
(***************************************************************************)
\* Before the first version the topic is empty, and an empty topic is in order.
LEMMA OrderInvInit == Init => OrderInv
  <1>. SUFFICES ASSUME Init PROVE OrderInv
    OBVIOUS
  <1>1. /\ topic = {} /\ staged = {} /\ queue = << >> /\ records = << >> /\ txnState = "none"
        /\ committed = 0 /\ minVersion = 1 /\ position = 0 /\ cursorFile = 0 /\ durableCursor = 0
        /\ pc = "down" /\ listener = "none" /\ producer = "none" /\ ~commitOutstanding /\ ~deliveryErrors
        /\ sent = {}
    BY DEF Init, ListenerInit, ProducerInit, CursorInit
  <1>2. VersionsInOrder /\ QuietBetween
    BY <1>1 DEF VersionsInOrder, QuietBetween
  <1>3. PlainOrder
    <2>1. InOrder(topic) /\ Members(queue) = {}
      BY <1>1 DEF InOrder, Members
    <2>2. Follows(topic, queue)
      BY <1>1, <2>1, FollowsEmpty
    <2>. QED BY <1>1, <2>1, <2>2 DEF PlainOrder, Within
  <1>4. TxnOrder
    <2>1. Whole(topic)
      BY <1>1, NothingUpToZero DEF Whole
    <2>. QED BY <1>1, <2>1 DEF TxnOrder
  <1>5. SentOnce
    BY <1>1 DEF SentOnce, Polled
  <1>. QED BY <1>2, <1>3, <1>4, <1>5 DEF OrderInv

\* Every step of the bridge, the broker or a crash keeps the topic in order.
LEMMA OrderInvStep ==
  ASSUME DeliveryInv, LoopInv, OrderInv, [Next]_vars
  PROVE  OrderInv'
  <1>1. /\ TypeOK /\ FlagsInPlace /\ TxnInPlace /\ HandlesOpen /\ CursorDurable
        /\ VersionsInOrder /\ QuietBetween /\ PlainOrder /\ TxnOrder /\ SentOnce
    BY Zenon DEF DeliveryInv, LoopInv, OrderInv
  <1>2. VersionsInOrder' /\ QuietBetween'
    BY <1>1, VersionsStep, QuietStep
  <1>3. PlainOrder' /\ TxnOrder' /\ SentOnce'
    BY <1>1, PlainStep, TxnOrderStep, SentStep
  <1>. QED BY <1>2, <1>3, Zenon DEF OrderInv

\* Every reachable state satisfies the whole inductive invariant.
THEOREM InvariantHolds == Spec => []IInv
  <1>1. Init => IInv
    BY DeliveryInvInit, LoopInvInit, OrderInvInit, Zenon DEF IInv
  <1>2. IInv /\ [Next]_vars => IInv'
    BY DeliveryInvStep, LoopInvStep, OrderInvStep DEF IInv
  <1>. QED BY <1>1, <1>2, PTL DEF Spec

\* A reader of an ordered topic sees an initial part of the log, and of a
\* transactional producer's topic one that ends with a version.
ReadsPrefix ==
  /\ InOrder(topic)
  /\ ~Transactional => \E n \in 0..EndOf[committed] : Visible = 1..n
  /\ Transactional => \E v \in 0..committed : Visible = UpTo(v)

\* What is visible has no gap, so its size is also its last position.
LEMMA VisibleIsPrefix ==
  ASSUME TypeOK, PlainOrder, TxnOrder
  PROVE  ReadsPrefix
  <1>0. topic \subseteq Int /\ EndOf[committed] \in Nat
    <2>1. topic \subseteq Record /\ committed \in 0..MaxVersion
      BY DEF TypeOK, ProducerTypeOK, ListenerTypeOK
    <2>2. Record \subseteq Int
      BY StreamAssumption DEF Record, Version
    <2>. QED BY <2>1, <2>2, StreamAssumption
  <1>1. ASSUME ~Transactional
        PROVE  InOrder(topic) /\ \E n \in 0..EndOf[committed] : Visible = 1..n
    <2>1. InOrder(topic) /\ \A r \in topic : r <= EndOf[committed]
      BY <1>1 DEF PlainOrder, Within
    <2>2. Visible \subseteq 1..EndOf[committed]
      <3>1. ASSUME NEW r \in Visible PROVE r \in 1..EndOf[committed]
        <4>1. r \in topic /\ r > 0 /\ r \in Int /\ r <= EndOf[committed]
          BY <1>0, <2>1, <3>1 DEF Visible
        <4>. QED BY <1>0, <4>1
      <3>. QED BY <3>1
    <2>3. /\ IsFiniteSet(1..EndOf[committed]) /\ Cardinality(1..EndOf[committed]) = EndOf[committed]
      BY <1>0, FS_Interval
    <2>4. IsFiniteSet(Visible) /\ Cardinality(Visible) <= EndOf[committed]
      BY <2>2, <2>3, FS_Subset
    <2> DEFINE n == Cardinality(Visible)
    <2>5. n \in 0..EndOf[committed]
      BY <1>0, <2>4, FS_CardinalityType
    <2>. HIDE DEF n
    <2>6. ASSUME NEW r \in Visible PROVE r \in 1..n
      <3>1. r \in Int /\ r > 0 /\ 1..r \subseteq Visible
        BY <1>0, <2>1 DEF Visible, InOrder
      <3>2. Cardinality(1..r) = r
        BY <3>1, FS_Interval
      <3>3. Cardinality(1..r) <= n
        BY <2>4, <3>1, FS_Subset DEF n
      <3>. QED BY <2>5, <3>1, <3>2, <3>3
    <2>7. IsFiniteSet(1..n) /\ Cardinality(1..n) = n
      BY <2>5, FS_Interval
    <2>8. Visible = 1..n
      <3>1. Visible \in SUBSET (1..n)
        BY <2>6
      <3>. QED BY <2>7, <3>1, FS_Subset DEF n
    <2>. QED BY <2>1, <2>5, <2>8
  <1>2. ASSUME Transactional
        PROVE  InOrder(topic) /\ \E v \in 0..committed : Visible = UpTo(v)
    <2>1. PICK v \in 0..committed : {r \in topic : r > 0} = UpTo(v)
      BY <1>2 DEF TxnOrder, Whole
    <2>2. EndOf[v] \in Nat
      BY <2>1, StreamAssumption DEF TypeOK, ListenerTypeOK
    <2>3. InOrder(topic)
      BY <2>1, <2>2 DEF InOrder, UpTo
    <2>. QED BY <2>1, <2>3 DEF Visible
  <1>. QED BY <1>1, <1>2 DEF ReadsPrefix

\* No reader ever finds a record before one that precedes it in commit order.
THEOREM NoGaps == Spec => []GapFree
  <1>1. IInv => GapFree
    BY VisibleIsPrefix DEF IInv, DeliveryInv, OrderInv, ReadsPrefix, InOrder, GapFree
  <1>. QED BY <1>1, InvariantHolds, PTL

\* A read_committed reader finds all records of a version or none of them.
THEOREM VersionsAreAtomic == Spec => []TxnAtomic
  <1>1. IInv => TxnAtomic
    <2>. SUFFICES ASSUME IInv, Transactional, NEW w \in 1..committed
                  PROVE  Group(w) \subseteq topic \/ Group(w) \cap topic = {}
      BY DEF TxnAtomic
    <2>1. PICK v \in 0..committed : {r \in topic : r > 0} = UpTo(v)
      BY DEF IInv, OrderInv, TxnOrder, Whole
    <2>2. /\ v \in 0..MaxVersion /\ w \in 0..MaxVersion /\ w - 1 \in 0..MaxVersion
          /\ v \in Int /\ w \in Int
      BY <2>1, StreamAssumption DEF IInv, DeliveryInv, TypeOK, ListenerTypeOK
    <2>3. /\ EndOf[v] \in Nat /\ EndOf[w] \in Nat /\ EndOf[w - 1] \in Nat
          /\ w <= v => EndOf[w] <= EndOf[v]
          /\ v <= w - 1 => EndOf[v] <= EndOf[w - 1]
      BY <2>2, StreamAssumption
    <2>4. CASE w <= v
      BY <2>1, <2>3, <2>4 DEF Group, UpTo
    <2>5. CASE v <= w - 1
      <3>1. \A r \in Group(w) : r > 0 /\ r \notin UpTo(v)
        BY <2>3, <2>5 DEF Group, UpTo
      <3>. QED BY <2>1, <3>1
    <2>. QED BY <2>2, <2>4, <2>5
  <1>. QED BY <1>1, InvariantHolds, PTL

\* A record enters librdkafka's queue a second time through a new producer only.
THEOREM NothingIsResent == Spec => NoRepublish
  <1>1. IInv /\ [Next]_vars => [Len(queue') > Len(queue) => sent' # sent]_vars
    <2>. SUFFICES ASSUME IInv, [Next]_vars, Len(queue') > Len(queue)
                  PROVE  sent' # sent
      OBVIOUS
    <2>1. TypeOK /\ SentOnce /\ Len(queue) \in Int
      BY DEF IInv, DeliveryInv, OrderInv, TypeOK, ProducerTypeOK
    <2>2. Len(queue') \in Int
      <3>1. queue' \in Seq(Record)
        BY <2>1, TypeStep DEF TypeOK, ProducerTypeOK
      <3>. QED BY <3>1
    <2>3. Produce
      BY <2>1, <2>2, QueueGrows
    <2>4. /\ pc = "produce" /\ records \in Seq(Record) /\ records # << >>
          /\ sent' = sent \cup {Head(records)}
      BY <2>1, <2>3 DEF Produce, Accept, TypeOK
    <2>5. 1 \in DOMAIN records /\ Head(records) = records[1]
      BY <2>4
    <2>. QED BY <2>1, <2>4, <2>5 DEF SentOnce
  <1>. QED BY <1>1, InvariantHolds, PTL DEF Spec, NoRepublish

-----------------------------------------------------------------------------
(***************************************************************************)
(* The bridge implements Delivery: every step maps to a step or a stutter. *)
(***************************************************************************)
\* What a step can do to what the promise speaks of: at most one of the log,
\* the released versions and the cursor moves, except in a machine crash.
LEMMA PromiseShape ==
  ASSUME TypeOK, QuietBetween, [Next]_vars
  PROVE  \/ UNCHANGED <<committed, minVersion, cursorFile>>
         \/ committed' = committed + 1 /\ UNCHANGED <<minVersion, cursorFile, topic>>
         \/ /\ pc \in {"reconcile", "ack"} /\ Release
            /\ UNCHANGED <<committed, cursorFile, topic>>
         \/ /\ pc = "checkpoint" /\ cursorFile' = position
            /\ UNCHANGED <<committed, minVersion, topic>>
         \/ cursorFile' \in {cursorFile, durableCursor} /\ UNCHANGED <<committed, minVersion>>
  <1>. USE DEF fdbVars, cursorVars, producerVars, brokerVars
  <1>1. CASE Start \/ BuildListener \/ BuildProducer \/ InitTransactions
    BY <1>1 DEF Start, BuildListener, BuildProducer, InitTransactions
  <1>2. CASE Reconcile
    BY <1>2 DEF Reconcile
  <1>3. CASE BuildFails
    <2>1. CASE pc = "reconcile"
      <3>1. topic' = topic
        BY <1>3, <2>1 DEF BuildFails, DropProducer, CloseEffect, QuietBetween
      <3>2. (Release \/ UNCHANGED minVersion) /\ UNCHANGED <<committed, cursorFile>>
        BY <1>3, <2>1, Zenon DEF BuildFails
      <3>. QED BY <2>1, <3>1, <3>2
    <2>2. CASE pc # "reconcile"
      BY <1>3, <2>2 DEF BuildFails
    <2>. QED BY <2>1, <2>2
  <1>4. CASE Looping \/ Stepping
    <2>1. UNCHANGED <<fdbVars, cursorVars>>
      BY <1>4, Zenon DEF Looping, RunStep, RunRebuild, RunRebuildSkipped, HandleError, Stepping,
         StepFinishDelivery, PollEmpty, PollReply, PollUnserializable, PollFails
    <2>. QED BY <2>1
  <1>5. CASE Producing \/ Committing
    <2>1. UNCHANGED <<fdbVars, cursorVars>>
      BY <1>5, Zenon DEF Producing, Begin, BeginFails, Produce, ProduceFails, ProduceDone, Flush,
         FlushFails, Committing, Commit, CommitRetriable, CommitAbortable, CommitFatal,
         CommitRefused, Abort, AbortFails
    <2>. QED BY <2>1
  <1>6. CASE Checkpoint
    BY <1>6 DEF Checkpoint, ReplaceCursor
  <1>7. CASE CheckpointFails \/ DirSync \/ DirSyncFails
    BY <1>7 DEF CheckpointFails, DirSync, SyncDirectory, DirSyncFails
  <1>8. CASE Ack
    BY <1>8 DEF Ack, Acknowledged
  <1>9. CASE AckFails
    BY <1>9 DEF AckFails, AcknowledgeLost
  <1>10. CASE Stop \/ StopParked \/ StopClose \/ ProcessCrash
    BY <1>10 DEF Stop, StopParked, StopClose, ProcessCrash
  <1>11. CASE MachineCrash
    BY <1>11 DEF MachineCrash, CrashDisk
  <1>12. CASE Workload
    BY <1>12 DEF Workload, CommitVersion
  <1>13. CASE BrokerAppends \/ BrokerCommits \/ BrokerFaults \/ UNCHANGED vars
    BY <1>13 DEF BrokerAppends, BrokerCommits, BrokerFaults, others, vars
  <1>. QED BY <1>1, <1>2, <1>3, <1>4, <1>5, <1>6, <1>7, <1>8, <1>9, <1>10, <1>11, <1>12, <1>13, Zenon
           DEF Next, Thread, Building, Acknowledging

\* Every step of the bridge is one the promise of delivery allows.
LEMMA PromiseStep ==
  ASSUME IInv, ReadsPrefix', [Next]_vars
  PROVE  [Promise!DeliveryNext]_(Promise!deliveryVars)
  <1>0. /\ TypeOK /\ QuietBetween /\ PlainOrder /\ TxnOrder /\ VersionsInOrder
        /\ topic \subseteq topic'
        /\ committed \in Int /\ minVersion \in Int /\ position \in Nat
        /\ cursorFile \in Nat /\ durableCursor \in Nat
    <2>1. TypeOK /\ QuietBetween /\ PlainOrder /\ TxnOrder /\ VersionsInOrder
      BY Zenon DEF IInv, DeliveryInv, OrderInv
    <2>2. topic \subseteq topic'
      BY <2>1, PartSteps, TopicGrows DEF TypeOK
    <2>. QED BY <2>1, <2>2 DEF TypeOK, ListenerTypeOK, CursorTypeOK
  <1>1. Visible \subseteq Visible' /\ \A S : S \subseteq Visible <=> (S \subseteq topic /\ \A r \in S : r > 0)
    BY <1>0 DEF Visible
  <1>2. committed' = committed => \E n \in Promise!End : Visible' = 1..n
    <2>. SUFFICES ASSUME committed' = committed
                  PROVE  \E n \in Promise!End : Visible' = 1..n
      OBVIOUS
    <2>1. CASE Transactional
      BY <2>1 DEF ReadsPrefix, Promise!End, UpTo
    <2>2. CASE ~Transactional
      BY <2>2 DEF ReadsPrefix, Promise!End
    <2>. QED BY <2>1, <2>2
  <1>3. CASE UNCHANGED <<committed, minVersion, cursorFile>>
    BY <1>1, <1>2, <1>3 DEF Promise!DeliveryNext, Promise!Publish, Promise!Grow
  <1>4. CASE committed' = committed + 1 /\ UNCHANGED <<minVersion, cursorFile, topic>>
    BY <1>4 DEF Promise!DeliveryNext, Promise!Commit, Visible
  <1>5. CASE /\ pc \in {"reconcile", "ack"} /\ Release
             /\ UNCHANGED <<committed, cursorFile, topic>>
    <2>1. UpTo(position) \subseteq Visible
      <3>1. UpTo(position) \subseteq topic
        BY <1>5 DEF IInv, DeliveryInv, ReaderDelivered, ResumedReader, UnackedDelivered, Delivered
      <3>. QED BY <3>1, <1>0, StreamAssumption DEF Visible, UpTo, TypeOK, ListenerTypeOK
    <2>2. CASE minVersion' = minVersion
      BY <1>5, <2>2 DEF Promise!deliveryVars, Visible
    <2>3. CASE minVersion' # minVersion
      <3>1. position + 1 > minVersion /\ minVersion' = position + 1
        BY <1>5, <2>3 DEF Release
      <3>2. position \in ((minVersion - 1) + 1)..committed /\ minVersion' - 1 = position
        BY <1>0, <3>1 DEF VersionsInOrder
      <3>3. Visible' = Visible
        BY <1>5 DEF Visible
      <3>. QED BY <1>5, <2>1, <3>2, <3>3 DEF Promise!DeliveryNext, Promise!Forget, Promise!UpTo, UpTo
    <2>. QED BY <2>2, <2>3
  <1>6. CASE /\ pc = "checkpoint" /\ cursorFile' = position
             /\ UNCHANGED <<committed, minVersion, topic>>
    <2>1. UpTo(position) \subseteq Visible
      <3>1. UpTo(position) \subseteq topic
        BY <1>6 DEF IInv, DeliveryInv, UnackedDelivered, Delivered
      <3>. QED BY <3>1, <1>0, StreamAssumption DEF Visible, UpTo, TypeOK, ListenerTypeOK
    <2>2. position \in 0..committed
      BY <1>0 DEF VersionsInOrder
    <2>3. Visible' = Visible
      BY <1>6 DEF Visible
    <2>. QED BY <1>6, <2>1, <2>2, <2>3 DEF Promise!DeliveryNext, Promise!Cover, Promise!UpTo, UpTo
  <1>7. CASE cursorFile' \in {cursorFile, durableCursor} /\ UNCHANGED <<committed, minVersion>>
    <2>1. cursorFile' \in 0..cursorFile
      BY <1>0, <1>7 DEF VersionsInOrder
    <2>. QED BY <1>1, <1>2, <1>7, <2>1 DEF Promise!DeliveryNext, Promise!Crash, Promise!Grow
  <1>. QED BY <1>0, <1>3, <1>4, <1>5, <1>6, <1>7, PromiseShape

\* The bridge, its broker and its crashes implement ordered, gapless,
\* at-least-once delivery, by whole versions when it is transactional.
THEOREM BridgeKeepsPromise == Spec => KeepsPromise
  <1>1. Init => Promise!DeliveryInit
    BY DEF Init, ListenerInit, ProducerInit, CursorInit, Promise!DeliveryInit, Visible
  <1>2. IInv => ReadsPrefix
    BY VisibleIsPrefix DEF IInv, DeliveryInv, OrderInv
  <1>3. IInv /\ ReadsPrefix' /\ [Next]_vars => [Promise!DeliveryNext]_(Promise!deliveryVars)
    BY PromiseStep
  <1>. QED BY <1>1, <1>2, <1>3, InvariantHolds, PTL DEF Spec, KeepsPromise, Promise!DeliverySpec
=============================================================================
