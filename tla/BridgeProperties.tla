-------------------------- MODULE BridgeProperties --------------------------
(***************************************************************************)
(* What the bridge owes its users.  TypeOK is in Bridge.                   *)
(***************************************************************************)
EXTENDS Bridge

(***************************************************************************)
(* Safety.                                                                 *)
(***************************************************************************)
\* At-least-once: whatever FoundationDB has been allowed to forget is in the
\* topic, visible to a reader.  Every acknowledgement is meant: the one of a
\* step() and the one restored when a listener resumes from the cursor file.
AtLeastOnce == UpTo(minVersion - 1) \subseteq topic

\* A cursor on disk, the one a reader finds or the one a machine crash may
\* leave, covers delivered versions only: resuming from it skips nothing.
CheckpointCovered ==
  \A c \in {cursorFile, durableCursor} : UpTo(c) \subseteq topic

\* No reader ever sees a record before the ones that precede it in commit
\* order: aborted batches, purged queues and replays may repeat records, they
\* never leave a gap.
GapFree == \A r \in topic : r > 0 => 1..r \subseteq topic

\* Transactional mode: a read_committed reader sees every record of a version
\* or none of them.
TxnAtomic ==
  Transactional =>
    \A v \in 1..committed : Group(v) \subseteq topic \/ Group(v) \cap topic = {}

\* step() never polls a listener that must refuse: one whose reply still waits
\* for its acknowledgement or failed to serialize.  Such a poll fails forever;
\* it is _needs_rebuild()'s task to replace the listener first.
NeverPollsRefusing == Polling => ~PollRefused

\* The producer the pipeline works with was not closed or dropped under it.
ProducerUsable ==
  pc \in {"begin", "produce", "flush", "commit", "abort"} => producer = "open"

\* With a cursor file on a file system that syncs directories, a version is
\* released only when the cursor that covers it is durable: step() acknowledges
\* nothing a machine crash could roll back.
AckAfterSync ==
  [][(UseCursorFile /\ DirFsyncSupported /\ pc = "ack")
       => minVersion' = minVersion \/ durableCursor + 1 >= minVersion']_vars

\* A consumer asks for versions FoundationDB has released (1007, which ends the
\* bridge) only when a machine crash took the cursor file back: neither an
\* acknowledgement nor a rebuild leaves the file or the listener behind.
TooOldByCrashOnly ==
  /\ [](Polling /\ PositionTooOld => UseCursorFile /\ cursorFile + 1 < minVersion)
  /\ [][UseCursorFile /\ cursorFile + 1 >= minVersion
          => cursorFile' + 1 >= minVersion' \/ cursorFile' < cursorFile]_vars

\* While a commit is in doubt run() neither closes the producer that can still
\* resolve it nor polls or sends anything again.
CommitInDoubtKept ==
  [][(commitOutstanding /\ caller = "run" /\ pc' # "down")
       => /\ producer' = "open" /\ Len(queue') <= Len(queue)
          /\ listener' = "open" /\ position' = position]_vars

\* One producer sends each record once: duplicates come only from a replay
\* through a new producer.
NoRepublish == [][Len(queue') > Len(queue) => sent' # sent]_vars

(***************************************************************************)
(* The bridge implements the abstract specification of delivery.           *)
(***************************************************************************)
\* A reader follows the groups in commit order; the watermark VersionEnds carry
\* no mutation.
Visible == {r \in topic : r > 0}

Promise == INSTANCE Delivery
  WITH WholeVersions <- Transactional, available <- committed, seen <- Visible,
       forgotten <- minVersion - 1, covered <- cursorFile

\* Every step of the bridge, the broker or a crash is one the promise of
\* ordered, gapless, at-least-once delivery allows: the log read grows in
\* commit order (by whole versions when transactional), nothing is forgotten
\* or covered before it can be read, and a crash takes back a cursor at most.
KeepsPromise == Promise!DeliverySpec

(***************************************************************************)
(* Liveness, once the failures have stopped.                               *)
(***************************************************************************)
\* Nobody stops the bridge and run() has not raised.
Serving == pc \notin {"down", "halted"} /\ caller # "stop"

\* A version is committed that no setting of max_record_bytes lets through.
Undeliverable == \E v \in Oversized : v <= committed

\* Every committed version is delivered, acknowledged and released, before one
\* that cannot be delivered is committed.
EventuallyReleased ==
  \A v \in Version :
    (committed >= v /\ Serving) ~> (minVersion > v \/ ~Serving \/ Undeliverable)

\* A commit in doubt does not stay so.
CommitResolves == commitOutstanding ~> ~commitOutstanding

(***************************************************************************)
(* Statements of the repository's documents and comments that the code     *)
(* does not keep; each is refuted by a run of its own.                     *)
(***************************************************************************)
\* pipeline.py, before the directory fsync: "Until the parent dir is fsynced
\* the rename may not survive a crash, so any failure here must block the FDB
\* ack."  Nothing is released before its cursor is durable.
ReleaseIsDurable == UseCursorFile /\ DirFsyncSupported => durableCursor + 1 >= minVersion

\* CDCRetryableError: "If it repeats at a single commit version it is the L1
\* poison pill; escalate rather than spin".  A bridge before such a version
\* gets past it or gives up.
PoisonPillEscalated == (Serving /\ PoisonPill) ~> (~Serving \/ ~PoisonPill)

\* Rule 7 for callers of step(), which "Bridge follows": on shutdown, step()
\* until the commit succeeds or a non-retriable error is raised; the producer
\* is not closed while a commit is in progress.
StopKeepsCommit ==
  [][(pc = "close" /\ commitOutstanding) => producer' # "none"]_vars
=============================================================================
