------------------------ MODULE LifecycleProperties ------------------------
(***************************************************************************)
(* What stop() owes its caller while run() works in another thread.  The   *)
(* bounds of the instances are in the .cfg files: two rebuilds after the   *)
(* start, two batches, and two calls of stop() let a stop() meet every     *)
(* point of an iteration, a rebuild, and what an earlier stop() left.      *)
(***************************************************************************)
EXTENDS BridgeLifecycle, SequencesExt

Stopped == stops > 0 /\ spc = "idle"

\* When a stop() that held the step lock is over there is nothing of the bridge
\* whose close() was not attempted, wherever the thread of run() was: also the
\* consumer that a listener closed to unblock the step binds afterwards, and
\* what a failed or finished rebuild has built meanwhile.
StopReleasesAll == Stopped /\ ~forced => live = {}

\* What run() acknowledges it counts, each batch once and in order, across stops,
\* rebuilds and retried acknowledgements; behind is at most the batch it is about
\* to count.  byStop is not a tolerance: those batches are never counted, which
\* BatchesAckedIsTotal, below, reports.
MetricsExact ==
  ~forced =>
    /\ IsPrefix(counted, acked)
    /\ Len(acked) - Len(counted) = byStop + IF rpc \in {"pop", "count"} THEN 1 ELSE 0

\* After such a stop() the thread of run() builds, polls and acknowledges
\* nothing any more, although it may still have to notice the shutdown.
NothingAfterStop ==
  [][Stopped /\ ~forced => UNCHANGED <<live, built, polled, acked>>]_vars

\* stop() is never stuck behind a step() that does not end.
StopTerminates == spc = "first" ~> spc = "idle"

\* The run thread polls a listener that its rebuild bound after a stop() without
\* the lock had read the handles.
Orphaned == forced /\ spc = "idle" /\ rpc = "polling" /\ stepping.listener \notin closed

\* stop() ends run(), whatever it is in and even when it is parked in consume()
\* on an idle stream.  The one exception is a rebuild that outlasts both waits.
StopEndsRun == spc = "first" ~> (rpc \in {"new", "ended", "raised"} \/ Orphaned)

(***************************************************************************)
(* Statements of the documentation that the code does not keep; each is    *)
(* refuted by a run of its own.                                            *)
(***************************************************************************)
\* BridgeMetrics: "batches_acked: Total count of CDC batches acknowledged back to
\* FDB."  Once run() and a stop() that had the lock are over, it is that total.
BatchesAckedIsTotal ==
  Stopped /\ ~forced /\ rpc \in {"ended", "raised"} => Len(counted) = Len(acked)

\* stop(): "Request shutdown, finish any outstanding commit, and close all
\* handles"; after the second wait "handles are closed regardless.  Every close
\* is attempted."  When both threads are done nothing is left open.
StopClosesAllHandles == Stopped /\ rpc \in {"ended", "raised"} => live = {}
=============================================================================
