---------------------------- MODULE CDCListener ----------------------------
(***************************************************************************)
(* The state of one CDC stream in FoundationDB and of the                  *)
(* FDBMutationListener that reads it, with the effect of every call.  The  *)
(* module holds operations only: which of them runs when, and what is done *)
(* with a failure, is the business of the pipeline that calls them.        *)
(*                                                                         *)
(* FoundationDB is external.  It keeps every version from minVersion on;   *)
(* acknowledging a position releases the versions up to it.  A consumer    *)
(* that starts without a cursor starts at minVersion, one that is behind   *)
(* minVersion gets transaction_too_old (1007), a terminal error.           *)
(***************************************************************************)
EXTENDS StreamData

CONSTANTS
  Oversized,    \* versions with a mutation that fits no record: the serializer raises
  TooLarge      \* versions no native reply can carry: consume answers 1211 forever

ASSUME ListenerAssumption == Oversized \subseteq Version /\ TooLarge \subseteq Version

VARIABLES
  committed,      \* FDB: last committed version of the stream
  minVersion,     \* FDB: first version the stream still retains
  listener,       \* the listener the bridge holds: "none", "open" or "closed"
  awaitingAck,    \* _awaiting_ack
  deliveryFailed, \* _delivery_failed
  position        \* version the native consumer has consumed through

fdbVars == <<committed, minVersion>>
listenerVars == <<listener, awaitingAck, deliveryFailed, position>>

ListenerTypeOK ==
  /\ committed \in 0..MaxVersion
  /\ minVersion \in 1..(MaxVersion + 1)
  /\ listener \in {"none", "open", "closed"}
  /\ awaitingAck \in BOOLEAN
  /\ deliveryFailed \in BOOLEAN
  /\ position \in 0..MaxVersion

ListenerInit ==
  /\ committed = 0
  /\ minVersion = 1
  /\ listener = "none"
  /\ awaitingAck = FALSE
  /\ deliveryFailed = FALSE
  /\ position = 0

-----------------------------------------------------------------------------
\* A client of the database commits the next version (external).
CommitVersion ==
  /\ committed < MaxVersion
  /\ committed' = committed + 1
  /\ UNCHANGED <<minVersion, listenerVars>>

\* What acknowledging the consumer's position does in the database: a position
\* already released changes nothing (external).
Release ==
  minVersion' = IF position + 1 > minVersion THEN position + 1 ELSE minVersion

\* A new listener whose consumer has consumed through p.
OpenAt(p) ==
  /\ listener' = "open"
  /\ position' = p
  /\ awaitingAck' = FALSE
  /\ deliveryFailed' = FALSE

\* start() without a cursor: the consumer begins at the retained versions.
CreateConsumer == OpenAt(minVersion - 1)

\* The listener handle is closed and dropped, or dies with the process.
NoListener ==
  /\ listener' = "none"
  /\ position' = 0
  /\ awaitingAck' = FALSE
  /\ deliveryFailed' = FALSE

\* Why consume() must fail whatever happens: a reply still waits for its
\* acknowledgement or was not serialized, or the position is no longer kept.
PollRefused == awaitingAck \/ deliveryFailed
PositionTooOld == position + 1 < minVersion
PoisonPill == position < committed /\ position + 1 \in TooLarge

\* The watermarks the next native reply may carry (external: how many versions
\* one reply holds depends on its size and on what has been buffered).
NextWatermarks ==
  {hi \in (position + 1)..committed : \A v \in (position + 1)..hi : v \notin TooLarge}

\* The native reply up to hi could not be turned into records.
Unserializable(hi) == \E v \in (position + 1)..hi : v \in Oversized

\* A reply was consumed and all its records were returned.
Deliver(hi) ==
  /\ position' = hi
  /\ awaitingAck' = TRUE
  /\ UNCHANGED <<listener, deliveryFailed>>

\* A reply was consumed and serializing it raised half way.
FailDelivery(hi) ==
  /\ position' = hi
  /\ deliveryFailed' = TRUE
  /\ UNCHANGED <<listener, awaitingAck>>

\* acknowledge() succeeded.
Acknowledged ==
  /\ Release
  /\ awaitingAck' = FALSE
  /\ UNCHANGED <<committed, listener, deliveryFailed, position>>

\* acknowledge() failed; the database may have applied it all the same, so
\* that only the answer is lost.
AcknowledgeLost ==
  /\ Release \/ UNCHANGED minVersion
  /\ UNCHANGED <<committed, listenerVars>>
=============================================================================
