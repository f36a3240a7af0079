-------------------------- MODULE MutationProducer --------------------------
(***************************************************************************)
(* MutationProducer over librdkafka, and what the Kafka broker has of it.  *)
(* The wrapper's attributes are modelled from the source.  librdkafka and  *)
(* the broker are external: they are modelled from the configuration the   *)
(* wrapper forces on them (idempotence, gapless guarantee, no message      *)
(* timeout), so records arrive once and in order, and the failure of one   *)
(* fails everything queued behind it.                                      *)
(*                                                                         *)
(* topic is what a reader sees: every arrived record of the idempotent     *)
(* producer, the records of committed transactions of the transactional    *)
(* one (a read_committed reader).                                          *)
(***************************************************************************)
EXTENDS StreamData

CONSTANT
  Transactional   \* a transactional_id is configured

ASSUME ProducerAssumption == Transactional \in BOOLEAN

VARIABLES
  producer,       \* the producer the bridge holds: "none", "open" or "closed"
  fatal,          \* _fatal
  deliveryErrors, \* _delivery_errors is not empty
  txnInitialized, \* _txn_initialized
  txnOpen,        \* _txn_open
  sent,           \* records accepted by the current producer (history)
  queue,          \* accepted records the broker has not answered for, in order
  topic,          \* broker: records visible to readers
  staged,         \* broker: records of the ongoing transaction
  txnState        \* coordinator: "none", "open", "prepared", "committed", "aborted"

clientVars == <<producer, fatal, deliveryErrors, txnInitialized, txnOpen, sent, queue>>
brokerVars == <<topic, staged, txnState>>
producerVars == <<clientVars, brokerVars>>

ProducerTypeOK ==
  /\ producer \in {"none", "open", "closed"}
  /\ fatal \in BOOLEAN
  /\ deliveryErrors \in BOOLEAN
  /\ txnInitialized \in BOOLEAN
  /\ txnOpen \in BOOLEAN
  /\ sent \in SUBSET Record
  /\ queue \in Seq(Record)
  /\ topic \in SUBSET Record
  /\ staged \in SUBSET Record
  /\ txnState \in {"none", "open", "prepared", "committed", "aborted"}

ProducerInit ==
  /\ producer = "none"
  /\ fatal = FALSE
  /\ deliveryErrors = FALSE
  /\ txnInitialized = FALSE
  /\ txnOpen = FALSE
  /\ sent = {}
  /\ queue = << >>
  /\ topic = {}
  /\ staged = {}
  /\ txnState = "none"

-----------------------------------------------------------------------------
(***************************************************************************)
(* The broker and librdkafka's background thread (external).               *)
(***************************************************************************)
\* Where an arriving record goes, and whether the broker still takes it.
Accepting == Transactional => txnState = "open"

Arrive(recs) ==
  /\ topic' = IF Transactional THEN topic ELSE topic \cup recs
  /\ staged' = IF Transactional THEN staged \cup recs ELSE staged
  /\ UNCHANGED txnState

\* The oldest queued record arrives and is acknowledged to the client.
BrokerAppend ==
  /\ producer = "open" /\ queue # << >> /\ ~deliveryErrors /\ Accepting
  /\ Arrive({Head(queue)})
  /\ queue' = Tail(queue)
  /\ UNCHANGED <<producer, fatal, deliveryErrors, txnInitialized, txnOpen, sent>>

\* The oldest queued record fails for good.  It may have arrived all the same.
\* Everything behind it fails with it; the failure is reported to the delivery
\* callbacks, and the gapless guarantee may report it to _error_cb as fatal.
BrokerFail ==
  /\ producer = "open" /\ queue # << >> /\ ~deliveryErrors
  /\ \/ Accepting /\ Arrive({Head(queue)})
     \/ UNCHANGED brokerVars
  /\ queue' = << >>
  /\ deliveryErrors' = TRUE
  /\ fatal' \in {fatal, TRUE}
  /\ UNCHANGED <<producer, txnInitialized, txnOpen, sent>>

\* The coordinator finishes a commit it has accepted, whoever is still waiting.
CompleteCommit ==
  /\ topic' = topic \cup staged
  /\ staged' = {}

BrokerCompleteCommit ==
  /\ txnState = "prepared"
  /\ CompleteCommit
  /\ txnState' = "committed"
  /\ UNCHANGED clientVars

\* transaction.timeout.ms passes: the coordinator aborts the transaction.
BrokerTimeoutAbort ==
  /\ txnState = "open"
  /\ staged' = {}
  /\ txnState' = "aborted"
  /\ UNCHANGED <<topic, clientVars>>

\* _error_cb is served with a fatal error.
ErrorCb ==
  /\ producer = "open" /\ ~fatal
  /\ fatal' = TRUE
  /\ UNCHANGED <<producer, deliveryErrors, txnInitialized, txnOpen, sent, queue, brokerVars>>

-----------------------------------------------------------------------------
(***************************************************************************)
(* The wrapper's operations.                                               *)
(***************************************************************************)
\* MutationProducer(...): a new librdkafka producer.
NewProducer ==
  /\ producer' = "open"
  /\ fatal' = FALSE
  /\ deliveryErrors' = FALSE
  /\ txnInitialized' = FALSE
  /\ txnOpen' = FALSE
  /\ sent' = {}
  /\ queue' = << >>
  /\ UNCHANGED brokerVars

\* init_transactions() succeeded: the coordinator has finished what the last
\* holder of the transactional id left behind.
InitializeTxn ==
  /\ txnInitialized' = TRUE
  /\ IF txnState = "prepared" THEN CompleteCommit ELSE staged' = {} /\ UNCHANGED topic
  /\ txnState' = "none"
  /\ UNCHANGED <<producer, fatal, deliveryErrors, txnOpen, sent, queue>>

\* begin_transaction() succeeded.
BeginTxn ==
  /\ txnOpen' = TRUE
  /\ txnState' = "open"
  /\ UNCHANGED <<producer, fatal, deliveryErrors, txnInitialized, sent, queue, topic, staged>>

\* produce(r) was accepted into librdkafka's queue.
Accept(r) ==
  /\ queue' = Append(queue, r)
  /\ sent' = sent \cup {r}
  /\ UNCHANGED <<producer, fatal, deliveryErrors, txnInitialized, txnOpen, brokerVars>>

\* commit_transaction() succeeded: everything queued has arrived, and the
\* transaction is committed now or was by an attempt whose answer was lost.
CommitTxn ==
  /\ queue = << >> /\ ~deliveryErrors
  /\ txnState \in {"open", "prepared", "committed"}
  /\ IF txnState = "committed" THEN UNCHANGED <<topic, staged>> ELSE CompleteCommit
  /\ txnState' = "none"
  /\ txnOpen' = FALSE
  /\ deliveryErrors' = FALSE
  /\ UNCHANGED <<producer, fatal, txnInitialized, sent, queue>>

\* commit_transaction() raised a retriable error: the coordinator may have the
\* commit request, which librdkafka sends only once everything has arrived.
CommitUnanswered ==
  /\ ~deliveryErrors
  /\ \/ UNCHANGED txnState
     \/ queue = << >> /\ txnState = "open" /\ txnState' = "prepared"
  /\ UNCHANGED <<clientVars, topic, staged>>

\* abort_transaction() succeeded; librdkafka purges what is queued.
AbortTxn ==
  /\ queue' = << >>
  /\ staged' = {}
  /\ txnState' = "none"
  /\ txnOpen' = FALSE
  /\ deliveryErrors' = FALSE
  /\ UNCHANGED <<producer, fatal, txnInitialized, sent, topic>>

\* The producer has seen a fatal error, or is marked so by mark_fatal().
SetFatal ==
  /\ fatal' = TRUE
  /\ UNCHANGED <<producer, deliveryErrors, txnInitialized, txnOpen, sent, queue, brokerVars>>

\* What becomes of the queue when the client goes away, by close() or with its
\* process: some of it has arrived or still does, the rest is purged.
LoseQueue ==
  \E n \in 0..Len(queue) :
    /\ n > 0 => Accepting
    /\ Arrive({queue[i] : i \in 1..n})

\* close(): abort an open transaction if the coordinator still can, flush what
\* arrives in time, purge the rest.  Closing a closed producer does nothing.
CloseEffect ==
  IF producer = "open"
    THEN \/ txnOpen /\ txnState = "open" /\ staged' = {} /\ txnState' = "none" /\ UNCHANGED topic
         \/ LoseQueue
    ELSE UNCHANGED brokerVars

\* The client side of a producer that is gone; handle is what the bridge keeps.
ClientGone(handle) ==
  /\ producer' = handle
  /\ queue' = << >>
  /\ sent' = {}
  /\ txnOpen' = FALSE
  /\ deliveryErrors' = FALSE
  /\ txnInitialized' = FALSE

\* The pipeline closes its producer: the bridge still holds the closed handle.
CloseProducer == CloseEffect /\ ClientGone("closed") /\ UNCHANGED fatal

\* The bridge closes its producer and drops the handle.
DropProducer == CloseEffect /\ ClientGone("none") /\ fatal' = FALSE
=============================================================================
