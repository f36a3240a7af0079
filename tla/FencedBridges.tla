---------------------------- MODULE FencedBridges ----------------------------
(***************************************************************************)
(* Several transactional bridges on one stream: a failover whose           *)
(* predecessor is not dead.  They share the stream's acknowledgement       *)
(* frontier, the transactional id and the cursor file, and so also the     *)
(* file <cursor_file>.tmp that each replacement goes through.              *)
(*                                                                         *)
(* A bridge is cut down to what the others can see of it; module Bridge    *)
(* has the rest.  FoundationDB, the coordinator and the file system are    *)
(* external.  Whoever calls init_transactions() last holds the id: any     *)
(* later call of another holder fails with a fatal error, and run() ends.  *)
(***************************************************************************)
EXTENDS StreamData

CONSTANTS
  Bridges,     \* the processes that may run the bridge
  MaxStarts    \* starts and rebuilds, all bridges together; bounds the epochs

ASSUME FencingAssumption == MaxStarts \in Nat

VARIABLES
  committed, minVersion,  \* FDB, as in CDCListener
  epoch,       \* coordinator: the epoch of the last init_transactions()
  txn,         \* coordinator: the current transaction
  log,         \* broker: the committed transactions, in order
  tmp, file,   \* contents of the temporary and of the cursor file
  starts,      \* how often a bridge was started
  pc,          \* where each bridge is
  consumed,    \* through which version its listener has consumed
  from,        \* and had consumed before its current batch
  myEpoch,     \* the epoch of its producer
  fd           \* what its descriptor of the temporary file has become

fdbVars == <<committed, minVersion>>
kafkaVars == <<epoch, txn, log>>
fileVars == <<tmp, file, fd>>
bridgeVars == <<pc, consumed, from, myEpoch>>
vars == <<fdbVars, kafkaVars, fileVars, bridgeVars, starts>>

\* A file that does not exist, was truncated or cannot be parsed; any other one
\* holds the version of a cursor.
Absent == -1
Empty == -2
Corrupt == -3
Content == {Absent, Empty, Corrupt} \cup 0..MaxVersion

NoTxn == [state |-> "none", lo |-> 0, hi |-> 0]

Init ==
  /\ committed = 0 /\ minVersion = 1
  /\ epoch = 0 /\ txn = NoTxn /\ log = << >>
  /\ tmp = Absent /\ file = Absent /\ starts = 0
  /\ pc = [b \in Bridges |-> "down"]
  /\ consumed = [b \in Bridges |-> 0]
  /\ from = [b \in Bridges |-> 0]
  /\ myEpoch = [b \in Bridges |-> 0]
  /\ fd = [b \in Bridges |-> "none"]

Goto(b, p) == pc' = [pc EXCEPT ![b] = p]
AtVersion(b, v) == consumed' = [consumed EXCEPT ![b] = v]
Release(b) == minVersion' = IF consumed[b] + 1 > minVersion THEN consumed[b] + 1 ELSE minVersion

\* The process ends: by a fatal or terminal error, by stop() or by a crash.
Down(b) == Goto(b, "down") /\ fd' = [fd EXCEPT ![b] = "none"]

-----------------------------------------------------------------------------
\* A client of the database commits the next version (external).
Workload ==
  /\ committed < MaxVersion
  /\ committed' = committed + 1
  /\ UNCHANGED <<minVersion, kafkaVars, fileVars, bridgeVars, starts>>

\* Mutant: the cursor is taken for the first version to consume next but one.
LoadBeyond(b) ==
  /\ pc[b] = "down" /\ starts < MaxStarts /\ file \notin {Empty, Corrupt}
  /\ starts' = starts + 1
  /\ IF file = Absent THEN AtVersion(b, minVersion - 1) /\ Goto(b, "init")
                      ELSE AtVersion(b, file + 1) /\ Goto(b, "init")
  /\ UNCHANGED <<fdbVars, kafkaVars, fileVars, from, myEpoch>>

\* start() or a rebuild loads the cursor and creates or resumes the consumer.
\* A file that is empty or corrupt raises ValueError.
Load(b) ==
  /\ pc[b] = "down" /\ starts < MaxStarts /\ file \notin {Empty, Corrupt}
  /\ starts' = starts + 1
  /\ IF file = Absent THEN AtVersion(b, minVersion - 1) /\ Goto(b, "init")
                      ELSE AtVersion(b, file) /\ Goto(b, "reconcile")
  /\ UNCHANGED <<fdbVars, kafkaVars, fileVars, from, myEpoch>>

Reconcile(b) ==
  /\ pc[b] = "reconcile"
  /\ Release(b)
  /\ Goto(b, "init")
  /\ UNCHANGED <<committed, kafkaVars, fileVars, consumed, from, myEpoch, starts>>

\* A prepared transaction is completed, an open one is aborted.
Finished == IF txn.state = "prepared" THEN Append(log, txn) ELSE log

InitTransactions(b) ==
  /\ pc[b] = "init"
  /\ epoch' = epoch + 1
  /\ myEpoch' = [myEpoch EXCEPT ![b] = epoch']
  /\ log' = Finished
  /\ txn' = NoTxn
  /\ Goto(b, "step")
  /\ UNCHANGED <<fdbVars, fileVars, consumed, from, starts>>

Holds(b) == myEpoch[b] = epoch

\* step() polls a reply.  Versions another bridge has released are gone: 1007.
Poll(b) ==
  /\ pc[b] = "step" /\ consumed[b] + 1 >= minVersion
  /\ \E hi \in (consumed[b] + 1)..committed : AtVersion(b, hi)
  /\ from' = [from EXCEPT ![b] = consumed[b]]
  /\ Goto(b, "produce")
  /\ UNCHANGED <<fdbVars, kafkaVars, fileVars, myEpoch, starts>>

PollTooOld(b) ==
  /\ pc[b] = "step" /\ consumed[b] + 1 < minVersion
  /\ Down(b)
  /\ UNCHANGED <<fdbVars, kafkaVars, tmp, file, consumed, from, myEpoch, starts>>

\* The transaction is begun and the batch produced.  The broker takes nothing
\* of a fenced producer, which need not know yet.
Produce(b) ==
  /\ pc[b] = "produce"
  /\ txn' = IF Holds(b) THEN [state |-> "open", lo |-> from[b], hi |-> consumed[b]] ELSE txn
  /\ Goto(b, "commit")
  /\ UNCHANGED <<fdbVars, epoch, log, fileVars, consumed, from, myEpoch, starts>>

\* The commit is answered, or was carried out by an attempt that was not.
Commit(b) ==
  /\ pc[b] = "commit" /\ Holds(b) /\ txn.state \in {"open", "prepared"}
  /\ log' = Append(log, txn)
  /\ txn' = NoTxn
  /\ Goto(b, "checkpoint")
  /\ UNCHANGED <<fdbVars, epoch, fileVars, consumed, from, myEpoch, starts>>

\* Mutant: a request that was sent is taken for a commit.
CommitUnansweredDone(b) ==
  /\ pc[b] = "commit" /\ Holds(b) /\ txn.state = "open"
  /\ txn' = [txn EXCEPT !.state = "prepared"]
  /\ Goto(b, "checkpoint")
  /\ UNCHANGED <<fdbVars, epoch, log, fileVars, consumed, from, myEpoch, starts>>

\* A retriable error: the coordinator has the request, step() tries again.
CommitUnanswered(b) ==
  /\ pc[b] = "commit" /\ Holds(b) /\ txn.state = "open"
  /\ txn' = [txn EXCEPT !.state = "prepared"]
  /\ UNCHANGED <<fdbVars, epoch, log, fileVars, bridgeVars, starts>>

\* Mutant: a fenced commit is taken for one that another attempt has made.
FencedIgnored(b) ==
  /\ pc[b] = "commit" /\ ~Holds(b)
  /\ Goto(b, "checkpoint")
  /\ UNCHANGED <<fdbVars, kafkaVars, fileVars, consumed, from, myEpoch, starts>>

\* Fenced: a fatal error, which run() raises.
Fenced(b) ==
  /\ pc[b] = "commit" /\ ~Holds(b)
  /\ Down(b)
  /\ UNCHANGED <<fdbVars, kafkaVars, tmp, file, consumed, from, myEpoch, starts>>

-----------------------------------------------------------------------------
(***************************************************************************)
(* _save_cursor_to_file(), whose temporary file is one for all bridges.    *)
(***************************************************************************)
\* open(tmp_path, "w"): created or, when another bridge has it open, truncated.
OpenTmp(b) ==
  /\ pc[b] = "checkpoint"
  /\ tmp' = Empty
  /\ fd' = [fd EXCEPT ![b] = "tmp"]
  /\ Goto(b, "write")
  /\ UNCHANGED <<fdbVars, kafkaVars, file, consumed, from, myEpoch, starts>>

\* What a write of cursor v from the start makes of a file: when it held a
\* longer one already, its last characters stay behind.
Written(old, v) == IF old = Empty THEN {v} ELSE {v, Corrupt}

\* The descriptor's file may have been renamed, or replaced after that.
WriteTmp(b) ==
  /\ pc[b] = "write"
  /\ \/ fd[b] = "tmp" /\ tmp' \in Written(tmp, consumed[b]) /\ UNCHANGED file
     \/ fd[b] = "file" /\ file' \in Written(file, consumed[b]) /\ UNCHANGED tmp
     \/ fd[b] = "gone" /\ UNCHANGED <<tmp, file>>
  /\ Goto(b, "replace")
  /\ UNCHANGED <<fdbVars, kafkaVars, fd, consumed, from, myEpoch, starts>>

\* os.replace(): whatever the temporary file holds becomes the cursor file,
\* also for the descriptors the others have of either.
Replace(b) ==
  /\ pc[b] = "replace" /\ tmp # Absent
  /\ file' = tmp
  /\ tmp' = Absent
  /\ fd' = [c \in Bridges |->
              IF c = b THEN "none"
              ELSE IF fd[c] = "tmp" THEN "file"
              ELSE IF fd[c] = "file" THEN "gone" ELSE fd[c]]
  /\ Goto(b, "ack")
  /\ UNCHANGED <<fdbVars, kafkaVars, consumed, from, myEpoch, starts>>

\* Another bridge has renamed it: OSError, and the next step() tries again.
ReplaceFails(b) ==
  /\ pc[b] = "replace" /\ tmp = Absent
  /\ fd' = [fd EXCEPT ![b] = "none"]
  /\ Goto(b, "checkpoint")
  /\ UNCHANGED <<fdbVars, kafkaVars, tmp, file, consumed, from, myEpoch, starts>>

Ack(b) ==
  /\ pc[b] = "ack"
  /\ Release(b)
  /\ Goto(b, "step")
  /\ UNCHANGED <<committed, kafkaVars, fileVars, consumed, from, myEpoch, starts>>

\* The process crashes, is stopped, or rebuilds its pipeline.
Crash(b) ==
  /\ pc[b] # "down"
  /\ Down(b)
  /\ UNCHANGED <<fdbVars, kafkaVars, tmp, file, consumed, from, myEpoch, starts>>

-----------------------------------------------------------------------------
Next ==
  \/ Workload
  \/ \E b \in Bridges :
       \/ Load(b) \/ Reconcile(b) \/ InitTransactions(b)
       \/ Poll(b) \/ PollTooOld(b) \/ Produce(b)
       \/ Commit(b) \/ CommitUnanswered(b) \/ Fenced(b)
       \/ OpenTmp(b) \/ WriteTmp(b) \/ Replace(b) \/ ReplaceFails(b)
       \/ Ack(b) \/ Crash(b)

Spec == Init /\ [][Next]_vars
=============================================================================
