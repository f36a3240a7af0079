--------------------------- MODULE FencingProofs ---------------------------
(***************************************************************************)
(* Proofs, for any number of bridges on one stream, that a failover whose  *)
(* predecessor is not dead loses nothing (ReleasedIsRead, CursorIsRead),   *)
(* leaves no gap in the topic (LogHasNoGap), and keeps the promise of one  *)
(* bridge (FencedKeepsPromise).                                            *)
(***************************************************************************)
EXTENDS FencingProperties, TLAPS

Transaction == [state : {"open", "prepared"}, lo : 0..MaxVersion, hi : 0..MaxVersion]

Points == {"down", "reconcile", "init", "step", "produce", "commit", "checkpoint", "write",
           "replace", "ack"}

\* The points between the end of init_transactions() and that of the process.
WithProducer == {"step", "produce", "commit", "checkpoint", "write", "replace", "ack"}

FencingTypeOK ==
  /\ committed \in 0..MaxVersion /\ minVersion \in 1..(MaxVersion + 1)
  /\ epoch \in Nat
  /\ txn \in Transaction \cup {NoTxn}
  /\ log \in Seq(Transaction)
  /\ tmp \in Content /\ file \in Content
  /\ pc \in [Bridges -> Points]
  /\ consumed \in [Bridges -> 0..MaxVersion]
  /\ from \in [Bridges -> 0..MaxVersion]
  /\ myEpoch \in [Bridges -> Nat]

\* The epoch of a producer is its own: at most one bridge holds the id.
EpochsDiffer ==
  \A b \in Bridges :
    /\ myEpoch[b] <= epoch
    /\ pc[b] \in WithProducer => myEpoch[b] > 0
    /\ \A c \in Bridges : myEpoch[b] = myEpoch[c] /\ myEpoch[b] > 0 => b = c

\* The coordinator's transaction is the batch of the bridge that holds the id,
\* as long as that bridge waits for its commit, and continues what was read.
TxnOfHolder ==
  /\ \A b \in Bridges : pc[b] = "commit" /\ Holds(b) => txn.hi = consumed[b]
  /\ ReadThrough(Len(log), txn.lo)

\* Where a bridge stands is readable, but for the batch it has in hand; that
\* batch continues what is readable.
PositionsRead ==
  \A b \in Bridges :
    /\ pc[b] \in {"produce", "commit"} => ReadThrough(Len(log), from[b])
    /\ pc[b] \notin {"down", "produce", "commit"} => ReadThrough(Len(log), consumed[b])

\* Both files hold cursors that were written after their versions were read.
FilesRead == \A v \in {tmp, file} : v \in 0..MaxVersion => ReadThrough(Len(log), v)

FencingInv ==
  /\ FencingTypeOK
  /\ EpochsDiffer
  /\ TxnOfHolder
  /\ PositionsRead
  /\ FilesRead
  /\ ReleasedIsRead
  /\ LogHasNoGap

-----------------------------------------------------------------------------
(***************************************************************************)
(* Types.                                                                  *)
(***************************************************************************)
\* A step of the database or of one bridge.
BridgeStep(b) ==
  \/ Load(b) \/ Reconcile(b) \/ InitTransactions(b)
  \/ Poll(b) \/ PollTooOld(b) \/ Produce(b)
  \/ Commit(b) \/ CommitUnanswered(b) \/ Fenced(b)
  \/ OpenTmp(b) \/ WriteTmp(b) \/ Replace(b) \/ ReplaceFails(b)
  \/ Ack(b) \/ Crash(b)

\* Every action keeps the state well typed.
LEMMA FencingTypeStep == FencingTypeOK /\ [Next]_vars => FencingTypeOK'
  <1>. SUFFICES ASSUME FencingTypeOK, [Next]_vars PROVE FencingTypeOK'
    OBVIOUS
  <1>0. MaxVersion \in Nat
    BY StreamAssumption
  <1>. USE <1>0 DEF FencingTypeOK, fdbVars, kafkaVars, fileVars, bridgeVars, Goto, AtVersion, Content,
                    Points, Absent, Empty, Corrupt
  <1>1. CASE Workload
    BY <1>1 DEF Workload
  <1>2. ASSUME NEW b \in Bridges, BridgeStep(b)
        PROVE  FencingTypeOK'
    <2>1. CASE Load(b)
      <3>1. (IF file = Absent THEN minVersion - 1 ELSE file) \in 0..MaxVersion
        BY <2>1 DEF Load
      <3>2. /\ consumed' = [consumed EXCEPT ![b] = IF file = Absent THEN minVersion - 1 ELSE file]
            /\ pc' = [pc EXCEPT ![b] = IF file = Absent THEN "init" ELSE "reconcile"]
            /\ UNCHANGED <<fdbVars, kafkaVars, fileVars, from, myEpoch>>
        BY <2>1 DEF Load
      <3>3. consumed' \in [Bridges -> 0..MaxVersion]
        BY <3>1, <3>2
      <3>4. pc' \in [Bridges -> Points]
        BY <3>2
      <3>. QED BY <3>2, <3>3, <3>4
    <2>2. CASE Reconcile(b)
      BY <2>2 DEF Reconcile, Release
    <2>3. CASE InitTransactions(b)
      <3>1. txn.state = "prepared" => txn \in Transaction
        BY DEF NoTxn
      <3>2. log' \in Seq(Transaction)
        BY <2>3, <3>1 DEF InitTransactions, Finished
      <3>. QED BY <2>3, <3>2 DEF InitTransactions
    <2>4. CASE Poll(b)
      BY <2>4 DEF Poll
    <2>5. CASE PollTooOld(b)
      BY <2>5 DEF PollTooOld, Down
    <2>6. CASE Produce(b)
      BY <2>6 DEF Produce, Transaction, NoTxn
    <2>7. CASE Commit(b)
      BY <2>7 DEF Commit, Transaction, NoTxn
    <2>8. CASE CommitUnanswered(b)
      <3>1. txn \in Transaction
        BY <2>8 DEF CommitUnanswered, NoTxn
      <3>2. txn' \in Transaction
        BY <2>8, <3>1 DEF CommitUnanswered, Transaction
      <3>. QED BY <2>8, <3>2 DEF CommitUnanswered
    <2>9. CASE Fenced(b)
      BY <2>9 DEF Fenced, Down
    <2>10. CASE OpenTmp(b)
      BY <2>10 DEF OpenTmp
    <2>11. CASE WriteTmp(b)
      BY <2>11 DEF WriteTmp, Written
    <2>12. CASE Replace(b)
      BY <2>12 DEF Replace
    <2>13. CASE ReplaceFails(b)
      BY <2>13 DEF ReplaceFails
    <2>14. CASE Ack(b)
      BY <2>14 DEF Ack, Release
    <2>15. CASE Crash(b)
      BY <2>15 DEF Crash, Down
    <2>. QED BY <1>2, <2>1, <2>2, <2>3, <2>4, <2>5, <2>6, <2>7, <2>8, <2>9, <2>10, <2>11, <2>12,
                <2>13, <2>14, <2>15
             DEF BridgeStep
  <1>3. CASE UNCHANGED vars
    BY <1>3 DEF vars
  <1>. QED BY <1>1, <1>2, <1>3 DEF Next, BridgeStep

-----------------------------------------------------------------------------
(***************************************************************************)
(* The log, the coordinator and who holds the id.                          *)
(***************************************************************************)
\* The log only grows, by the coordinator's transaction.
LEMMA LogStep ==
  ASSUME FencingTypeOK, [Next]_vars
  PROVE  log' = log \/ (txn \in Transaction /\ log' = Append(log, txn))
  BY DEF FencingTypeOK, NoTxn, Next, vars, kafkaVars, Workload, Load, Reconcile, InitTransactions,
         Finished,
     Poll, PollTooOld, Produce, Commit, CommitUnanswered, Fenced, OpenTmp, WriteTmp, Replace, ReplaceFails,
     Ack, Crash

\* What has been read stays read.
LEMMA ReadStays ==
  ASSUME FencingTypeOK, [Next]_vars, NEW n \in 0..Len(log), NEW v \in Int, ReadThrough(n, v)
  PROVE  ReadThrough(n, v)' /\ ReadThrough(Len(log), v)'
  <1>1. Len(log) \in Nat /\ Len(log') \in Nat /\ Len(log) <= Len(log')
        /\ \A i \in 1..Len(log) : log'[i] = log[i]
    <2>1. CASE log' = log
      BY <2>1 DEF FencingTypeOK
    <2>2. CASE txn \in Transaction /\ log' = Append(log, txn)
      BY <2>2 DEF FencingTypeOK
    <2>. QED BY <2>1, <2>2, LogStep
  <1>2. n \in Nat /\ 1..n \subseteq 1..Len(log) /\ 1..n \subseteq 1..Len(log')
    BY <1>1
  <1>. QED BY <1>1, <1>2 DEF ReadThrough

\* A new producer's epoch is a new one, and the only current one.
LEMMA EpochsStep ==
  ASSUME FencingTypeOK, EpochsDiffer, [Next]_vars
  PROVE  EpochsDiffer'
  <1>. USE DEF FencingTypeOK, EpochsDiffer, WithProducer, Goto
  <1>1. ASSUME NEW b \in Bridges, InitTransactions(b)
        PROVE  EpochsDiffer'
    BY <1>1 DEF InitTransactions
  <1>2. ASSUME NEW b \in Bridges, Load(b) \/ Reconcile(b) \/ Poll(b) \/ Produce(b) \/ Commit(b) \/ OpenTmp(b)
                                  \/ WriteTmp(b) \/ Replace(b) \/ ReplaceFails(b) \/ Ack(b)
        PROVE  EpochsDiffer'
    BY <1>2
    DEF Load, Reconcile, Poll, Produce, Commit, OpenTmp, WriteTmp, Replace, ReplaceFails, Ack,
        kafkaVars
  <1>3. ASSUME NEW b \in Bridges, PollTooOld(b) \/ Fenced(b) \/ Crash(b)
        PROVE  EpochsDiffer'
    BY <1>3 DEF PollTooOld, Fenced, Crash, Down, kafkaVars
  <1>4. CASE Workload \/ UNCHANGED vars \/ \E b \in Bridges : CommitUnanswered(b)
    BY <1>4 DEF Workload, CommitUnanswered, vars, bridgeVars, kafkaVars
  <1>. QED BY <1>1, <1>2, <1>3, <1>4 DEF Next

\* While a bridge waits for its commit nothing but the broker's answer changes
\* the transaction of the holder.
LEMMA CommitWaits ==
  ASSUME FencingTypeOK, EpochsDiffer, [Next]_vars, NEW b \in Bridges, pc'[b] = "commit", Holds(b)',
         ~Produce(b)
  PROVE  pc[b] = "commit" /\ Holds(b) /\ consumed'[b] = consumed[b] /\ txn'.hi = txn.hi
  <1>. USE DEF FencingTypeOK, EpochsDiffer, WithProducer, Holds, Goto
  <1>1. CASE Workload \/ UNCHANGED vars
    BY <1>1 DEF Workload, vars, bridgeVars, kafkaVars
  <1>2. ASSUME NEW c \in Bridges, BridgeStep(c), pc[b] # "commit"
        PROVE  FALSE
    BY <1>2 DEF BridgeStep, Load, Reconcile, InitTransactions, Poll, PollTooOld, Produce, Commit,
       CommitUnanswered, Fenced, OpenTmp, WriteTmp, Replace, ReplaceFails, Ack, Crash, Down, bridgeVars
  <1>3. ASSUME NEW c \in Bridges, InitTransactions(c), pc[b] = "commit"
        PROVE  FALSE
    <2>1. c # b /\ epoch' = epoch + 1 /\ myEpoch'[b] = myEpoch[b] /\ myEpoch[b] <= epoch
      BY <1>3 DEF InitTransactions
    <2>. QED BY <2>1
  <1>4. ASSUME NEW c \in Bridges, pc[b] = "commit",
               Load(c) \/ Reconcile(c) \/ Poll(c) \/ PollTooOld(c) \/ Fenced(c) \/ OpenTmp(c) \/ WriteTmp(c)
               \/ Replace(c) \/ ReplaceFails(c) \/ Ack(c) \/ Crash(c)
        PROVE  Holds(b) /\ consumed'[b] = consumed[b] /\ txn'.hi = txn.hi
    BY <1>4
    DEF Load, Reconcile, Poll, PollTooOld, Fenced, OpenTmp, WriteTmp, Replace, ReplaceFails, Ack,
       Crash, Down, AtVersion, kafkaVars
  <1>5. ASSUME NEW c \in Bridges, pc[b] = "commit", CommitUnanswered(c)
        PROVE  Holds(b) /\ consumed'[b] = consumed[b] /\ txn'.hi = txn.hi
    <2>1. txn \in Transaction
      BY <1>5 DEF CommitUnanswered, NoTxn
    <2>. QED BY <1>5, <2>1 DEF CommitUnanswered, bridgeVars, Transaction
  <1>6. ASSUME NEW c \in Bridges, pc[b] = "commit", Commit(c) \/ Produce(c)
        PROVE  Holds(b) /\ consumed'[b] = consumed[b] /\ txn'.hi = txn.hi
    <2>1. Holds(b) /\ c # b /\ consumed' = consumed
      BY <1>6 DEF Commit, Produce
    <2>2. myEpoch[b] > 0 /\ ~Holds(c)
      BY <1>6, <2>1
    <2>. QED BY <1>6, <2>1, <2>2 DEF Commit, Produce
  <1>. QED BY <1>1, <1>2, <1>3, <1>4, <1>5, <1>6 DEF Next, BridgeStep

\* Nobody but the holder of the id touches the transaction while it commits.
LEMMA TxnStep ==
  ASSUME FencingTypeOK, EpochsDiffer, TxnOfHolder, PositionsRead, [Next]_vars
  PROVE  TxnOfHolder'
  <1>. USE DEF FencingTypeOK
  <1>1. ASSUME NEW b \in Bridges, pc'[b] = "commit", Holds(b)'
        PROVE  txn'.hi = consumed'[b]
    <2>1. CASE Produce(b)
      BY <1>1, <2>1 DEF Produce, Holds
    <2>2. CASE ~Produce(b)
      BY <1>1, <2>2, CommitWaits DEF TxnOfHolder
    <2>. QED BY <2>1, <2>2
  <1>2. ReadThrough(Len(log), txn'.lo) /\ txn'.lo \in Int
    <2>1. CASE txn' = txn \/ txn' = NoTxn \/ \E b \in Bridges : CommitUnanswered(b)
      <3>1. txn'.lo \in {0, txn.lo}
        BY <2>1 DEF NoTxn, CommitUnanswered, Transaction
      <3>2. txn.lo \in Int /\ ReadThrough(Len(log), 0)
        BY StreamAssumption DEF NoTxn, Transaction, ReadThrough
      <3>. QED BY <3>1, <3>2 DEF TxnOfHolder
    <2>2. ASSUME NEW b \in Bridges, Produce(b), Holds(b)
          PROVE  ReadThrough(Len(log), txn'.lo) /\ txn'.lo \in Int
      BY <2>2, StreamAssumption DEF Produce, PositionsRead
    <2>. QED BY <2>1, <2>2
             DEF Next, vars, kafkaVars, Workload, Load, Reconcile, InitTransactions, Poll,
                 PollTooOld,
             Produce, Commit, Fenced, OpenTmp, WriteTmp, Replace, ReplaceFails, Ack, Crash
  <1>3. ReadThrough(Len(log), txn.lo)'
    BY <1>2, ReadStays
  <1>. QED BY <1>1, <1>3 DEF TxnOfHolder

-----------------------------------------------------------------------------
(***************************************************************************)
(* Positions, files and the frontier.                                      *)
(***************************************************************************)
\* Where a bridge may be taken from: its own cursor, the frontier, or what it
\* has just committed.
LEMMA PositionsStep ==
  ASSUME FencingInv, [Next]_vars
  PROVE  PositionsRead'
  <1>0. /\ FencingTypeOK /\ EpochsDiffer /\ TxnOfHolder /\ PositionsRead /\ FilesRead /\ ReleasedIsRead
        /\ MaxVersion \in Nat
    BY StreamAssumption DEF FencingInv
  <1>1. \A v \in Int : ReadThrough(Len(log), v) => ReadThrough(Len(log), v)'
    BY <1>0, ReadStays DEF FencingTypeOK
  <1>2. ASSUME NEW b \in Bridges, pc'[b] \in {"produce", "commit"}
        PROVE  ReadThrough(Len(log), from'[b])
    <2>1. CASE Poll(b)
      BY <1>0, <1>2, <2>1 DEF Poll, Goto, PositionsRead, FencingTypeOK
    <2>2. CASE ~Poll(b)
      <3>1. pc[b] \in {"produce", "commit"} /\ from'[b] = from[b]
        BY <1>0, <1>2, <2>2
        DEF FencingTypeOK, Goto, Next, vars, bridgeVars, Workload, Load, Reconcile,
           InitTransactions, Poll, PollTooOld, Produce, Commit, CommitUnanswered, Fenced, OpenTmp, WriteTmp,
           Replace, ReplaceFails, Ack, Crash, Down
      <3>. QED BY <1>0, <3>1 DEF PositionsRead
    <2>. QED BY <2>1, <2>2
  <1>3. ASSUME NEW b \in Bridges, pc'[b] \notin {"down", "produce", "commit"}
        PROVE  ReadThrough(Len(log), consumed[b]') \/ ReadThrough(Len(log), consumed[b])'
    <2>1. CASE Load(b)
      <3>1. consumed'[b] = IF file = Absent THEN minVersion - 1 ELSE file
        BY <1>0, <2>1 DEF Load, AtVersion, FencingTypeOK
      <3>. QED BY <1>0, <2>1, <3>1 DEF Load, FencingTypeOK, FilesRead, ReleasedIsRead, Content
    <2>2. CASE Commit(b)
      <3>1. txn \in Transaction /\ log' = Append(log, txn) /\ consumed'[b] = txn.hi
        BY <1>0, <2>2 DEF Commit, FencingTypeOK, NoTxn, TxnOfHolder
      <3>2. Len(log') \in 1..Len(log') /\ log'[Len(log')] = txn
        BY <1>0, <3>1 DEF FencingTypeOK
      <3>3. txn.hi \in 0..MaxVersion /\ txn.hi <= txn.hi
        BY <1>0, <3>1 DEF Transaction
      <3>. QED BY <3>1, <3>2, <3>3, Zenon DEF ReadThrough
    <2>3. CASE ~Load(b) /\ ~Commit(b)
      <3>1. pc[b] \notin {"down", "produce", "commit"} /\ consumed'[b] = consumed[b]
        <4>1. CASE Workload \/ UNCHANGED vars
          BY <1>3, <4>1 DEF Workload, vars, bridgeVars
        <4>2. ASSUME NEW c \in Bridges, BridgeStep(c), ~Poll(c), ~Load(c)
              PROVE  consumed' = consumed
          BY <4>2
          DEF BridgeStep, bridgeVars, Reconcile, InitTransactions, PollTooOld, Produce, Commit,
             CommitUnanswered, Fenced, OpenTmp, WriteTmp, Replace, ReplaceFails, Ack, Crash
        <4>3. ASSUME NEW c \in Bridges, BridgeStep(c), c # b
              PROVE  pc'[b] = pc[b] /\ consumed'[b] = consumed[b]
          <5>1. pc'[b] = pc[b]
            BY <1>0, <4>3
            DEF FencingTypeOK, Goto, BridgeStep, bridgeVars, Load, Reconcile, InitTransactions,
               Poll, PollTooOld, Produce, Commit, CommitUnanswered, Fenced, OpenTmp, WriteTmp, Replace,
               ReplaceFails, Ack, Crash, Down
          <5>2. CASE Poll(c) \/ Load(c)
            <6>1. \E v : consumed' = [consumed EXCEPT ![c] = v]
              BY <5>2, Zenon DEF Poll, Load, AtVersion
            <6>2. consumed \in [Bridges -> 0..MaxVersion]
              BY <1>0 DEF FencingTypeOK
            <6>. QED BY <4>3, <5>1, <6>1, <6>2
          <5>3. CASE ~Poll(c) /\ ~Load(c)
            <6>1. consumed' = consumed
              BY <4>2, <4>3, <5>3
            <6>. QED BY <5>1, <6>1
          <5>. QED BY <5>2, <5>3
        <4>4. ASSUME BridgeStep(b)
              PROVE  pc[b] \notin {"down", "produce", "commit"} /\ ~Poll(b)
          BY <1>0, <1>3, <2>3, <4>4 DEF FencingTypeOK, Goto, BridgeStep, bridgeVars, Reconcile,
             InitTransactions, Poll, PollTooOld, Produce, CommitUnanswered, Fenced, OpenTmp, WriteTmp, Replace,
             ReplaceFails, Ack, Crash, Down
        <4>. QED BY <1>3, <2>3, <4>1, <4>2, <4>3, <4>4 DEF Next, BridgeStep
      <3>. QED BY <1>0, <3>1 DEF PositionsRead
    <2>. QED BY <2>1, <2>2, <2>3
  <1>4. \A b \in Bridges : from'[b] \in Int /\ consumed'[b] \in Int
    BY <1>0, FencingTypeStep DEF FencingTypeOK
  <1>. QED BY <1>1, <1>2, <1>3, <1>4 DEF PositionsRead

\* A descriptor writes what its bridge has consumed; a rename only moves it.
LEMMA FilesStep ==
  ASSUME FencingInv, [Next]_vars
  PROVE  FilesRead'
  <1>0. FencingTypeOK /\ PositionsRead /\ FilesRead
    BY DEF FencingInv
  <1>1. \A v \in Int : ReadThrough(Len(log), v) => ReadThrough(Len(log), v)'
    BY <1>0, ReadStays DEF FencingTypeOK
  <1>2. ASSUME NEW v \in 0..MaxVersion, v \in {tmp', file'}, v \notin {tmp, file}
        PROVE  \E b \in Bridges : pc[b] = "write" /\ v = consumed[b]
    <2>1. v \notin {Absent, Empty, Corrupt}
      BY StreamAssumption DEF Absent, Empty, Corrupt
    <2>. QED BY <1>2, <2>1
             DEF Next, vars, fileVars, Workload, Load, Reconcile, InitTransactions, Poll,
                 PollTooOld,
             Produce, Commit, CommitUnanswered, Fenced, OpenTmp, WriteTmp, Written, Replace, ReplaceFails, Ack, Crash
  <1>3. ASSUME NEW v \in 0..MaxVersion, v \in {tmp', file'}
        PROVE  ReadThrough(Len(log), v)
    BY <1>0, <1>2, <1>3 DEF FilesRead, PositionsRead
  <1>4. \A v \in 0..MaxVersion : v \in Int
    BY StreamAssumption
  <1>. QED BY <1>1, <1>3, <1>4 DEF FilesRead

\* A bridge moves the frontier to where it stands, which is readable.
LEMMA ReleasedStep ==
  ASSUME FencingInv, [Next]_vars
  PROVE  ReleasedIsRead'
  <1>0. FencingTypeOK /\ PositionsRead /\ ReleasedIsRead
    BY DEF FencingInv
  <1>1. minVersion' = minVersion
        \/ \E b \in Bridges : pc[b] \in {"reconcile", "ack"} /\ minVersion' - 1 = consumed[b]
    BY <1>0
    DEF FencingTypeOK, Next, vars, fdbVars, Workload, Load, Reconcile, InitTransactions, Poll,
        PollTooOld,
       Produce, Commit, CommitUnanswered, Fenced, OpenTmp, WriteTmp, Replace, ReplaceFails, Ack, Crash, Release
  <1>2. ReadThrough(Len(log), minVersion' - 1)
    BY <1>0, <1>1 DEF ReleasedIsRead, PositionsRead
  <1>3. minVersion' - 1 \in Int
    BY <1>0, FencingTypeStep DEF FencingTypeOK
  <1>. QED BY <1>0, <1>2, <1>3, ReadStays DEF ReleasedIsRead, FencingTypeOK

\* A transaction is added when what precedes it has been read.
LEMMA NoGapStep ==
  ASSUME FencingInv, [Next]_vars
  PROVE  LogHasNoGap'
  <1>0. FencingTypeOK /\ TxnOfHolder /\ LogHasNoGap
    BY DEF FencingInv
  <1>1. CASE log' = log
    BY <1>0, <1>1 DEF LogHasNoGap, ReadThrough
  <1>2. CASE txn \in Transaction /\ log' = Append(log, txn)
    <2>1. /\ Len(log) \in Nat /\ Len(log') = Len(log) + 1 /\ log'[Len(log')] = txn
          /\ \A i \in 1..Len(log) : log'[i] = log[i] /\ log[i] \in Transaction
      BY <1>0, <1>2 DEF FencingTypeOK
    <2>2. ASSUME NEW i \in 1..Len(log')
          PROVE  ReadThrough(i - 1, log'[i].lo) /\ i - 1 \in 0..Len(log) /\ log'[i].lo \in Int
      <3>1. CASE i = Len(log')
        BY <1>0, <1>2, <2>1, <3>1, StreamAssumption DEF TxnOfHolder, Transaction
      <3>2. CASE i # Len(log')
        BY <1>0, <2>1, <3>2, StreamAssumption DEF LogHasNoGap, Transaction
      <3>. QED BY <3>1, <3>2
    <2>3. ASSUME NEW i \in 1..Len(log')
          PROVE  ReadThrough(i - 1, log[i].lo)'
      <3>. DEFINE n == i - 1
                  v == log'[i].lo
      <3>1. n \in 0..Len(log) /\ v \in Int /\ ReadThrough(n, v)
        BY <2>2
      <3>. HIDE DEF n, v
      <3>2. \A k \in 1..n : log'[k] = log[k]
        BY <2>1, <3>1
      <3>3. v = 0 \/ \E k \in 1..n : v <= log'[k].hi
        BY <3>1, <3>2 DEF ReadThrough
      <3>. QED BY <3>3 DEF ReadThrough, n, v
    <2>. QED BY <2>3 DEF LogHasNoGap
  <1>. QED BY <1>0, <1>1, <1>2, LogStep

-----------------------------------------------------------------------------
(***************************************************************************)
(* The invariant, and what it gives.                                       *)
(***************************************************************************)
\* Nothing has been published, released or written.
LEMMA FencingInit == Init => FencingInv
  <1>. SUFFICES ASSUME Init PROVE FencingInv
    OBVIOUS
  <1>1. FencingTypeOK
    BY StreamAssumption DEF Init, FencingTypeOK, NoTxn, Content, Points
  <1>2. EpochsDiffer
    BY DEF Init, EpochsDiffer, WithProducer
  <1>3. TxnOfHolder /\ PositionsRead /\ ReleasedIsRead /\ LogHasNoGap
    BY DEF Init, TxnOfHolder, PositionsRead, ReleasedIsRead, LogHasNoGap, NoTxn, ReadThrough
  <1>4. FilesRead
    BY StreamAssumption DEF Init, FilesRead, Absent
  <1>. QED BY <1>1, <1>2, <1>3, <1>4 DEF FencingInv

\* Every reachable state satisfies the inductive invariant.
THEOREM FencingInvariant == Spec => []FencingInv
  <1>1. FencingInv /\ [Next]_vars => FencingInv'
    BY FencingTypeStep, EpochsStep, TxnStep, PositionsStep, FilesStep, ReleasedStep, NoGapStep
    DEF FencingInv
  <1>. QED BY <1>1, FencingInit, PTL DEF Spec

\* At-least-once across a failover: what any bridge releases can be read.
THEOREM FailoverLosesNothing == Spec => []ReleasedIsRead
  BY FencingInvariant, PTL DEF FencingInv

\* A cursor file that can be parsed names a readable version, whoever wrote it.
THEOREM SharedCursorIsRead == Spec => []CursorIsRead
  <1>1. FencingInv => CursorIsRead
    BY DEF FencingInv, FilesRead, CursorIsRead
  <1>. QED BY <1>1, FencingInvariant, PTL

\* The transactions of all bridges together leave out no version.
THEOREM FailoverLeavesNoGap == Spec => []LogHasNoGap
  BY FencingInvariant, PTL DEF FencingInv

-----------------------------------------------------------------------------
(***************************************************************************)
(* The bridges together implement Delivery.                                *)
(***************************************************************************)
\* Nothing is ahead of the database.
WithinCommitted ==
  /\ minVersion <= committed + 1 /\ tmp <= committed /\ file <= committed
  /\ txn.hi <= committed
  /\ \A b \in Bridges : consumed[b] <= committed

\* The log ends where the transaction that has come furthest ends, and shows
\* everything up to there.
LogIsPrefix ==
  \E v \in 0..committed :
    /\ Visible = UpTo(v)
    /\ ReadThrough(Len(log), v)
    /\ \A i \in 1..Len(log) : log[i].hi <= v

\* A poll consumes what is committed; a cursor and the frontier come from there.
LEMMA WithinStep ==
  ASSUME FencingTypeOK, WithinCommitted, [Next]_vars
  PROVE  WithinCommitted'
  <1>0. MaxVersion \in Nat
    BY StreamAssumption
  <1>. USE <1>0 DEF FencingTypeOK, WithinCommitted, fdbVars, kafkaVars, fileVars, bridgeVars
  <1>1. CASE Workload
    BY <1>1 DEF Workload, Content, Absent, Empty, Corrupt, NoTxn, Transaction
  <1>2. CASE UNCHANGED vars
    BY <1>2 DEF vars
  <1>3. ASSUME NEW b \in Bridges, Load(b)
        PROVE  WithinCommitted'
    <2>1. /\ consumed' = [consumed EXCEPT ![b] = IF file = Absent THEN minVersion - 1 ELSE file]
          /\ UNCHANGED <<fdbVars, kafkaVars, fileVars>>
      BY <1>3 DEF Load, AtVersion
    <2>. QED BY <2>1
  <1>4. ASSUME NEW b \in Bridges, Poll(b)
        PROVE  WithinCommitted'
    <2>1. PICK hi \in (consumed[b] + 1)..committed : consumed' = [consumed EXCEPT ![b] = hi]
      BY <1>4 DEF Poll, AtVersion
    <2>2. hi <= committed
      BY <2>1
    <2>. QED BY <1>4, <2>1, <2>2 DEF Poll
  <1>5. ASSUME NEW b \in Bridges, Reconcile(b) \/ Ack(b)
        PROVE  WithinCommitted'
    BY <1>5 DEF Reconcile, Ack, Release
  <1>6. ASSUME NEW b \in Bridges, InitTransactions(b) \/ Produce(b) \/ Commit(b)
        PROVE  WithinCommitted'
    BY <1>6 DEF InitTransactions, Produce, Commit, NoTxn
  <1>7. ASSUME NEW b \in Bridges, CommitUnanswered(b)
        PROVE  WithinCommitted'
    <2>1. txn.hi = txn'.hi
      BY <1>7 DEF CommitUnanswered, NoTxn, Transaction
    <2>. QED BY <1>7, <2>1 DEF CommitUnanswered
  <1>8. ASSUME NEW b \in Bridges, OpenTmp(b) \/ WriteTmp(b) \/ Replace(b)
        PROVE  WithinCommitted'
    <2>1. /\ tmp' \in {tmp, Empty, Corrupt, Absent, consumed[b]}
          /\ file' \in {file, Empty, Corrupt, tmp, consumed[b]}
          /\ UNCHANGED <<fdbVars, kafkaVars, consumed>>
      BY <1>8 DEF OpenTmp, WriteTmp, Written, Replace
    <2>. QED BY <2>1 DEF Absent, Empty, Corrupt
  <1>9. ASSUME NEW b \in Bridges, PollTooOld(b) \/ Fenced(b) \/ ReplaceFails(b) \/ Crash(b)
        PROVE  WithinCommitted'
    BY <1>9 DEF PollTooOld, Fenced, ReplaceFails, Crash
  <1>. QED BY <1>1, <1>2, <1>3, <1>4, <1>5, <1>6, <1>7, <1>8, <1>9 DEF Next

\* A transaction that continues what was read makes the log longer at its end,
\* if at all.
LEMMA PrefixStep ==
  ASSUME FencingInv, WithinCommitted, LogIsPrefix, [Next]_vars
  PROVE  /\ LogIsPrefix' /\ Visible \subseteq Visible'
         /\ log' # log => UNCHANGED <<committed, minVersion, file>>
  <1>0. /\ FencingTypeOK /\ ReadThrough(Len(log), txn.lo) /\ txn.hi <= committed /\ MaxVersion \in Nat
        /\ committed \in Nat /\ Len(log) \in Nat
    BY StreamAssumption DEF FencingInv, TxnOfHolder, WithinCommitted, FencingTypeOK
  <1>1. PICK v \in 0..committed : /\ Visible = UpTo(v) /\ ReadThrough(Len(log), v)
                                  /\ \A i \in 1..Len(log) : log[i].hi <= v
    BY DEF LogIsPrefix
  <1>2. committed' \in {committed, committed + 1} /\ v \in 0..committed'
    BY <1>0, <1>1
    DEF Next, vars, fdbVars, Workload, Load, Reconcile, InitTransactions, Poll, PollTooOld,
        Produce,
       Commit, CommitUnanswered, Fenced, OpenTmp, WriteTmp, Replace, ReplaceFails, Ack, Crash
  <1>3. CASE log' = log
    BY <1>1, <1>2, <1>3 DEF LogIsPrefix, Visible, ReadThrough
  <1>4. CASE txn \in Transaction /\ log' = Append(log, txn)
    <2>1. /\ Len(log') = Len(log) + 1 /\ log'[Len(log) + 1] = txn
          /\ \A i \in 1..Len(log) : log'[i] = log[i]
      BY <1>0, <1>4 DEF FencingTypeOK
    <2>2. Visible' = Visible \cup (EndOf[txn.lo] + 1 .. EndOf[txn.hi])
      BY <1>0, <2>1 DEF Visible
    <2>3. /\ txn.lo \in 0..MaxVersion /\ txn.hi \in 0..MaxVersion /\ v \in 0..MaxVersion
          /\ \A i \in 1..Len(log) : log[i].hi \in 0..MaxVersion
      <3>1. v \in 0..MaxVersion
        BY <1>0, <1>1 DEF FencingTypeOK
      <3>2. \A i \in 1..Len(log) : log[i] \in Transaction
        BY <1>0 DEF FencingTypeOK
      <3>. QED BY <1>4, <3>1, <3>2 DEF Transaction
    <2>4. txn.lo <= v
      <3>1. CASE txn.lo = 0
        BY <1>1, <3>1
      <3>2. ASSUME NEW i \in 1..Len(log), txn.lo <= log[i].hi
            PROVE  txn.lo <= v
        BY <1>0, <1>1, <2>3, <3>2
      <3>. QED BY <1>0, <3>1, <3>2 DEF ReadThrough
    <2>5. /\ EndOf[txn.lo] \in Nat /\ EndOf[txn.hi] \in Nat /\ EndOf[v] \in Nat
          /\ EndOf[txn.lo] <= EndOf[v]
          /\ IF txn.hi <= v THEN EndOf[txn.hi] <= EndOf[v] ELSE EndOf[v] <= EndOf[txn.hi]
      BY <2>3, <2>4, StreamAssumption
    <2>6. PICK w \in {v, txn.hi} : w = IF txn.hi <= v THEN v ELSE txn.hi
      OBVIOUS
    <2>7. w \in 0..committed' /\ v <= w /\ txn.hi <= w
      BY <1>0, <1>2, <2>3, <2>6
    <2>8. Visible' = UpTo(w)
      BY <1>1, <2>2, <2>3, <2>5, <2>6 DEF UpTo
    <2>9. \A i \in 1..Len(log') : log'[i].hi <= w
      <3>1. ASSUME NEW i \in 1..Len(log)
            PROVE  log'[i].hi <= w
        BY <1>0, <1>1, <2>1, <2>3, <2>7
      <3>. QED BY <1>0, <2>1, <2>7, <3>1
    <2>10. ReadThrough(Len(log), w)'
      <3>1. CASE w = v
        BY <1>0, <1>1, <3>1, ReadStays
      <3>2. CASE w = txn.hi
        <4>1. Len(log) + 1 \in 1..Len(log') /\ w <= log'[Len(log) + 1].hi
          BY <1>0, <2>1, <2>3, <3>2
        <4>. QED BY <4>1 DEF ReadThrough
      <3>. QED BY <2>6, <3>1, <3>2
    <2>11. UNCHANGED <<committed, minVersion, file>>
      BY <1>0, <2>1
      DEF FencingTypeOK, Next, vars, kafkaVars, fdbVars, fileVars, Workload, Load, Reconcile,
       InitTransactions, Poll, PollTooOld, Produce, Commit, CommitUnanswered, Fenced, OpenTmp, WriteTmp, Replace,
       ReplaceFails, Ack, Crash
    <2>. QED BY <2>2, <2>7, <2>8, <2>9, <2>10, <2>11 DEF LogIsPrefix
  <1>. QED BY <1>0, <1>3, <1>4, LogStep

\* The files hold versions only where they can be read; the frontier moves to
\* where a bridge stands, which can be read.
LEMMA FencedPromiseStep ==
  ASSUME FencingInv, WithinCommitted, LogIsPrefix, FencingInv', WithinCommitted', LogIsPrefix', [Next]_vars
  PROVE  [Promise!DeliveryNext]_(Promise!deliveryVars)
  <1>0. /\ FencingTypeOK /\ FencingTypeOK' /\ MaxVersion \in Nat
        /\ committed \in Nat /\ minVersion \in Int
    BY StreamAssumption DEF FencingInv, FencingTypeOK
  <1>1. \A x \in 0..committed : ReadThrough(Len(log), x) => UpTo(x) \subseteq Visible
    <2>1. PICK v \in 0..committed : Visible = UpTo(v) /\ \A i \in 1..Len(log) : log[i].hi <= v
      BY DEF LogIsPrefix
    <2>2. \A i \in 1..Len(log) : log[i].hi \in Int
      <3>1. \A i \in 1..Len(log) : log[i] \in Transaction
        BY <1>0 DEF FencingTypeOK
      <3>. QED BY <1>0, <3>1 DEF Transaction
    <2>3. ASSUME NEW x \in 0..committed, ReadThrough(Len(log), x)
          PROVE  x <= v
      <3>1. CASE x = 0
        BY <3>1
      <3>2. ASSUME NEW i \in 1..Len(log), x <= log[i].hi
            PROVE  x <= v
        BY <1>0, <2>1, <2>2, <3>2
      <3>. QED BY <2>3, <3>1, <3>2 DEF ReadThrough
    <2>4. \A x \in 0..committed : x <= v => EndOf[x] \in Nat /\ EndOf[v] \in Nat /\ EndOf[x] <= EndOf[v]
      BY <1>0, StreamAssumption DEF FencingTypeOK
    <2>. QED BY <2>1, <2>3, <2>4 DEF UpTo
  <1>2. CASE log' # log
    <2>1. UNCHANGED <<committed, minVersion, file>> /\ Visible \subseteq Visible'
      BY <1>2, PrefixStep
    <2>2. \E n \in Promise!End : Visible' = 1..n
      BY <2>1 DEF LogIsPrefix, Promise!End, UpTo
    <2>. QED BY <2>1, <2>2 DEF Promise!DeliveryNext, Promise!Publish, Promise!Grow, Covered
  <1>3. CASE log' = log /\ minVersion' # minVersion
    <2>1. UNCHANGED <<committed, file>> /\ minVersion' > minVersion
      BY <1>0, <1>3
      DEF Next, vars, fdbVars, fileVars, Workload, Load, Reconcile, InitTransactions, Poll,
         PollTooOld, Produce, Commit, CommitUnanswered, Fenced, OpenTmp, WriteTmp, Replace, ReplaceFails, Ack,
         Crash, Release, FencingTypeOK
    <2>2. minVersion' - 1 \in (minVersion - 1) + 1..committed /\ minVersion' - 1 \in 0..committed
      <3>1. minVersion' <= committed' + 1
        BY DEF WithinCommitted
      <3>2. /\ minVersion' \in Int /\ minVersion \in Int /\ minVersion >= 1
            /\ minVersion' <= committed + 1 /\ committed \in Int
        BY <1>0, <2>1, <3>1 DEF FencingTypeOK
      <3>3. minVersion' > minVersion
        BY <2>1
      <3>4. \A x, y, z \in Int : y >= 1 /\ x > y /\ x <= z + 1
                                => x - 1 \in (y - 1) + 1 .. z /\ x - 1 \in 0..z
        OBVIOUS
      <3>. QED BY <3>2, <3>3, <3>4
    <2>3. ReadThrough(Len(log), minVersion' - 1)
      BY <1>3 DEF FencingInv, ReleasedIsRead, ReadThrough
    <2>. QED BY <1>1, <1>3, <2>1, <2>2, <2>3
             DEF Promise!DeliveryNext, Promise!Forget, Promise!UpTo, UpTo,
         Visible, Covered
  <1>4. CASE log' = log /\ file' # file
    <2>1. UNCHANGED <<committed, minVersion>>
      BY <1>4
      DEF Next, vars, fdbVars, fileVars, Workload, Load, Reconcile, InitTransactions, Poll,
          PollTooOld,
         Produce, Commit, CommitUnanswered, Fenced, OpenTmp, WriteTmp, Replace, ReplaceFails, Ack, Crash
    <2>2. Covered' \in 0..committed
      BY <1>0, <2>1 DEF Covered, WithinCommitted
    <2>3. ReadThrough(Len(log), Covered')
      <3>1. file' \in 0..MaxVersion => ReadThrough(Len(log), file')
        BY <1>4 DEF FencingInv, FilesRead, ReadThrough
      <3>. QED BY <3>1 DEF Covered, ReadThrough
    <2>. QED BY <1>1, <1>4, <2>1, <2>2, <2>3
             DEF Promise!DeliveryNext, Promise!Cover, Promise!UpTo, UpTo, Visible
  <1>5. CASE log' = log /\ UNCHANGED <<minVersion, file>> /\ committed' # committed
    <2>1. committed' = committed + 1
      BY <1>5
      DEF Next, vars, fdbVars, Workload, Load, Reconcile, InitTransactions, Poll, PollTooOld,
          Produce,
         Commit, CommitUnanswered, Fenced, OpenTmp, WriteTmp, Replace, ReplaceFails, Ack, Crash
    <2>. QED BY <1>5, <2>1 DEF Promise!DeliveryNext, Promise!Commit, Visible, Covered
  <1>6. CASE UNCHANGED <<log, minVersion, file, committed>>
    BY <1>6 DEF Promise!deliveryVars, Visible, Covered
  <1>. QED BY <1>2, <1>3, <1>4, <1>5, <1>6

\* Any number of bridges, each of which may be fenced at any point, together
\* implement ordered, gapless, at-least-once delivery by whole versions.
THEOREM FencedBridgesKeepPromise == Spec => FencedKeepsPromise
  <1>1. Init => WithinCommitted /\ LogIsPrefix /\ Promise!DeliveryInit
    <2>. SUFFICES ASSUME Init PROVE WithinCommitted /\ LogIsPrefix /\ Promise!DeliveryInit
      OBVIOUS
    <2>1. Visible = {} /\ Len(log) = 0 /\ UpTo(0) = {}
      BY StreamAssumption DEF Init, Visible, UpTo
    <2>2. WithinCommitted
      BY DEF Init, WithinCommitted, Absent, NoTxn
    <2>3. LogIsPrefix
      BY <2>1 DEF Init, LogIsPrefix, ReadThrough
    <2>4. Promise!DeliveryInit
      BY <2>1, StreamAssumption DEF Init, Promise!DeliveryInit, Covered, Absent
    <2>. QED BY <2>2, <2>3, <2>4
  <1>2. FencingInv /\ WithinCommitted /\ [Next]_vars => WithinCommitted'
    BY WithinStep DEF FencingInv
  <1>3. FencingInv /\ WithinCommitted /\ LogIsPrefix /\ [Next]_vars => LogIsPrefix'
    BY PrefixStep
  <1>4. FencingInv /\ WithinCommitted /\ LogIsPrefix /\ FencingInv' /\ WithinCommitted' /\ LogIsPrefix' /\ [Next]_vars
          => [Promise!DeliveryNext]_(Promise!deliveryVars)
    BY FencedPromiseStep
  <1>. QED BY <1>1, <1>2, <1>3, <1>4, FencingInvariant, PTL
           DEF Spec, FencedKeepsPromise, Promise!DeliverySpec
=============================================================================
