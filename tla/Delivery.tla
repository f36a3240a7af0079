------------------------------ MODULE Delivery ------------------------------
(***************************************************************************)
(* What the bridge promises, without producers, listeners or retries.      *)
(*                                                                         *)
(* A reader sees a log that only grows, in commit order and without gaps;  *)
(* a transactional bridge lets it grow by whole versions.  FoundationDB    *)
(* forgets a version, and a cursor covers one, only when the reader can    *)
(* see all of it.  A crash may take the cursor back, never the log or what *)
(* was released.                                                           *)
(***************************************************************************)
EXTENDS StreamData

CONSTANT WholeVersions   \* the log grows by whole versions

VARIABLES
  available,   \* versions committed to the database
  seen,        \* records a reader can see
  forgotten,   \* versions the database may have forgotten
  covered      \* version the cursor on disk stands for

deliveryVars == <<available, seen, forgotten, covered>>

DeliveryInit ==
  /\ available = 0
  /\ seen = {}
  /\ forgotten = 0
  /\ covered = 0

\* Where the log may end: after any record, or after a version.
End == IF WholeVersions THEN {EndOf[v] : v \in 0..available} ELSE 0..EndOf[available]

Commit ==
  /\ available' = available + 1
  /\ UNCHANGED <<seen, forgotten, covered>>

Grow ==
  /\ \E n \in End : seen' = 1..n
  /\ seen \subseteq seen'

Publish ==
  /\ Grow
  /\ UNCHANGED <<available, forgotten, covered>>

Forget ==
  /\ \E v \in forgotten + 1..available : UpTo(v) \subseteq seen /\ forgotten' = v
  /\ UNCHANGED <<available, seen, covered>>

Cover ==
  /\ \E v \in 0..available : UpTo(v) \subseteq seen /\ covered' = v
  /\ UNCHANGED <<available, seen, forgotten>>

\* The producer dies with its client: what it had in flight may still arrive.
Crash ==
  /\ Grow
  /\ covered' \in 0..covered
  /\ UNCHANGED <<available, forgotten>>

DeliveryNext == Commit \/ Publish \/ Forget \/ Cover \/ Crash

DeliverySpec == DeliveryInit /\ [][DeliveryNext]_deliveryVars
=============================================================================
