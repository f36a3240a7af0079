------------------------- MODULE FencingProperties -------------------------
(***************************************************************************)
(* What holds although several bridges work on one stream.                 *)
(***************************************************************************)
EXTENDS FencedBridges

\* After n transactions a read_committed reader has come as far as version v.
ReadThrough(n, v) == v = 0 \/ \E i \in 1..n : v <= log[i].hi

\* At-least-once across a failover: whichever bridge releases a version,
\* the frontier it moves is the others' too, and the version is readable.
ReleasedIsRead == ReadThrough(Len(log), minVersion - 1)

\* A cursor file that can be parsed names a version that is readable, in
\* whatever order the bridges truncate, write and rename the one temporary
\* file, and whichever was fenced meanwhile.
CursorIsRead == file \in 0..MaxVersion => ReadThrough(Len(log), file)

\* Transactions of the bridges may repeat versions; none starts beyond what the
\* ones before it have published, so a reader that drops what is at or below
\* its last VersionEnd sees every version once and in order.
LogHasNoGap == \A i \in 1..Len(log) : ReadThrough(i - 1, log[i].lo)

\* The records the transactions of all bridges have made visible.
Visible == UNION {EndOf[log[i].lo] + 1 .. EndOf[log[i].hi] : i \in 1..Len(log)}

\* The version the shared cursor file stands for; one that cannot be parsed
\* stands for none.
Covered == IF file \in 0..MaxVersion THEN file ELSE 0

Promise == INSTANCE Delivery
  WITH WholeVersions <- TRUE, available <- committed, seen <- Visible,
       forgotten <- minVersion - 1, covered <- Covered

\* The bridges together keep the promise of one: every step of any of them, of
\* the coordinator or of a crash lets the log grow in commit order by whole
\* versions, forgets or covers only what can be read, or takes back a cursor.
FencedKeepsPromise == Promise!DeliverySpec
=============================================================================
