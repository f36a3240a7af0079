------------------------------ MODULE KeyRange ------------------------------
(***************************************************************************)
(* The key range of a stream: strinc() and subspace_to_key_range(), the    *)
(* two ways a range reaches the listener (a subspace, or begin_key and     *)
(* end_key of the configuration), and the checks it passes before          *)
(* FoundationDB registers the stream.  A key is a sequence of bytes, the   *)
(* greatest of which is MaxByte (0xFF in the code).                        *)
(***************************************************************************)
EXTENDS Integers, Sequences, SequencesExt

CONSTANTS
  MaxByte,     \* the greatest byte
  MaxLength    \* length of the longest key; bounds the model

ASSUME KeyRangeAssumption == MaxByte \in Nat \ {0} /\ MaxLength \in Nat

Key == UNION {[1..n -> 0..MaxByte] : n \in 0..MaxLength}

VARIABLES
  phase,      \* "given", "accepted", "refused", "registered", "configured" or "written"
  subspace,   \* the prefix the user means
  begin, end, \* the range derived from it, or the configured one
  stream,     \* the range FoundationDB has registered: a set of at most one
  key         \* a key some client writes

vars == <<phase, subspace, begin, end, stream, key>>

\* Python's and FoundationDB's order of byte strings.
Less(a, b) ==
  \/ IsStrictPrefix(a, b)
  \/ \E i \in DOMAIN a \cap DOMAIN b : a[i] < b[i] /\ \A j \in 1..(i - 1) : a[j] = b[j]

\* key.rstrip(b"\xff")
Stripped(k) == SubSeq(k, 1, Max({0} \cup {n \in DOMAIN k : k[n] # MaxByte}))

\* strinc() raises ValueError.
HasNoSuccessor(k) == Stripped(k) = << >>

\* Mutant: the trailing bytes stay.
StrincInPlace(k) == [k EXCEPT ![Len(Stripped(k))] = @ + 1]

Strinc(k) == LET s == Stripped(k) IN [s EXCEPT ![Len(s)] = @ + 1]

Init ==
  /\ phase = "given"
  /\ subspace \in Key
  /\ begin = << >> /\ end = << >> /\ stream = {} /\ key = << >>

\* Mutant: a prefix that ends in MaxByte is refused.
UseSubspaceStrict ==
  /\ phase = "given"
  /\ IF subspace = << >> \/ Last(subspace) = MaxByte
       THEN phase' = "refused" /\ UNCHANGED <<begin, end>>
       ELSE phase' = "accepted" /\ begin' = subspace /\ end' = Strinc(subspace)
  /\ UNCHANGED <<subspace, stream, key>>

\* FDBMutationListener(subspace=...), or a caller that computes the range.
UseSubspace ==
  /\ phase = "given"
  /\ IF HasNoSuccessor(subspace)
       THEN phase' = "refused" /\ UNCHANGED <<begin, end>>
       ELSE phase' = "accepted" /\ begin' = subspace /\ end' = Strinc(subspace)
  /\ UNCHANGED <<subspace, stream, key>>

\* from_dict() goes over the computed range; both keys empty mean no range.
FromDict ==
  /\ phase = "accepted"
  /\ phase' = IF (begin = << >>) # (end = << >>) \/ (begin # << >> /\ ~Less(begin, end))
                THEN "refused" ELSE "configured"
  /\ UNCHANGED <<subspace, begin, end, stream, key>>

\* register_cdc_stream(), called by start() when there is a range.
Register ==
  /\ phase \in {"accepted", "configured"}
  /\ IF Less(begin, end) THEN phase' = "registered" /\ stream' = {<<begin, end>>}
                         ELSE phase' = "refused" /\ UNCHANGED stream
  /\ UNCHANGED <<subspace, begin, end, key>>

\* A client writes any key (external).
Write ==
  /\ phase = "registered"
  /\ phase' = "written"
  /\ key' \in Key
  /\ UNCHANGED <<subspace, begin, end, stream>>

\* FoundationDB captures the mutations of begin <= key < end (external).
Captured == \E r \in stream : ~Less(key, r[1]) /\ Less(key, r[2])

Next == UseSubspace \/ FromDict \/ Register \/ Write

Spec == Init /\ [][Next]_vars

-----------------------------------------------------------------------------
\* The stream carries the mutations of every key of the subspace and of no
\* other one, however many 0xFF bytes its prefix ends in.
CoversSubspace == phase = "written" => (Captured <=> IsPrefix(subspace, key))

\* A subspace is refused, by whichever check, only when no key is greater than
\* all of its keys, so that no range could cover it.
RefusesOnlyUnbounded ==
  phase = "refused" =>
    \A e \in Key : \E k \in Key : IsPrefix(subspace, k) /\ ~Less(k, e)
=============================================================================
