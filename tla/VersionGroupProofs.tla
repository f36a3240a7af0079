------------------------- MODULE VersionGroupProofs -------------------------
(***************************************************************************)
(* The slicing of a version group, for every group, limit and envelope:    *)
(* the sizes, the invariant of the loop (GroupInv), and the reasons for    *)
(* its result (ResultInv).                                                 *)
(***************************************************************************)
EXTENDS VersionGroup, TLAPS, SequenceTheorems, WellFoundedInduction

(***************************************************************************)
(* Sizes.                                                                  *)
(***************************************************************************)
\* A non-empty set of natural numbers has a least element.
LEMMA LeastElement ==
  ASSUME NEW S \in SUBSET Nat, S # {}
  PROVE  \E m \in S : \A n \in S : m <= n
<1> DEFINE R == OpToRel(<, Nat)
<1>1. IsWellFoundedOn(R, Nat)
  BY NatLessThanWellFounded
<1>2. \A x, y \in Nat : y < x => <<y, x>> \in R
  BY DEF OpToRel
<1> HIDE DEF R
<1>3. PICK m \in S : \A y \in S : ~(<<y, m>> \in R)
  BY <1>1, WFMin, Zenon
<1>4. ASSUME NEW n \in S PROVE m <= n
  <2>1. m \in Nat /\ n \in Nat /\ ~(n < m)
    BY <1>2, <1>3
  <2> QED
    BY <2>1
<1> QED
  BY <1>3, <1>4

\* BitLength is given by a recursion, so that there is such a function has to be
\* shown.  g counts the bits of the numbers up to n.
CountsBits(g, n) ==
  /\ g \in [0..n -> Nat]
  /\ \A i \in 0..n : g[i] = IF i = 0 THEN 0 ELSE 1 + g[i \div 2]

\* There is such a count, because half of a number is smaller.
LEMMA CountsExist == \A n \in Nat : \E g : CountsBits(g, n)
<1> DEFINE S == {n \in Nat : ~ \E g : CountsBits(g, n)}
<1> SUFFICES ASSUME S # {} PROVE FALSE
  OBVIOUS
<1>1. PICK m \in S : \A n \in S : m <= n
  BY LeastElement
<1>2. CASE m = 0
  <2> DEFINE g == [i \in 0..0 |-> 0]
  <2>1. CountsBits(g, 0)
    BY DEF CountsBits
  <2> QED
    BY <1>1, <1>2, <2>1
<1>3. CASE m # 0
  <2>1. m - 1 \in Nat /\ m - 1 \notin S
    BY <1>1, <1>3
  <2>2. PICK h : CountsBits(h, m - 1)
    BY <2>1
  <2> DEFINE g == [i \in 0..m |-> IF i < m THEN h[i] ELSE 1 + h[m \div 2]]
  <2>3. \A i \in 0..m - 1 : h[i] \in Nat /\ h[i] = IF i = 0 THEN 0 ELSE 1 + h[i \div 2]
    BY <2>2 DEF CountsBits
  <2>4. m \div 2 \in 0..m - 1
    BY <1>1, <1>3
  <2>5. g \in [0..m -> Nat]
    BY <2>3, <2>4, <1>1
  <2>6. ASSUME NEW i \in 0..m PROVE g[i] = IF i = 0 THEN 0 ELSE 1 + g[i \div 2]
    <3>1. i # 0 => i \div 2 \in 0..m /\ i \div 2 < i /\ i \div 2 < m
      BY <1>1, <1>3
    <3> QED
      BY <3>1, <2>3, <1>1, <1>3
  <2>7. CountsBits(g, m)
    BY <2>5, <2>6 DEF CountsBits
  <2> QED
    BY <1>1, <2>7
<1> QED
  BY <1>2, <1>3

\* Two counts agree where both are defined.
LEMMA CountsAgree ==
  ASSUME NEW m \in Nat, NEW n \in Nat, NEW g, NEW h, CountsBits(g, m), CountsBits(h, n)
  PROVE  \A i \in 0..m : i <= n => g[i] = h[i]
<1> DEFINE S == {i \in Nat : i <= m /\ i <= n /\ g[i] # h[i]}
<1> SUFFICES ASSUME S # {} PROVE FALSE
  OBVIOUS
<1>1. PICK i \in S : \A j \in S : i <= j
  BY LeastElement
<1>2. i \in 0..m /\ i \in 0..n /\ g[i] # h[i]
  BY <1>1
<1>3. i # 0
  BY <1>2 DEF CountsBits
<1>4. i \div 2 \in Nat /\ i \div 2 < i /\ i \div 2 \notin S
  BY <1>1, <1>2, <1>3
<1>5. g[i \div 2] = h[i \div 2]
  BY <1>2, <1>4
<1>6. g[i] = 1 + g[i \div 2] /\ h[i] = 1 + h[i \div 2]
  BY <1>2, <1>3 DEF CountsBits
<1> QED
  BY <1>2, <1>5, <1>6

\* int.bit_length() is what its definition says.
LEMMA BitLengthIs ==
  \A n \in Nat : BitLength[n] \in Nat /\ BitLength[n] = IF n = 0 THEN 0 ELSE 1 + BitLength[n \div 2]
<1> DEFINE G(n) == CHOOSE g : CountsBits(g, n)
           f == [n \in Nat |-> G(n)[n]]
<1>1. \A n \in Nat : CountsBits(G(n), n)
  BY CountsExist
<1> HIDE DEF G
<1>2. \A n \in Nat : f[n] \in Nat
  BY <1>1 DEF CountsBits
<1>3. ASSUME NEW n \in Nat PROVE f[n] = IF n = 0 THEN 0 ELSE 1 + f[n \div 2]
  <2>1. n \in 0..n /\ n \div 2 \in 0..n /\ n \div 2 \in Nat
    OBVIOUS
  <2>2. G(n)[n] = IF n = 0 THEN 0 ELSE 1 + G(n)[n \div 2]
    BY <1>1, <2>1 DEF CountsBits
  <2>3. G(n)[n \div 2] = G(n \div 2)[n \div 2]
    BY <1>1, <2>1, CountsAgree
  <2> QED
    BY <2>1, <2>2, <2>3
<1>4. f = [n \in Nat |-> IF n = 0 THEN 0 ELSE 1 + f[n \div 2]]
  BY <1>3
<1> HIDE DEF f
<1>5. \E h : h = [n \in Nat |-> IF n = 0 THEN 0 ELSE 1 + h[n \div 2]]
  BY <1>4
<1>6. BitLength = [n \in Nat |-> IF n = 0 THEN 0 ELSE 1 + BitLength[n \div 2]]
  BY <1>5 DEF BitLength
<1>7. \A n \in Nat : BitLength[n] = IF n = 0 THEN 0 ELSE 1 + BitLength[n \div 2]
  BY <1>6
<1>8. \A n \in Nat : BitLength[n] \in Nat
  <2> DEFINE S == {n \in Nat : BitLength[n] \notin Nat}
  <2> SUFFICES ASSUME S # {} PROVE FALSE
    OBVIOUS
  <2>1. PICK n \in S : \A k \in S : n <= k
    BY LeastElement
  <2>2. n # 0
    BY <1>7, <2>1
  <2>3. n \div 2 \in Nat /\ n \div 2 \notin S
    BY <2>1, <2>2
  <2> QED
    BY <1>7, <2>1, <2>2, <2>3
<1> QED
  BY <1>7, <1>8

\* The bits of a number are those of its seven lowest places and of the rest.
LEMMA BitLengthBySeven ==
  /\ \A n \in 1..127 : BitLength[n] \in 1..7
  /\ \A n \in Nat : n >= 128 => BitLength[n] = 7 + BitLength[n \div 128]
<1>1. ASSUME NEW n \in Nat
      PROVE  /\ n \div 2 \in Nat /\ (n \div 2) \div 2 = n \div 4
             /\ (n \div 4) \div 2 = n \div 8 /\ (n \div 8) \div 2 = n \div 16
             /\ (n \div 16) \div 2 = n \div 32 /\ (n \div 32) \div 2 = n \div 64
             /\ (n \div 64) \div 2 = n \div 128
  OBVIOUS
<1>2. ASSUME NEW n \in Nat
      PROVE  /\ n \in 1..127 => BitLength[n] \in 1..7
             /\ n >= 128 => BitLength[n] = 7 + BitLength[n \div 128]
  <2>1. /\ n \div 2 \in Nat /\ n \div 4 \in Nat /\ n \div 8 \in Nat /\ n \div 16 \in Nat
        /\ n \div 32 \in Nat /\ n \div 64 \in Nat /\ n \div 128 \in Nat
    OBVIOUS
  <2>2. /\ n \div 2 = 0 <=> n < 2
        /\ n \div 4 = 0 <=> n < 4
        /\ n \div 8 = 0 <=> n < 8
        /\ n \div 16 = 0 <=> n < 16
        /\ n \div 32 = 0 <=> n < 32
        /\ n \div 64 = 0 <=> n < 64
        /\ n \div 128 = 0 <=> n < 128
    OBVIOUS
  <2> DEFINE b(k) == BitLength[n \div k]
  <2>3. /\ BitLength[n] = IF n = 0 THEN 0 ELSE 1 + b(2)
        /\ b(2) = IF n < 2 THEN 0 ELSE 1 + b(4)
        /\ b(4) = IF n < 4 THEN 0 ELSE 1 + b(8)
        /\ b(8) = IF n < 8 THEN 0 ELSE 1 + b(16)
        /\ b(16) = IF n < 16 THEN 0 ELSE 1 + b(32)
        /\ b(32) = IF n < 32 THEN 0 ELSE 1 + b(64)
        /\ b(64) = IF n < 64 THEN 0 ELSE 1 + b(128)
        /\ b(128) \in Nat
        /\ n < 128 => b(128) = 0
    <3>1. BitLength[n] = IF n = 0 THEN 0 ELSE 1 + b(2)
      BY BitLengthIs
    <3>2. b(2) = IF n < 2 THEN 0 ELSE 1 + b(4)
      BY <1>1, <2>1, <2>2, BitLengthIs
    <3>3. b(4) = IF n < 4 THEN 0 ELSE 1 + b(8)
      BY <1>1, <2>1, <2>2, BitLengthIs
    <3>4. b(8) = IF n < 8 THEN 0 ELSE 1 + b(16)
      BY <1>1, <2>1, <2>2, BitLengthIs
    <3>5. b(16) = IF n < 16 THEN 0 ELSE 1 + b(32)
      BY <1>1, <2>1, <2>2, BitLengthIs
    <3>6. b(32) = IF n < 32 THEN 0 ELSE 1 + b(64)
      BY <1>1, <2>1, <2>2, BitLengthIs
    <3>7. b(64) = IF n < 64 THEN 0 ELSE 1 + b(128)
      BY <1>1, <2>1, <2>2, BitLengthIs
    <3>8. b(128) \in Nat /\ (n < 128 => b(128) = 0)
      <4>1. 0 \in Nat
        OBVIOUS
      <4> QED
        BY <2>1, <2>2, <4>1, BitLengthIs
    <3> QED
      BY <3>1, <3>2, <3>3, <3>4, <3>5, <3>6, <3>7, <3>8
  <2>4. n >= 128 => BitLength[n] = 7 + b(128)
    <3> HIDE DEF b
    <3> QED
      BY <2>3
  <2>5. n \in 1..127 => BitLength[n] \in 1..7
    <3> HIDE DEF b
    <3> QED
      BY <2>3
  <2> QED
    BY <2>4, <2>5
<1> QED
  BY <1>2

\* _varint_bytes: one byte, and one more for every seven bits.
LEMMA VarintBytesIs ==
  \A n \in Nat : /\ VarintBytes(n) \in Nat \ {0}
                 /\ VarintBytes(n) = IF n < 128 THEN 1 ELSE 1 + VarintBytes(n \div 128)
<1> TAKE n \in Nat
<1>1. BitLength[n] \in Nat /\ (n # 0 => BitLength[n] >= 1)
  <2>1. n \div 2 \in Nat
    OBVIOUS
  <2> QED
    BY <2>1, BitLengthIs
<1>2. CASE n < 128
  <2>1. n # 0 => BitLength[n] \in 1..7
    BY <1>2, BitLengthBySeven
  <2> QED
    BY <1>2, <2>1 DEF VarintBytes
<1>3. CASE n >= 128
  <2>1. n \div 128 \in Nat \ {0} /\ BitLength[n] = 7 + BitLength[n \div 128]
    BY <1>3, BitLengthBySeven
  <2>2. BitLength[n \div 128] \in Nat /\ BitLength[n \div 128] >= 1
    <3>1. (n \div 128) \div 2 \in Nat
      BY <2>1
    <3> QED
      BY <2>1, <3>1, BitLengthIs
  <2> QED
    BY <1>3, <2>1, <2>2 DEF VarintBytes
<1> QED
  BY <1>2, <1>3

\* A longer message has no shorter length prefix.
LEMMA VarintBytesGrow ==
  \A m, n \in Nat : m <= n => VarintBytes(m) <= VarintBytes(n)
<1> DEFINE S == {m \in Nat : \E n \in Nat : m <= n /\ ~(VarintBytes(m) <= VarintBytes(n))}
<1> SUFFICES ASSUME S # {} PROVE FALSE
  OBVIOUS
<1>1. PICK m \in S : \A k \in S : m <= k
  BY LeastElement
<1>2. PICK n \in Nat : m <= n /\ ~(VarintBytes(m) <= VarintBytes(n))
  BY <1>1
<1>3. m \in Nat /\ VarintBytes(m) \in Nat \ {0} /\ VarintBytes(n) \in Nat \ {0}
  BY VarintBytesIs
<1>4. m >= 128 /\ n >= 128
  BY <1>2, <1>3, VarintBytesIs
<1>5. /\ m \div 128 \in Nat /\ m \div 128 < m /\ n \div 128 \in Nat
      /\ m \div 128 <= n \div 128
  BY <1>2, <1>4
<1>6. VarintBytes(m \div 128) <= VarintBytes(n \div 128)
  BY <1>1, <1>5
<1>7. /\ VarintBytes(m) = 1 + VarintBytes(m \div 128) /\ VarintBytes(n) = 1 + VarintBytes(n \div 128)
      /\ VarintBytes(m \div 128) \in Nat /\ VarintBytes(n \div 128) \in Nat
  BY <1>3, <1>4, <1>5, VarintBytesIs
<1> QED
  BY <1>2, <1>6, <1>7

\* _framed_bytes adds at least its tag byte, and more to more.
LEMMA FramedPositive ==
  \A n \in Nat : Framed(n) \in Nat /\ Framed(n) > n
<1> TAKE n \in Nat
<1>1. VarintBytes(n) \in Nat
  BY VarintBytesIs
<1> QED
  BY <1>1 DEF Framed

LEMMA FramedGrows ==
  \A m, n \in Nat : m <= n => Framed(m) <= Framed(n)
  BY VarintBytesGrow, VarintBytesIs DEF Framed

-----------------------------------------------------------------------------
(***************************************************************************)
(* The slicing.                                                            *)
(***************************************************************************)
\* Before the loop nothing is sliced.
LEMMA GroupInitInv == GroupInit => GroupInv
<1> SUFFICES ASSUME GroupInit PROVE GroupInv
  OBVIOUS
<1> USE DEF GroupInit
<1>1. GroupTypeOK
  BY DEF GroupTypeOK
<1>2. OffsetOK
  BY DEF OffsetOK
<1>3. OpenSliceOK
  BY DEF OpenSliceOK
<1>4. SlicesCover
  BY DEF SlicesCover
<1>5. SlicesFit
  BY DEF SlicesFit
<1> QED
  BY <1>1, <1>2, <1>3, <1>4, <1>5 DEF GroupInv

\* The loop's counters, and the history at every position passed.
LEMMA LoopTypes ==
  GroupInv =>
    /\ Len(natives) \in Nat /\ position \in Nat /\ start \in Nat /\ batchBytes \in Nat
    /\ limit \in Nat /\ envelope \in Nat
    /\ start <= position /\ position <= Len(natives)
    /\ \A i \in 1..position + 1 : offset[i] \in Nat
<1> SUFFICES ASSUME GroupTypeOK
             PROVE  /\ Len(natives) \in Nat /\ position \in Nat /\ start \in Nat /\ batchBytes \in Nat
                    /\ limit \in Nat /\ envelope \in Nat
                    /\ start <= position /\ position <= Len(natives)
                    /\ \A i \in 1..position + 1 : offset[i] \in Nat
  BY DEF GroupInv
<1>1. Len(natives) \in Nat
  <2>1. natives \in Seq(Payload \cup {Malformed})
    BY DEF GroupTypeOK
  <2> QED
    BY <2>1, LenProperties
<1>2. /\ position \in 0..Len(natives) /\ start \in 0..position /\ batchBytes \in Nat
      /\ limit \in Nat /\ envelope \in Nat
  BY DEF GroupTypeOK
<1>3. \A i \in 1..position + 1 : offset[i] \in Nat
  <2>1. offset \in Seq(Nat) /\ Len(offset) = position + 1
    BY DEF GroupTypeOK
  <2> QED
    BY <2>1, ElementOfSeq
<1> QED
  BY <1>1, <1>2, <1>3

\* Inside the loop the next mutation is a well-formed one of the group.
LEMMA NextIsFramed ==
  GroupInv /\ Looping => /\ natives[position + 1] \in Nat
                         /\ FramedNext \in Nat
                         /\ FramedNext > 0
<1> SUFFICES ASSUME GroupInv, Looping
             PROVE  /\ natives[position + 1] \in Nat
                    /\ FramedNext \in Nat
                    /\ FramedNext > 0
  OBVIOUS
<1>1. position + 1 \in 1..Len(natives)
  BY DEF GroupInv, GroupTypeOK, Looping
<1>2. natives[position + 1] # Malformed
  BY <1>1 DEF GroupInv, OffsetOK, Looping
<1>3. natives[position + 1] \in Payload \cup {Malformed}
  <2>1. natives \in Seq(Payload \cup {Malformed})
    BY DEF GroupInv, GroupTypeOK
  <2> QED
    BY <1>1, <2>1
<1>4. natives[position + 1] \in Nat
  BY <1>2, <1>3, VersionGroupAssumption
<1> QED
  BY <1>4, FramedPositive DEF FramedNext

\* Passing a mutation keeps the history of framed bytes.
LEMMA PassKeepsOffset ==
  ASSUME GroupInv, Looping, PassMutation, UNCHANGED natives, UNCHANGED phase
  PROVE  /\ position' \in 0..Len(natives)
         /\ offset' \in Seq(Nat)
         /\ Len(offset') = position' + 1
         /\ \A i \in 1..position + 1 : offset'[i] = offset[i]
         /\ offset'[position + 2] = offset[position + 1] + FramedNext
         /\ OffsetOK'
<1> USE DEF GroupInv, GroupTypeOK, PassMutation, Looping
<1>1. FramedNext \in Nat
  BY NextIsFramed
<1>2. offset[position + 1] \in Nat
  OBVIOUS
<1>3. /\ offset' \in Seq(Nat)
      /\ Len(offset') = position + 2
  BY <1>1, <1>2
<1>4. \A i \in 1..position + 1 : offset'[i] = offset[i]
  BY <1>1, <1>2
<1>5. offset'[position + 2] = offset[position + 1] + FramedNext
  BY <1>1, <1>2
<1>6. \A i \in 1..position' : offset'[i + 1] = offset'[i] + Framed(natives[i])
  <2> TAKE i \in 1..position'
  <2>1. CASE i = position + 1
    BY <2>1, <1>4, <1>5 DEF FramedNext
  <2>2. CASE i \in 1..position
    <3>1. offset[i + 1] = offset[i] + Framed(natives[i])
      BY <2>2 DEF OffsetOK
    <3>2. i \in 1..position + 1 /\ i + 1 \in 1..position + 1
      BY <2>2
    <3> QED
      BY <3>1, <3>2, <1>4
  <2> QED
    BY <2>1, <2>2
<1>7. offset'[1] = 0
  BY <1>4 DEF OffsetOK
<1>8. OffsetOK'
  BY <1>6, <1>7 DEF OffsetOK
<1> QED
  BY <1>3, <1>4, <1>5, <1>8

\* Every closed slice lies inside the mutations passed.
LEMMA SliceBounds ==
  ASSUME GroupInv, NEW k \in 1..Len(slices)
  PROVE  /\ slices[k][1] \in 0..position
         /\ slices[k][2] \in 0..position
<1>1. slices \in Seq(Nat \X Nat)
  BY DEF GroupInv, GroupTypeOK
<1>2. slices[k] \in Nat \X Nat
  BY <1>1
<1>3. slices[k][1] \in Nat /\ slices[k][2] \in Nat
  BY <1>2
<1>4. slices[k][1] < slices[k][2] /\ slices[k][2] <= start
  BY DEF GroupInv, SlicesCover
<1> QED
  BY <1>3, <1>4, LoopTypes

\* The slices closed keep their size when a mutation is passed.
LEMMA PassKeepsFit ==
  ASSUME GroupInv, Looping, PassMutation, UNCHANGED callVars, UNCHANGED phase,
         NEW a \in 0..position, NEW b \in 0..position
  PROVE  SliceBytes(a, b)' = SliceBytes(a, b)
<1>0. UNCHANGED natives
  BY DEF callVars
<1>1. \A i \in 1..position + 1 : offset'[i] = offset[i]
  BY <1>0, PassKeepsOffset, Zenon
<1>2. position \in Nat
  BY LoopTypes
<1>3. a + 1 \in 1..position + 1 /\ b + 1 \in 1..position + 1
  BY <1>2
<1>4. offset'[a + 1] = offset[a + 1] /\ offset'[b + 1] = offset[b + 1]
  BY <1>1, <1>3
<1>5. envelope' = envelope
  BY DEF callVars
<1> QED
  BY <1>4, <1>5 DEF SliceBytes, RecordBytes

\* A mutation that joins the open slice leaves the closed ones and is accounted for.
LEMMA JoinSliceInv == GroupInv /\ JoinSlice => GroupInv'
<1> SUFFICES ASSUME GroupInv, JoinSlice PROVE GroupInv'
  OBVIOUS
<1>0. /\ natives' = natives /\ limit' = limit /\ envelope' = envelope
      /\ slices' = slices /\ start' = start /\ phase' = phase
      /\ position' = position + 1
      /\ batchBytes' = batchBytes + FramedNext
      /\ Looping /\ PassMutation
  BY DEF JoinSlice, callVars, PassMutation
<1>1. FramedNext \in Nat /\ FramedNext > 0
  BY <1>0, NextIsFramed
<1>2. /\ position' \in 0..Len(natives)
      /\ offset' \in Seq(Nat)
      /\ Len(offset') = position' + 1
      /\ \A i \in 1..position + 1 : offset'[i] = offset[i]
      /\ offset'[position + 2] = offset[position + 1] + FramedNext
      /\ OffsetOK'
  BY <1>0, PassKeepsOffset, Zenon
<1>3. batchBytes > 0 /\ Grown <= limit
  <2>1. batchBytes + FramedNext \in Nat
    BY <1>1, LoopTypes
  <2>2. Framed(batchBytes + FramedNext) \in Nat
    BY <2>1, FramedPositive
  <2>3. Grown \in Nat
    BY <2>2, LoopTypes DEF Grown, RecordBytes
  <2> QED
    BY <2>3, LoopTypes DEF JoinSlice, StartsSlice
<1>5. GroupTypeOK'
  <2>1. start' \in 0..position' /\ batchBytes' \in Nat
    BY <1>0, <1>1, LoopTypes
  <2>2. /\ natives' \in Seq(Payload \cup {Malformed})
        /\ limit' \in Nat \ {0}
        /\ envelope' \in Nat
        /\ slices' \in Seq(Nat \X Nat)
        /\ phase' \in {"idle", "checking", "slicing", "returned", "malformed", "too large"}
    BY <1>0 DEF GroupInv, GroupTypeOK
  <2> QED
    BY <1>0, <1>2, <2>1, <2>2 DEF GroupTypeOK
<1>8. OpenSliceOK'
  <2>1. offset'[start + 1] = offset[start + 1]
    <3>1. start + 1 \in 1..position + 1
      BY LoopTypes
    <3> QED
      BY <1>2, <3>1
  <2>2. offset[position + 1] \in Nat /\ offset[start + 1] \in Nat
    BY LoopTypes
  <2>3. batchBytes' = offset'[position' + 1] - offset'[start' + 1]
    <3>1. batchBytes = offset[position + 1] - offset[start + 1]
      BY DEF GroupInv, OpenSliceOK
    <3>2. offset'[position' + 1] = offset[position + 1] + FramedNext
      <4>1. position' + 1 = position + 2
        BY <1>0, LoopTypes
      <4> QED
        BY <1>2, <4>1
    <3> QED
      BY <1>0, <1>1, <2>1, <2>2, <3>1, <3>2
  <2>4. batchBytes' # 0 /\ start' # position'
    BY <1>0, <1>1, <1>3, LoopTypes
  <2>5. RecordBytes(batchBytes)' <= limit'
    BY <1>0, <1>3 DEF Grown, RecordBytes
  <2> QED
    BY <2>3, <2>4, <2>5 DEF OpenSliceOK
<1>6. SlicesCover'
  BY <1>0 DEF GroupInv, SlicesCover
<1>7. SlicesFit'
  <2> SUFFICES ASSUME NEW k \in 1..Len(slices)
               PROVE  SliceBytes(slices[k][1], slices[k][2])' <= limit
    BY <1>0 DEF SlicesFit
  <2>1. SliceBytes(slices[k][1], slices[k][2])' = SliceBytes(slices[k][1], slices[k][2])
    BY <1>0, SliceBounds, PassKeepsFit DEF callVars
  <2> QED
    BY <2>1 DEF GroupInv, SlicesFit
<1> QED
  BY <1>2, <1>5, <1>6, <1>7, <1>8 DEF GroupInv

\* Closing the open slice, of the mutations start .. position - 1: the slices
\* then cover every mutation passed, and each fits.
LEMMA CloseCovers ==
  ASSUME GroupInv, CloseOpenSlice, start' = position,
         UNCHANGED callVars, \A i \in 1..position + 1 : offset'[i] = offset[i]
  PROVE  /\ slices' \in Seq(Nat \X Nat)
         /\ SlicesCover'
         /\ SlicesFit'
<1> DEFINE NewBytes(a, b) == envelope' + Framed(offset'[b + 1] - offset'[a + 1])
<1>0. envelope' = envelope /\ limit' = limit
  BY DEF callVars
<1>1. slices \in Seq(Nat \X Nat) /\ Len(slices) \in Nat
  <2>1. slices \in Seq(Nat \X Nat)
    BY DEF GroupInv, GroupTypeOK
  <2> QED
    BY <2>1, LenProperties
<1>2. \A a, b \in 0..position : NewBytes(a, b) = SliceBytes(a, b)
  <2> TAKE a, b \in 0..position
  <2>1. a + 1 \in 1..position + 1 /\ b + 1 \in 1..position + 1
    BY LoopTypes
  <2>2. offset'[a + 1] = offset[a + 1] /\ offset'[b + 1] = offset[b + 1]
    BY <2>1
  <2> QED
    BY <1>0, <2>2 DEF SliceBytes, RecordBytes
<1>4. CASE batchBytes = 0
  <2>1. slices' = slices /\ start = position
    BY <1>4 DEF CloseOpenSlice, GroupInv, OpenSliceOK
  <2>2. SlicesCover'
    BY <2>1 DEF GroupInv, SlicesCover
  <2>3. SlicesFit'
    <3> SUFFICES ASSUME NEW k \in 1..Len(slices)
                 PROVE  NewBytes(slices'[k][1], slices'[k][2]) <= limit'
      BY <2>1 DEF SlicesFit, SliceBytes, RecordBytes
    <3>1. SliceBytes(slices[k][1], slices[k][2]) <= limit
      BY DEF GroupInv, SlicesFit
    <3> QED
      BY <3>1, <1>0, <1>2, <2>1, SliceBounds
  <2> QED
    BY <1>1, <2>1, <2>2, <2>3
<1>5. CASE batchBytes # 0
  <2>1. slices' = Append(slices, <<start, position>>) /\ start < position
    BY <1>5, LoopTypes DEF CloseOpenSlice, GroupInv, OpenSliceOK
  <2>2. <<start, position>> \in Nat \X Nat
    BY LoopTypes
  <2>3. /\ slices' \in Seq(Nat \X Nat)
        /\ Len(slices') = Len(slices) + 1
        /\ \A k \in 1..Len(slices) : slices'[k] = slices[k]
        /\ slices'[Len(slices) + 1] = <<start, position>>
    BY <1>1, <2>1, <2>2, AppendProperties
  <2>4. SlicesCover'
    <3>1. ASSUME NEW k \in 1..Len(slices')
          PROVE  /\ slices'[k][1] = IF k = 1 THEN 0 ELSE slices'[k - 1][2]
                 /\ slices'[k][1] < slices'[k][2]
                 /\ slices'[k][2] <= start'
      <4>1. CASE k \in 1..Len(slices)
        <5>1. slices'[k] = slices[k] /\ (k # 1 => slices'[k - 1] = slices[k - 1])
          <6>1. k # 1 => k - 1 \in 1..Len(slices)
            BY <1>1, <4>1
          <6> QED
            BY <2>3, <4>1, <6>1
        <5>2. /\ slices[k][1] = IF k = 1 THEN 0 ELSE slices[k - 1][2]
              /\ slices[k][1] < slices[k][2]
              /\ slices[k][2] <= start
          BY <4>1 DEF GroupInv, SlicesCover
        <5>3. slices[k][2] \in 0..position
          BY <4>1, SliceBounds
        <5> QED
          BY <5>1, <5>2, <5>3, <2>1, LoopTypes
      <4>2. CASE k = Len(slices) + 1
        <5>1. slices'[k][1] = start /\ slices'[k][2] = position
          BY <2>3, <4>2
        <5>2. start = IF slices = <<>> THEN 0 ELSE slices[Len(slices)][2]
          BY DEF GroupInv, SlicesCover
        <5>3. slices = <<>> <=> k = 1
          BY <1>1, <4>2, EmptySeq
        <5>4. k # 1 => slices'[k - 1] = slices[Len(slices)]
          <6>1. k - 1 = Len(slices) /\ (k # 1 => k - 1 \in 1..Len(slices))
            BY <1>1, <4>2
          <6> QED
            BY <2>3, <6>1
        <5> QED
          BY <5>1, <5>2, <5>3, <5>4, <2>1, LoopTypes
      <4> QED
        BY <1>1, <2>3, <4>1, <4>2
    <3>2. slices' # <<>>
      BY <1>1, <2>3
    <3>3. start' = slices'[Len(slices')][2]
      BY <2>3
    <3> QED
      BY <3>1, <3>2, <3>3 DEF SlicesCover
  <2>5. SlicesFit'
    <3> SUFFICES ASSUME NEW k \in 1..Len(slices')
                 PROVE  NewBytes(slices'[k][1], slices'[k][2]) <= limit'
      BY DEF SlicesFit, SliceBytes, RecordBytes
    <3>1. CASE k \in 1..Len(slices)
      <4>1. SliceBytes(slices[k][1], slices[k][2]) <= limit
        BY <3>1 DEF GroupInv, SlicesFit
      <4>2. slices[k][1] \in 0..position /\ slices[k][2] \in 0..position
        BY <3>1, SliceBounds
      <4> QED
        BY <4>1, <4>2, <3>1, <1>0, <1>2, <2>3
    <3>2. CASE k = Len(slices) + 1
      <4>1. slices'[k][1] = start /\ slices'[k][2] = position
        BY <2>3, <3>2
      <4>2. SliceBytes(start, position) <= limit
        BY <1>5, LoopTypes DEF GroupInv, OpenSliceOK, SliceBytes
      <4>3. NewBytes(start, position) <= limit'
        BY <4>2, <1>0, <1>2, LoopTypes
      <4> QED
        BY <4>1, <4>3
    <3> QED
      BY <1>1, <2>3, <3>1, <3>2
  <2> QED
    BY <2>3, <2>4, <2>5
<1> QED
  BY <1>4, <1>5

\* A mutation that does not fit closes the open slice where it begins itself.
LEMMA OpenSliceInv == GroupInv /\ OpenSlice => GroupInv'
<1> SUFFICES ASSUME GroupInv, OpenSlice PROVE GroupInv'
  OBVIOUS
<1>0. /\ natives' = natives /\ limit' = limit /\ envelope' = envelope
      /\ phase' = phase
      /\ start' = position
      /\ position' = position + 1
      /\ batchBytes' = FramedNext
      /\ Alone <= limit
      /\ Looping /\ PassMutation /\ CloseOpenSlice
      /\ UNCHANGED callVars
  BY DEF OpenSlice, callVars, PassMutation
<1>1. FramedNext \in Nat /\ FramedNext > 0
  BY <1>0, NextIsFramed
<1>2. /\ position' \in 0..Len(natives)
      /\ offset' \in Seq(Nat)
      /\ Len(offset') = position' + 1
      /\ \A i \in 1..position + 1 : offset'[i] = offset[i]
      /\ offset'[position + 2] = offset[position + 1] + FramedNext
      /\ OffsetOK'
  BY <1>0, PassKeepsOffset, Zenon
<1>3. /\ slices' \in Seq(Nat \X Nat)
      /\ SlicesCover'
      /\ SlicesFit'
  BY <1>0, <1>2, CloseCovers, Zenon
<1>4. GroupTypeOK'
  <2>1. start' \in 0..position' /\ batchBytes' \in Nat
    BY <1>0, <1>1, LoopTypes
  <2>2. /\ natives' \in Seq(Payload \cup {Malformed})
        /\ limit' \in Nat \ {0}
        /\ envelope' \in Nat
        /\ phase' \in {"idle", "checking", "slicing", "returned", "malformed", "too large"}
    BY <1>0 DEF GroupInv, GroupTypeOK
  <2> QED
    BY <1>0, <1>2, <1>3, <2>1, <2>2 DEF GroupTypeOK
<1>5. OpenSliceOK'
  <2>1. offset[position + 1] \in Nat
    BY LoopTypes
  <2>2. position + 1 \in 1..position + 1 /\ position' + 1 = position + 2
    BY <1>0, LoopTypes
  <2>3. batchBytes' = offset'[position' + 1] - offset'[start' + 1]
    BY <1>0, <1>1, <1>2, <2>1, <2>2
  <2>4. batchBytes' # 0 /\ start' # position'
    BY <1>0, <1>1, LoopTypes
  <2>5. RecordBytes(batchBytes)' <= limit'
    BY <1>0 DEF Alone, RecordBytes
  <2> QED
    BY <2>3, <2>4, <2>5 DEF OpenSliceOK
<1> QED
  BY <1>2, <1>3, <1>4, <1>5 DEF GroupInv

\* After the loop the open slice is closed at the end of the group.
LEMMA ReturnRecordsInv == GroupInv /\ ReturnRecords => GroupInv'
<1> SUFFICES ASSUME GroupInv, ReturnRecords PROVE GroupInv'
  OBVIOUS
<1>0. /\ natives' = natives /\ limit' = limit /\ envelope' = envelope
      /\ phase = "slicing" /\ phase' = "returned"
      /\ start' = position /\ position' = position /\ offset' = offset
      /\ batchBytes' = 0
      /\ CloseOpenSlice /\ UNCHANGED callVars
  BY DEF ReturnRecords, callVars
<1>1. /\ slices' \in Seq(Nat \X Nat)
      /\ SlicesCover'
      /\ SlicesFit'
  BY <1>0, CloseCovers
<1>2. OffsetOK'
  BY <1>0 DEF GroupInv, OffsetOK
<1>3. OpenSliceOK'
  <2>1. offset[position + 1] \in Nat
    BY LoopTypes
  <2> QED
    BY <1>0, <2>1 DEF OpenSliceOK
<1>4. GroupTypeOK'
  <2>1. start' \in 0..position'
    BY <1>0, LoopTypes
  <2>2. /\ natives' \in Seq(Payload \cup {Malformed})
        /\ limit' \in Nat \ {0} /\ envelope' \in Nat
        /\ position' \in 0..Len(natives') /\ offset' \in Seq(Nat)
        /\ Len(offset') = position' + 1
    BY <1>0 DEF GroupInv, GroupTypeOK
  <2> QED
    BY <1>0, <1>1, <2>1, <2>2 DEF GroupTypeOK
<1> QED
  BY <1>1, <1>2, <1>3, <1>4 DEF GroupInv

\* A step that sets the phase alone, and lets the loop begin only when every
\* mutation is well-formed, keeps the invariant.
LEMMA PhaseOnlyInv ==
  ASSUME GroupInv, UNCHANGED callVars, UNCHANGED sliceVars,
         phase' \in {"idle", "checking", "slicing", "returned", "malformed", "too large"},
         \/ phase' \notin {"slicing", "returned", "too large"}
         \/ phase \in {"slicing", "returned", "too large"}
         \/ \A i \in 1..Len(natives) : natives[i] # Malformed
  PROVE  GroupInv'
<1>0. /\ natives' = natives /\ limit' = limit /\ envelope' = envelope
      /\ position' = position /\ offset' = offset /\ slices' = slices
      /\ start' = start /\ batchBytes' = batchBytes
  BY DEF callVars, sliceVars
<1>1. GroupTypeOK'
  BY <1>0 DEF GroupInv, GroupTypeOK
<1>2. OffsetOK'
  BY <1>0 DEF GroupInv, OffsetOK
<1>3. OpenSliceOK'
  BY <1>0 DEF GroupInv, OpenSliceOK, RecordBytes
<1>4. SlicesCover'
  BY <1>0 DEF GroupInv, SlicesCover
<1>5. SlicesFit'
  BY <1>0 DEF GroupInv, SlicesFit, SliceBytes, RecordBytes
<1> QED
  BY <1>1, <1>2, <1>3, <1>4, <1>5 DEF GroupInv

\* Every action of the call keeps the invariant.
LEMMA GroupNextInv == GroupInv /\ [GroupNext]_groupVars => GroupInv'
<1> SUFFICES ASSUME GroupInv, [GroupNext]_groupVars PROVE GroupInv'
  OBVIOUS
<1>1. CASE Check
  <2>1. /\ UNCHANGED callVars /\ UNCHANGED sliceVars
        /\ phase' \in {"slicing", "malformed"}
        /\ phase' = "slicing" => \A i \in DOMAIN natives : natives[i] # Malformed
    BY <1>1 DEF Check
  <2>2. natives \in Seq(Payload \cup {Malformed})
    BY DEF GroupInv, GroupTypeOK
  <2>3. DOMAIN natives = 1..Len(natives)
    BY <2>2, LenProperties
  <2> QED
    BY <2>1, <2>3, PhaseOnlyInv
<1>2. CASE JoinSlice
  BY <1>2, JoinSliceInv
<1>3. CASE OpenSlice
  BY <1>3, OpenSliceInv
<1>4. CASE RefuseMutation
  BY <1>4, PhaseOnlyInv DEF RefuseMutation, Looping
<1>5. CASE ReturnRecords
  BY <1>5, ReturnRecordsInv
<1>6. CASE RefuseVersionEnd
  BY <1>6, PhaseOnlyInv DEF RefuseVersionEnd
<1>7. CASE UNCHANGED groupVars
  <2>1. UNCHANGED callVars /\ UNCHANGED sliceVars /\ phase' = phase
    BY <1>7 DEF groupVars
  <2>2. phase \in {"idle", "checking", "slicing", "returned", "malformed", "too large"}
    BY DEF GroupInv, GroupTypeOK
  <2> QED
    BY <2>1, <2>2, PhaseOnlyInv
<1> QED
  BY <1>1, <1>2, <1>3, <1>4, <1>5, <1>6, <1>7 DEF GroupNext

\* serialize_version_group, for every group, limit and envelope: the slices
\* closed so far cover the group from its first mutation on without gap or
\* overlap, and each of them is a record that fits max_record_bytes.
THEOREM GroupSlicing == GroupSpec => []GroupInv
<1>1. GroupInit => GroupInv
  BY GroupInitInv
<1>2. GroupInv /\ [GroupNext]_groupVars => GroupInv'
  BY GroupNextInv
<1> QED
  BY <1>1, <1>2, PTL DEF GroupSpec

-----------------------------------------------------------------------------
(***************************************************************************)
(* The result.                                                             *)
(***************************************************************************)
\* A slice was closed because the next mutation did not fit it, or because there
\* was none; and a call that returns or refuses has had the reason for it.
SlicesFull ==
  \A k \in 1..Len(slices) :
    \/ phase = "returned" /\ slices[k][2] = Len(natives)
    \/ slices[k][2] < position /\ SliceBytes(slices[k][1], slices[k][2] + 1) > limit

ResultInv ==
  /\ SlicesFull
  /\ phase = "returned" => /\ start = Len(natives) /\ position = Len(natives)
                           /\ EndBytes(envelope, Len(natives)) <= limit
  /\ phase = "too large" => \/ \E i \in 1..Len(natives) : RecordBytes(Framed(natives[i])) > limit
                            \/ EndBytes(envelope, Len(natives)) > limit

\* The size of a slice, by what a step leaves the sizes to be.
NewBytes(a, b) == envelope' + Framed(offset'[b + 1] - offset'[a + 1])

\* A slice that is full stays so when a mutation is passed.
LEMMA PassKeepsFull ==
  ASSUME GroupInv, Looping, PassMutation, UNCHANGED callVars, UNCHANGED phase, SlicesFull,
         NEW k \in 1..Len(slices)
  PROVE  /\ slices[k][2] < position'
         /\ NewBytes(slices[k][1], slices[k][2] + 1) > limit'
<1>1. slices[k][2] < position /\ SliceBytes(slices[k][1], slices[k][2] + 1) > limit
  BY DEF SlicesFull, Looping
<1>2. slices[k][1] + 1 \in 1..position + 1 /\ slices[k][2] + 1 + 1 \in 1..position + 1
  <2>1. slices[k][1] \in 0..position /\ slices[k][2] \in 0..position
    BY SliceBounds
  <2>2. position \in Nat
    BY LoopTypes
  <2> QED
    BY <1>1, <2>1, <2>2
<1>3. envelope' = envelope /\ limit' = limit /\ UNCHANGED natives
  BY DEF callVars
<1>4. \A i \in 1..position + 1 : offset'[i] = offset[i]
  BY <1>3, PassKeepsOffset, Zenon
<1>5. NewBytes(slices[k][1], slices[k][2] + 1) = SliceBytes(slices[k][1], slices[k][2] + 1)
  BY <1>2, <1>3, <1>4 DEF NewBytes, SliceBytes, RecordBytes
<1>6. slices[k][2] < position'
  BY <1>1, SliceBounds, LoopTypes DEF PassMutation
<1> QED
  BY <1>1, <1>3, <1>5, <1>6

\* What has to be shown of the slices after a step of the loop.
LEMMA FullSlices ==
  ASSUME \A k \in 1..Len(slices') :
           \/ phase' = "returned" /\ slices'[k][2] = Len(natives')
           \/ slices'[k][2] < position' /\ NewBytes(slices'[k][1], slices'[k][2] + 1) > limit'
  PROVE  SlicesFull'
  BY DEF SlicesFull, SliceBytes, RecordBytes, NewBytes

LEMMA JoinSliceResult == GroupInv /\ ResultInv /\ JoinSlice => ResultInv'
<1> SUFFICES ASSUME GroupInv, ResultInv, JoinSlice PROVE ResultInv'
  OBVIOUS
<1>1. /\ slices' = slices /\ phase' = phase /\ phase = "slicing" /\ UNCHANGED callVars
      /\ Looping /\ PassMutation
  BY DEF JoinSlice, Looping
<1>2. SlicesFull'
  BY <1>1, PassKeepsFull, FullSlices DEF ResultInv
<1> QED
  BY <1>1, <1>2 DEF ResultInv

LEMMA OpenSliceResult == GroupInv /\ ResultInv /\ OpenSlice => ResultInv'
<1> SUFFICES ASSUME GroupInv, ResultInv, OpenSlice PROVE ResultInv'
  OBVIOUS
<1>1. /\ phase' = phase /\ phase = "slicing" /\ UNCHANGED callVars /\ limit' = limit /\ envelope' = envelope
      /\ Looping /\ PassMutation /\ CloseOpenSlice /\ StartsSlice
  BY DEF OpenSlice, Looping, callVars
<1>2. slices \in Seq(Nat \X Nat)
  BY DEF GroupInv, GroupTypeOK
<1>3. ASSUME NEW k \in 1..Len(slices')
      PROVE  /\ slices'[k][2] < position'
             /\ NewBytes(slices'[k][1], slices'[k][2] + 1) > limit'
  <2>1. CASE k \in 1..Len(slices) /\ slices'[k] = slices[k]
    BY <1>1, <2>1, PassKeepsFull DEF ResultInv
  <2>2. CASE batchBytes # 0 /\ slices'[k] = <<start, position>>
    <3>1. Grown > limit /\ slices'[k][1] = start /\ slices'[k][2] = position
      BY <1>1, <2>2 DEF StartsSlice
    <3>2. /\ \A i \in 1..position + 1 : offset'[i] = offset[i]
          /\ offset'[position + 2] = offset[position + 1] + FramedNext
      BY <1>1, PassKeepsOffset, Zenon DEF callVars
    <3>3. /\ batchBytes = offset[position + 1] - offset[start + 1]
          /\ offset[position + 1] \in Nat /\ offset[start + 1] \in Nat
          /\ position \in Nat /\ start \in 0..position
      BY LoopTypes DEF GroupInv, OpenSliceOK
    <3>4. FramedNext \in Nat
      BY <1>1, NextIsFramed
    <3>5. offset'[position + 1 + 1] - offset'[start + 1] = batchBytes + FramedNext
      <4>1. position + 1 + 1 = position + 2 /\ start + 1 \in 1..position + 1
        BY <3>3
      <4>2. offset'[start + 1] = offset[start + 1]
        BY <3>2, <4>1
      <4> QED
        BY <3>2, <3>3, <3>4, <4>1, <4>2
    <3>6. NewBytes(slices'[k][1], slices'[k][2] + 1) = Grown
      BY <1>1, <3>1, <3>5 DEF NewBytes, RecordBytes, Grown
    <3> QED
      BY <1>1, <3>1, <3>3, <3>6 DEF PassMutation
  <2>3. CASE batchBytes = 0
    BY <1>1, <2>1, <2>3 DEF CloseOpenSlice
  <2>4. CASE batchBytes # 0
    <3>1. slices' = Append(slices, <<start, position>>)
      BY <1>1, <2>4 DEF CloseOpenSlice
    <3>2. \/ k \in 1..Len(slices) /\ slices'[k] = slices[k]
          \/ slices'[k] = <<start, position>>
      <4>1. <<start, position>> \in Nat \X Nat
        BY LoopTypes
      <4> QED
        BY <1>2, <3>1, <4>1, AppendProperties
    <3> QED
      BY <2>1, <2>2, <2>4, <3>2
  <2> QED
    BY <2>3, <2>4
<1>4. SlicesFull'
  BY <1>3, FullSlices
<1> QED
  BY <1>1, <1>4 DEF ResultInv

LEMMA ReturnRecordsResult == GroupInv /\ ResultInv /\ ReturnRecords => ResultInv'
<1> SUFFICES ASSUME GroupInv, ResultInv, ReturnRecords PROVE ResultInv'
  OBVIOUS
<1>1. /\ natives' = natives /\ limit' = limit /\ envelope' = envelope
      /\ phase = "slicing" /\ phase' = "returned"
      /\ start' = position /\ position' = position /\ offset' = offset
      /\ position = Len(natives) /\ EndBytes(envelope, Len(natives)) <= limit
      /\ CloseOpenSlice
  BY DEF ReturnRecords, callVars
<1>2. slices \in Seq(Nat \X Nat) /\ <<start, position>> \in Nat \X Nat
  BY LoopTypes DEF GroupInv, GroupTypeOK
<1>3. ASSUME NEW k \in 1..Len(slices')
      PROVE  \/ k \in 1..Len(slices) /\ slices'[k] = slices[k]
             \/ slices'[k] = <<start, position>>
  BY <1>1, <1>2, AppendProperties DEF CloseOpenSlice
<1>4. ASSUME NEW k \in 1..Len(slices')
      PROVE  \/ phase' = "returned" /\ slices'[k][2] = Len(natives')
             \/ slices'[k][2] < position' /\ NewBytes(slices'[k][1], slices'[k][2] + 1) > limit'
  <2>1. CASE slices'[k] = <<start, position>>
    BY <1>1, <2>1
  <2>2. CASE k \in 1..Len(slices) /\ slices'[k] = slices[k]
    <3>1. slices[k][2] < position /\ SliceBytes(slices[k][1], slices[k][2] + 1) > limit
      BY <1>1, <2>2 DEF ResultInv, SlicesFull
    <3>2. NewBytes(slices[k][1], slices[k][2] + 1) = SliceBytes(slices[k][1], slices[k][2] + 1)
      BY <1>1 DEF NewBytes, SliceBytes, RecordBytes
    <3> QED
      BY <1>1, <2>2, <3>1, <3>2
  <2> QED
    BY <1>3, <2>1, <2>2
<1>5. SlicesFull'
  BY <1>4, FullSlices
<1>6. EndBytes(envelope, Len(natives))' = EndBytes(envelope, Len(natives))
  BY <1>1 DEF EndBytes
<1> QED
  BY <1>1, <1>5, <1>6 DEF ResultInv

\* A step that leaves the slices alone.
LEMMA SlicesStayFull ==
  ASSUME SlicesFull, UNCHANGED callVars, UNCHANGED sliceVars, phase = "returned" => phase' = "returned"
  PROVE  SlicesFull'
<1>1. /\ natives' = natives /\ limit' = limit /\ envelope' = envelope
      /\ position' = position /\ offset' = offset /\ slices' = slices
  BY DEF callVars, sliceVars
<1> QED
  BY <1>1 DEF SlicesFull, SliceBytes, RecordBytes

\* Every action of the call gives the result its reason.
LEMMA GroupNextResult == GroupInv /\ ResultInv /\ [GroupNext]_groupVars => ResultInv'
<1> SUFFICES ASSUME GroupInv, ResultInv, [GroupNext]_groupVars PROVE ResultInv'
  OBVIOUS
<1>1. CASE Check
  <2>1. /\ UNCHANGED callVars /\ UNCHANGED sliceVars
        /\ phase = "checking" /\ phase' \in {"slicing", "malformed"}
    BY <1>1 DEF Check
  <2>2. SlicesFull'
    BY <2>1, SlicesStayFull DEF ResultInv
  <2> QED
    BY <2>1, <2>2 DEF ResultInv
<1>2. CASE JoinSlice
  BY <1>2, JoinSliceResult
<1>3. CASE OpenSlice
  BY <1>3, OpenSliceResult
<1>4. CASE RefuseMutation
  <2>1. /\ natives' = natives /\ limit' = limit /\ envelope' = envelope
        /\ UNCHANGED callVars /\ UNCHANGED sliceVars
        /\ phase = "slicing" /\ phase' = "too large"
        /\ Alone > limit /\ position < Len(natives)
    BY <1>4 DEF RefuseMutation, Looping, callVars
  <2>2. SlicesFull'
    BY <2>1, SlicesStayFull DEF ResultInv
  <2>3. position + 1 \in 1..Len(natives)
    <3>1. position \in Nat /\ Len(natives) \in Nat /\ position < Len(natives)
      BY <2>1, LoopTypes
    <3> QED
      BY <3>1
  <2>4. envelope + Framed(Framed(natives[position + 1])) > limit
    BY <2>1 DEF Alone, FramedNext, RecordBytes
  <2>5. \E i \in 1..Len(natives) : envelope + Framed(Framed(natives[i])) > limit
    BY <2>3, <2>4
  <2>6. \E i \in 1..Len(natives') : RecordBytes(Framed(natives[i]))' > limit'
    BY <2>1, <2>5 DEF RecordBytes
  <2> QED
    BY <2>1, <2>2, <2>6 DEF ResultInv
<1>5. CASE ReturnRecords
  BY <1>5, ReturnRecordsResult
<1>6. CASE RefuseVersionEnd
  <2>1. /\ natives' = natives /\ limit' = limit /\ envelope' = envelope
        /\ UNCHANGED callVars /\ UNCHANGED sliceVars
        /\ phase = "slicing" /\ phase' = "too large"
        /\ EndBytes(envelope, Len(natives)) > limit
    BY <1>6 DEF RefuseVersionEnd, callVars
  <2>2. SlicesFull'
    BY <2>1, SlicesStayFull DEF ResultInv
  <2>3. EndBytes(envelope, Len(natives))' = EndBytes(envelope, Len(natives))
    BY <2>1 DEF EndBytes
  <2> QED
    BY <2>1, <2>2, <2>3 DEF ResultInv
<1>7. CASE UNCHANGED groupVars
  <2>1. /\ natives' = natives /\ limit' = limit /\ envelope' = envelope
        /\ UNCHANGED callVars /\ UNCHANGED sliceVars /\ phase' = phase
        /\ start' = start /\ position' = position
    BY <1>7 DEF groupVars, callVars, sliceVars
  <2>2. SlicesFull'
    BY <2>1, SlicesStayFull DEF ResultInv
  <2>3. EndBytes(envelope, Len(natives))' = EndBytes(envelope, Len(natives))
    BY <2>1 DEF EndBytes
  <2>4. \A i \in 1..Len(natives) : RecordBytes(Framed(natives[i]))' = RecordBytes(Framed(natives[i]))
    BY <2>1 DEF RecordBytes
  <2> QED
    BY <2>1, <2>2, <2>3, <2>4 DEF ResultInv
<1> QED
  BY <1>1, <1>2, <1>3, <1>4, <1>5, <1>6, <1>7 DEF GroupNext
=============================================================================
