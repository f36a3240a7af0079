--------------------------- MODULE KeyRangeProofs ---------------------------
(***************************************************************************)
(* Proofs that the range a stream is registered with is the subspace       *)
(* (CoversSubspace), and that only a subspace without an upper bound is    *)
(* refused (RefusesOnlyUnbounded), for keys of any length over bytes of    *)
(* any size.                                                               *)
(***************************************************************************)
EXTENDS KeyRange, WellFoundedInduction, TLAPS

LEMMA LeastElement ==
  ASSUME NEW S \in SUBSET Nat, S # {}
  PROVE  \E m \in S : \A n \in S : m <= n
  <1>. DEFINE R == OpToRel(<, Nat)
  <1>1. IsWellFoundedOn(R, Nat)
    BY NatLessThanWellFounded
  <1>2. \A x, y \in Nat : y < x => <<y, x>> \in R
    BY DEF OpToRel
  <1>. HIDE DEF R
  <1>3. PICK m \in S : \A y \in S : ~(<<y, m>> \in R)
    BY <1>1, WFMin, Zenon
  <1>4. ASSUME NEW n \in S PROVE m <= n
    <2>1. m \in Nat /\ n \in Nat /\ ~(n < m)
      BY <1>2, <1>3
    <2>. QED BY <2>1
  <1>. QED BY <1>3, <1>4

\* Max chooses the greatest element of a bounded set.
LEMMA MaxIsGreatest ==
  ASSUME NEW b \in Nat, NEW S \in SUBSET (0..b), S # {}
  PROVE  Max(S) \in S /\ \A x \in S : x <= Max(S)
  <1>. DEFINE D == {n \in Nat : b - n \in S}
  <1>1. PICK x \in S : TRUE
    OBVIOUS
  <1>2. b - x \in D
    BY <1>1
  <1>3. PICK m \in D : \A n \in D : m <= n
    BY <1>2, LeastElement
  <1>4. b - m \in S /\ \A y \in S : y <= b - m
    <2>1. ASSUME NEW y \in S PROVE y <= b - m
      <3>1. y \in 0..b /\ b - y \in Nat /\ b - (b - y) = y
        OBVIOUS
      <3>2. b - y \in D
        BY <3>1
      <3>3. m <= b - y /\ m \in Nat
        BY <1>3, <3>2
      <3>. QED BY <3>1, <3>3
    <2>. QED BY <1>3, <2>1
  <1>5. \E z \in S : \A y \in S : z >= y
    BY <1>4
  <1>. QED BY <1>5 DEF Max

\* A key is a sequence of bytes.
LEMMA KeyIsSequence ==
  ASSUME NEW k \in Key
  PROVE  /\ k \in Seq(0..MaxByte) /\ Len(k) \in 0..MaxLength /\ DOMAIN k = 1..Len(k)
         /\ \A i \in 1..Len(k) : k[i] \in 0..MaxByte
  <1>1. PICK n \in 0..MaxLength : k \in [1..n -> 0..MaxByte]
    BY DEF Key
  <1>2. k \in Seq(0..MaxByte) /\ Len(k) = n
    BY <1>1, KeyRangeAssumption
  <1>. QED BY <1>1, <1>2

\* Where the trailing 0xFF bytes of a key start.
LEMMA StrippedEnd ==
  ASSUME NEW k \in Key
  PROVE  \E m \in 0..Len(k) :
           /\ m > 0 => k[m] # MaxByte
           /\ \A j \in (m + 1)..Len(k) : k[j] = MaxByte
           /\ Stripped(k) = SubSeq(k, 1, m)
  <1>. DEFINE S == {0} \cup {n \in DOMAIN k : k[n] # MaxByte}
  <1>1. S \subseteq 0..Len(k) /\ S # {} /\ Len(k) \in Nat /\ DOMAIN k = 1..Len(k)
    BY KeyIsSequence, KeyRangeAssumption
  <1>2. Max(S) \in S /\ \A x \in S : x <= Max(S)
    BY <1>1, MaxIsGreatest
  <1>3. Stripped(k) = SubSeq(k, 1, Max(S))
    BY DEF Stripped
  <1>. HIDE DEF S
  <1>4. PICK m : m = Max(S)
    OBVIOUS
  <1>5. m \in 0..Len(k) /\ (m > 0 => k[m] # MaxByte)
    BY <1>1, <1>2, <1>4 DEF S
  <1>6. ASSUME NEW j \in (m + 1)..Len(k) PROVE k[j] = MaxByte
    <2>1. j \in DOMAIN k /\ ~(j <= m)
      BY <1>1, <1>5
    <2>2. j \notin S
      BY <1>2, <1>4, <2>1
    <2>. QED BY <2>1, <2>2 DEF S
  <1>. QED BY <1>3, <1>4, <1>5, <1>6

\* strinc() raises for keys of nothing but 0xFF, and only for those.
LEMMA NoSuccessor ==
  ASSUME NEW k \in Key, HasNoSuccessor(k)
  PROVE  \A j \in 1..Len(k) : k[j] = MaxByte
  <1>1. PICK m \in 0..Len(k) : /\ \A j \in (m + 1)..Len(k) : k[j] = MaxByte
                               /\ Stripped(k) = SubSeq(k, 1, m)
    BY StrippedEnd
  <1>2. k \in Seq(0..MaxByte) /\ Len(k) \in Nat
    BY KeyIsSequence, KeyRangeAssumption
  <1>3. Len(SubSeq(k, 1, m)) = m
    BY <1>2
  <1>4. m = 0
    BY <1>1, <1>3 DEF HasNoSuccessor
  <1>. QED BY <1>1, <1>2, <1>4

\* What strinc() returns: the key without the bytes after m, and m increased.
LEMMA StrincIs ==
  ASSUME NEW k \in Key, ~HasNoSuccessor(k)
  PROVE  \E m \in 1..Len(k) :
           /\ k[m] < MaxByte /\ \A j \in (m + 1)..Len(k) : k[j] = MaxByte
           /\ Strinc(k) \in Seq(Nat) /\ Len(Strinc(k)) = m /\ DOMAIN Strinc(k) = 1..m
           /\ Strinc(k)[m] = k[m] + 1
           /\ \A j \in 1..(m - 1) : Strinc(k)[j] = k[j]
  <1>1. PICK m \in 0..Len(k) : /\ m > 0 => k[m] # MaxByte
                               /\ \A j \in (m + 1)..Len(k) : k[j] = MaxByte
                               /\ Stripped(k) = SubSeq(k, 1, m)
    BY StrippedEnd
  <1>2. /\ k \in Seq(0..MaxByte) /\ Len(k) \in Nat /\ MaxByte \in Nat
        /\ \A i \in 1..Len(k) : k[i] \in 0..MaxByte
    BY KeyIsSequence, KeyRangeAssumption
  <1>. DEFINE s == SubSeq(k, 1, m)
  <1>3. /\ s \in Seq(0..MaxByte) /\ Len(s) = m /\ DOMAIN s = 1..m
        /\ \A j \in 1..m : s[j] = k[j]
    BY <1>2
  <1>4. m # 0
    BY <1>1, <1>3 DEF HasNoSuccessor
  <1>5. m \in 1..Len(k) /\ k[m] < MaxByte
    BY <1>1, <1>2, <1>4
  <1>. HIDE DEF s
  <1>6. Strinc(k) = [s EXCEPT ![m] = s[m] + 1]
    BY <1>1, <1>3 DEF Strinc, s
  <1>7. DOMAIN Strinc(k) = 1..m /\ Strinc(k)[m] = k[m] + 1 /\ \A j \in 1..(m - 1) : Strinc(k)[j] = k[j]
    BY <1>3, <1>5, <1>6
  <1>8. Strinc(k) \in Seq(Nat)
    BY <1>2, <1>3, <1>5, <1>6
  <1>9. Len(Strinc(k)) = m
    BY <1>5, <1>7, <1>8
  <1>. QED BY <1>1, <1>5, <1>7, <1>8, <1>9

-----------------------------------------------------------------------------
\* The range of a prefix is not empty.
LEMMA RangeIsOrdered ==
  ASSUME NEW p \in Key, ~HasNoSuccessor(p)
  PROVE  p # << >> /\ Strinc(p) # << >> /\ Less(p, Strinc(p))
  <1>1. PICK m \in 1..Len(p) :
           /\ Len(Strinc(p)) = m /\ DOMAIN Strinc(p) = 1..m
           /\ Strinc(p)[m] = p[m] + 1
           /\ \A j \in 1..(m - 1) : Strinc(p)[j] = p[j]
    BY StrincIs
  <1>2. DOMAIN p = 1..Len(p) /\ Len(p) \in Nat /\ \A i \in 1..Len(p) : p[i] \in Nat
    BY KeyIsSequence, KeyRangeAssumption
  <1>3. m \in DOMAIN p \cap DOMAIN Strinc(p) /\ p[m] < Strinc(p)[m]
    BY <1>1, <1>2
  <1>4. Less(p, Strinc(p))
    BY <1>1, <1>3 DEF Less
  <1>5. p # << >> /\ Strinc(p) # << >>
    BY <1>1, <1>2
  <1>. QED BY <1>4, <1>5

\* IsPrefix, element by element.
LEMMA PrefixByElement ==
  ASSUME NEW S, NEW a \in Seq(S), NEW b \in Seq(S)
  PROVE  IsPrefix(a, b) <=> Len(a) <= Len(b) /\ \A i \in 1..Len(a) : a[i] = b[i]
  <1>1. ASSUME Len(a) <= Len(b)
        PROVE  SubSeq(a, 1, Len(a)) = SubSeq(b, 1, Len(a)) <=> \A i \in 1..Len(a) : a[i] = b[i]
    <2>1. /\ SubSeq(a, 1, Len(a)) \in Seq(S) /\ Len(SubSeq(a, 1, Len(a))) = Len(a)
          /\ SubSeq(b, 1, Len(a)) \in Seq(S) /\ Len(SubSeq(b, 1, Len(a))) = Len(a)
          /\ \A i \in 1..Len(a) : SubSeq(a, 1, Len(a))[i] = a[i] /\ SubSeq(b, 1, Len(a))[i] = b[i]
      BY <1>1
    <2>2. ASSUME \A i \in 1..Len(a) : a[i] = b[i]
          PROVE  SubSeq(a, 1, Len(a)) = SubSeq(b, 1, Len(a))
      BY <1>1, <2>2
    <2>. QED BY <2>1, <2>2
  <1>. QED BY <1>1 DEF IsPrefix

\* The keys of the range are those the prefix starts.
LEMMA RangeIsSubspace ==
  ASSUME NEW p \in Key, ~HasNoSuccessor(p), NEW k \in Key
  PROVE  ~Less(k, p) /\ Less(k, Strinc(p)) <=> IsPrefix(p, k)
  <1>. DEFINE e == Strinc(p)
  <1>1. PICK m \in 1..Len(p) :
           /\ p[m] < MaxByte /\ \A j \in (m + 1)..Len(p) : p[j] = MaxByte
           /\ e \in Seq(Nat) /\ Len(e) = m /\ DOMAIN e = 1..m
           /\ e[m] = p[m] + 1
           /\ \A j \in 1..(m - 1) : e[j] = p[j]
    BY StrincIs
  <1>2. /\ p \in Seq(0..MaxByte) /\ Len(p) \in Nat /\ DOMAIN p = 1..Len(p)
        /\ k \in Seq(0..MaxByte) /\ Len(k) \in Nat /\ DOMAIN k = 1..Len(k) /\ MaxByte \in Nat
        /\ \A i \in 1..Len(p) : p[i] \in 0..MaxByte
        /\ \A i \in 1..Len(k) : k[i] \in 0..MaxByte
    BY KeyIsSequence, KeyRangeAssumption
  <1>3. e \in Seq(Nat)
    BY <1>1
  <1>. HIDE DEF e
  <1>4. ASSUME IsPrefix(p, k) PROVE ~Less(k, p) /\ Less(k, e)
    <2>1. Len(p) <= Len(k) /\ \A i \in 1..Len(p) : p[i] = k[i]
      <3>1. p \in Seq(0..MaxByte) /\ k \in Seq(0..MaxByte)
        BY <1>2
      <3>. QED BY <1>4, <3>1, PrefixByElement
    <2>2. ~IsStrictPrefix(k, p)
      <3>1. ASSUME IsPrefix(k, p) PROVE k = p
        <4>1. Len(k) <= Len(p)
          BY <3>1 DEF IsPrefix
        <4>. QED BY <1>2, <2>1, <4>1
      <3>. QED BY <3>1 DEF IsStrictPrefix
    <2>3. ~Less(k, p)
      BY <1>2, <2>1, <2>2 DEF Less
    <2>4. m \in DOMAIN k \cap DOMAIN e /\ k[m] < e[m] /\ \A j \in 1..(m - 1) : k[j] = e[j]
      BY <1>1, <1>2, <2>1
    <2>. QED BY <2>3, <2>4 DEF Less
  <1>5. ASSUME ~Less(k, p), Less(k, e), ~IsPrefix(p, k) PROVE FALSE
    <2>. DEFINE D == {i \in 1..Len(p) : i > Len(k) \/ k[i] # p[i]}
    <2>1. D # {}
      <3>1. ASSUME D = {} PROVE FALSE
        <4>1. ASSUME NEW i \in 1..Len(p) PROVE i <= Len(k) /\ k[i] = p[i]
          <5>1. i \notin D
            BY <3>1
          <5>. QED BY <1>2, <5>1
        <4>2. Len(p) <= Len(k)
          BY <1>2, <4>1
        <4>. QED BY <1>2, <1>5, <4>1, <4>2, PrefixByElement
      <3>. QED BY <3>1
    <2>2. PICK i \in D : \A n \in D : i <= n
      <3>1. D \in SUBSET Nat
        BY <1>2
      <3>. QED BY <2>1, <3>1, LeastElement
    <2>3. i \in 1..Len(p) /\ \A j \in 1..(i - 1) : j <= Len(k) /\ k[j] = p[j]
      <3>1. ASSUME NEW j \in 1..(i - 1) PROVE j <= Len(k) /\ k[j] = p[j]
        <4>1. j \in 1..Len(p) /\ ~(i <= j)
          BY <1>2
        <4>2. j \notin D
          BY <2>2, <4>1
        <4>. QED BY <1>2, <4>1, <4>2
      <3>. QED BY <3>1
    <2>4. i <= Len(k)
      <3>1. ASSUME i > Len(k) PROVE FALSE
        <4>1. Len(k) <= Len(p) /\ \A j \in 1..Len(k) : k[j] = p[j]
          BY <1>2, <2>3, <3>1
        <4>2. k # p
          BY <1>2, <2>3, <3>1
        <4>3. IsStrictPrefix(k, p)
          BY <1>2, <4>1, <4>2, PrefixByElement DEF IsStrictPrefix
        <4>. QED BY <1>5, <4>3 DEF Less
      <3>. QED BY <1>2, <2>3, <3>1
    <2>5. k[i] # p[i]
      BY <2>2, <2>4, <1>2
    <2>6. ~(k[i] < p[i])
      <3>1. i \in DOMAIN k \cap DOMAIN p
        BY <1>2, <2>3, <2>4
      <3>. QED BY <1>5, <2>3, <3>1 DEF Less
    <2>7. p[i] < k[i] /\ i <= m
      <3>1. p[i] < k[i] /\ p[i] < MaxByte
        BY <1>2, <2>3, <2>4, <2>5, <2>6
      <3>. QED BY <1>1, <1>2, <2>3, <3>1
    <2>8. e[i] <= k[i] /\ k[i] # p[i] /\ \A j \in 1..(i - 1) : k[j] = e[j]
      BY <1>1, <1>2, <2>3, <2>4, <2>7
    <2>9. ~IsStrictPrefix(k, e)
      <3>1. ASSUME IsStrictPrefix(k, e) PROVE FALSE
        <4>0. k \in Seq(Nat)
          BY <1>2
        <4>1. Len(k) <= m /\ k # e /\ \A j \in 1..Len(k) : k[j] = e[j]
          BY <1>1, <1>3, <3>1, <4>0, PrefixByElement DEF IsStrictPrefix
        <4>2. i = m
          BY <1>1, <1>2, <2>3, <2>4, <2>7, <2>8, <4>1
        <4>. QED BY <1>1, <1>2, <1>3, <2>4, <4>0, <4>1, <4>2
      <3>. QED BY <3>1
    <2>10. PICK l \in DOMAIN k \cap DOMAIN e : k[l] < e[l] /\ \A j \in 1..(l - 1) : k[j] = e[j]
      BY <1>5, <2>9 DEF Less
    <2>11. CASE l < i
      BY <1>1, <1>2, <2>8, <2>10, <2>11
    <2>12. CASE l = i
      BY <1>1, <1>2, <1>3, <2>8, <2>10, <2>12
    <2>13. CASE l > i
      <3>1. i \in 1..(m - 1) /\ k[i] = e[i]
        BY <1>1, <1>2, <2>3, <2>10, <2>13
      <3>. QED BY <1>1, <2>8, <3>1
    <2>. QED BY <1>1, <1>2, <2>3, <2>10, <2>11, <2>12, <2>13
  <1>. QED BY <1>4, <1>5 DEF e

-----------------------------------------------------------------------------
\* A range that was accepted is the one of the subspace, and stays it on
\* whatever way it takes; nothing but strinc() ever refuses.
RangeInv ==
  /\ phase \in {"given", "accepted", "refused", "configured", "registered", "written"}
  /\ subspace \in Key /\ key \in Key
  /\ phase = "refused" => HasNoSuccessor(subspace)
  /\ phase \in {"accepted", "configured", "registered", "written"} =>
       ~HasNoSuccessor(subspace) /\ begin = subspace /\ end = Strinc(subspace)
  /\ phase \in {"registered", "written"} => stream = {<<begin, end>>}

LEMMA RangeStarts == Init => RangeInv
  <1>1. << >> \in Key
    <2>1. 0 \in 0..MaxLength /\ << >> \in [1..0 -> 0..MaxByte]
      BY KeyRangeAssumption
    <2>. QED BY <2>1 DEF Key
  <1>. QED BY <1>1 DEF Init, RangeInv

LEMMA RangeStep == RangeInv /\ [Next]_vars => RangeInv'
  <1>. SUFFICES ASSUME RangeInv, [Next]_vars PROVE RangeInv'
    OBVIOUS
  <1>1. CASE UseSubspace
    BY <1>1 DEF UseSubspace, RangeInv
  <1>2. phase \in {"accepted", "configured"} =>
          begin # << >> /\ end # << >> /\ Less(begin, end)
    BY RangeIsOrdered DEF RangeInv
  <1>3. CASE FromDict
    BY <1>2, <1>3 DEF FromDict, RangeInv
  <1>4. CASE Register
    BY <1>2, <1>4 DEF Register, RangeInv
  <1>5. CASE Write
    BY <1>5 DEF Write, RangeInv
  <1>6. CASE UNCHANGED vars
    BY <1>6 DEF vars, RangeInv
  <1>. QED BY <1>1, <1>3, <1>4, <1>5, <1>6 DEF Next

LEMMA RangeInvariant == Spec => []RangeInv
  BY RangeStarts, RangeStep, PTL DEF Spec

\* The stream carries the keys of the subspace and no others, however many 0xFF
\* bytes its prefix ends in and whichever way the range has gone.
THEOREM RangeCoversSubspace == Spec => []CoversSubspace
  <1>1. RangeInv => CoversSubspace
    <2>. SUFFICES ASSUME RangeInv, phase = "written"
                  PROVE  Captured <=> IsPrefix(subspace, key)
      BY DEF CoversSubspace
    <2>1. /\ subspace \in Key /\ key \in Key /\ ~HasNoSuccessor(subspace)
          /\ stream = {<<subspace, Strinc(subspace)>>}
      BY DEF RangeInv
    <2>2. Captured <=> ~Less(key, subspace) /\ Less(key, Strinc(subspace))
      BY <2>1 DEF Captured
    <2>. QED BY <2>1, <2>2, RangeIsSubspace
  <1>. QED BY <1>1, RangeInvariant, PTL

\* No key lies above all keys of a refused subspace: the longest one of nothing
\* but 0xFF is in it, and it is the last of all keys.
THEOREM RefusalIsUnbounded == Spec => []RefusesOnlyUnbounded
  <1>1. RangeInv => RefusesOnlyUnbounded
    <2>. SUFFICES ASSUME RangeInv, phase = "refused", NEW e \in Key
                  PROVE  \E k \in Key : IsPrefix(subspace, k) /\ ~Less(k, e)
      BY DEF RefusesOnlyUnbounded
    <2>. DEFINE k == [i \in 1..MaxLength |-> MaxByte]
    <2>1. MaxLength \in Nat /\ MaxByte \in Nat
      BY KeyRangeAssumption
    <2>2. k \in Key
      <3>1. MaxLength \in 0..MaxLength /\ k \in [1..MaxLength -> 0..MaxByte]
        BY <2>1
      <3>. QED BY <3>1 DEF Key
    <2>3. /\ k \in Seq(0..MaxByte) /\ Len(k) = MaxLength /\ DOMAIN k = 1..MaxLength
          /\ \A i \in 1..MaxLength : k[i] = MaxByte
      BY <2>1
    <2>. HIDE DEF k
    <2>4. /\ subspace \in Seq(0..MaxByte) /\ Len(subspace) \in 0..MaxLength
          /\ \A j \in 1..Len(subspace) : subspace[j] = MaxByte
      BY KeyIsSequence, NoSuccessor DEF RangeInv
    <2>5. IsPrefix(subspace, k)
      <3>1. Len(subspace) <= Len(k) /\ \A j \in 1..Len(subspace) : subspace[j] = k[j]
        BY <2>1, <2>3, <2>4
      <3>. QED BY <2>3, <2>4, <3>1, PrefixByElement
    <2>6. /\ e \in Seq(0..MaxByte) /\ Len(e) \in 0..MaxLength /\ DOMAIN e = 1..Len(e)
          /\ \A i \in 1..Len(e) : e[i] \in 0..MaxByte
      BY KeyIsSequence
    <2>7. ~IsStrictPrefix(k, e)
      <3>1. ASSUME IsPrefix(k, e) PROVE k = e
        <4>1. Len(k) <= Len(e) /\ \A i \in 1..Len(k) : k[i] = e[i]
          BY <2>3, <2>6, <3>1, PrefixByElement
        <4>. QED BY <2>1, <2>3, <2>6, <4>1
      <3>. QED BY <3>1 DEF IsStrictPrefix
    <2>8. ~Less(k, e)
      BY <2>1, <2>3, <2>6, <2>7 DEF Less
    <2>. QED BY <2>2, <2>5, <2>8
  <1>. QED BY <1>1, RangeInvariant, PTL
=============================================================================
