---------------------------- MODULE IngressProofs ----------------------------
(***************************************************************************)
(* Proofs about the ingress, for every feed: any frames, sound or damaged. *)
(*                                                                         *)
(* 1. The sequence guard alone, for every packet alphabet.                 *)
(* 2. Words of bytes, and the sum of a queue of lengths.                   *)
(* 3. The stages from the wire to the events: what their registers hold,   *)
(*    and that no buffer takes more than it has room for.                  *)
(* 4. The guard inside the deframer.                                       *)
(* 5. The books of the deframer and of data_realign agree.                 *)
(***************************************************************************)
EXTENDS Ingress, FiniteSetTheorems, SequenceTheorems, TLAPS

-----------------------------------------------------------------------------
(*                       1. The sequence guard                             *)
-----------------------------------------------------------------------------
(* The inductive strengthening.  Accounted ties the two histories to the   *)
(* registers; the rest follows from it, but GapRegistersTrue and the       *)
(* sticky flag need their own conjunct because clears touch them.          *)
Accounted ==
  /\ NoSilentLoss
  /\ GapIsFinal
  /\ have_expected => first <= expected_seq

IInv ==
  /\ TypeOK
  /\ Accounted
  /\ GapRegistersTrue

(* Packet fields are numbers in range, whatever header is presented.       *)
LEMMA PacketTypes ==
  ASSUME NEW p \in Packets
  PROVE  p[1] \in Nat /\ p[2] \in Nat /\ PacketEnd(p[1], p[2]) \in Nat
BY SeqGuardAssumption DEF PacketEnd

(* One header, as its three effects: a kept expectation, an in-order       *)
(* advance, or an advance over a gap.                                      *)
LEMMA HeaderEffect ==
  ASSUME TypeOK, NEW seq \in Nat, NEW count \in Nat, NEW clear \in BOOLEAN,
         Header(seq, count, clear)
  PROVE  \/ /\ NoGap(clear)
            /\ UNCHANGED <<have_expected, expected_seq, first, forwarded>>
            /\ have_expected
         \/ \E hi \in Nat :
              /\ seq <= hi
              /\ hi \in {seq, PacketEnd(seq, count)}
              /\ Expect(seq, hi)
              /\ forwarded' = forwarded \cup seq .. (hi - 1)
              /\ \/ NoGap(clear) /\ IsDue(seq)
                 \/ RecordGap(seq) /\ IsAhead(seq)
<1>1. CASE FirstStatus(seq, count, clear)
  <2>1. seq .. (seq - 1) = {}
    OBVIOUS
  <2> QED
    BY <1>1, <2>1 DEF FirstStatus, IsDue
<1>2. CASE StatusAhead(seq, count, clear)
  <2>1. seq .. (seq - 1) = {}
    OBVIOUS
  <2> QED
    BY <1>2, <2>1 DEF StatusAhead
<1>3. CASE StatusKept(seq, count, clear)
  BY <1>3 DEF StatusKept
<1>4. CASE AcceptDue(seq, count, clear)
  BY <1>4 DEF AcceptDue, Numbers, PacketEnd
<1>5. CASE AcceptAhead(seq, count, clear)
  BY <1>5 DEF AcceptAhead, Numbers, PacketEnd
<1>6. CASE DropLate(seq, count, clear)
  BY <1>6 DEF DropLate, IsDue
<1> QED
  BY <1>1, <1>2, <1>3, <1>4, <1>5, <1>6 DEF Header

LEMMA InitIInv == Init => IInv
<1> SUFFICES ASSUME Init PROVE IInv
  OBVIOUS
<1>1. TypeOK
  <2>1. have_expected \in BOOLEAN /\ stale \in BOOLEAN
    BY Zenon DEF Init
  <2>2. forwarded \subseteq Nat /\ reported \subseteq Nat
    BY Zenon DEF Init
  <2> QED
    BY <2>1, <2>2 DEF Init, TypeOK
<1>2. Accounted
  BY DEF Init, Accounted, NoSilentLoss, GapIsFinal
<1>3. GapRegistersTrue
  BY DEF Init, GapRegistersTrue
<1> QED
  BY <1>1, <1>2, <1>3 DEF IInv

(* A step that leaves the expectation and the histories alone.             *)
LEMMA KeepIInv ==
  ASSUME IInv, NEW clear \in BOOLEAN, NoGap(clear),
         UNCHANGED <<have_expected, expected_seq, first, forwarded>>
  PROVE  IInv'
BY DEF IInv, TypeOK, Accounted, NoSilentLoss, GapIsFinal, GapRegistersTrue, NoGap

(* A step that moves the expectation in order.                             *)
LEMMA InOrderIInv ==
  ASSUME IInv, NEW seq \in Nat, NEW hi \in Nat, seq <= hi, NEW clear \in BOOLEAN,
         IsDue(seq), Expect(seq, hi), NoGap(clear),
         forwarded' = forwarded \cup seq .. (hi - 1)
  PROVE  IInv'
<1> USE DEF IInv
<1>1. TypeOK'
  BY DEF TypeOK, Expect, NoGap
<1>2. Accounted'
  <2>1. CASE ~have_expected
    BY <2>1 DEF TypeOK, Accounted, NoSilentLoss, GapIsFinal, Expect, NoGap
  <2>2. CASE have_expected /\ seq = expected_seq
    BY <2>2 DEF TypeOK, Accounted, NoSilentLoss, GapIsFinal, Expect, NoGap
  <2> QED
    BY <2>1, <2>2 DEF IsDue
<1>3. GapRegistersTrue'
  BY DEF TypeOK, GapRegistersTrue, Expect, NoGap, IsDue, Accounted, NoSilentLoss
<1> QED
  BY <1>1, <1>2, <1>3

(* A step that moves the expectation over a missing range.                 *)
LEMMA GapIInv ==
  ASSUME IInv, NEW seq \in Nat, NEW hi \in Nat, seq <= hi,
         IsAhead(seq), Expect(seq, hi), RecordGap(seq),
         forwarded' = forwarded \cup seq .. (hi - 1)
  PROVE  IInv'
<1> USE DEF IInv
<1>1. TypeOK'
  BY DEF TypeOK, Expect, RecordGap
<1>2. Accounted'
  BY DEF TypeOK, Accounted, NoSilentLoss, GapIsFinal, Expect, RecordGap, IsAhead
<1>3. GapRegistersTrue'
  BY DEF TypeOK, GapRegistersTrue, Expect, RecordGap, IsAhead
<1> QED
  BY <1>1, <1>2, <1>3

(* Any header at all, whatever its numbers.                                *)
LEMMA HeaderIInv ==
  ASSUME IInv, NEW seq \in Nat, NEW count \in Nat, NEW clear \in BOOLEAN,
         Header(seq, count, clear)
  PROVE  IInv'
<1>1. TypeOK
  BY DEF IInv
<1> QED
  BY <1>1, HeaderEffect, KeepIInv, InOrderIInv, GapIInv

LEMMA SameIInv == ASSUME IInv, UNCHANGED vars PROVE IInv'
BY DEF vars, IInv, TypeOK, Accounted, NoSilentLoss, GapIsFinal, GapRegistersTrue

LEMMA NextIInv == IInv /\ [Next]_vars => IInv'
<1> SUFFICES ASSUME IInv, [Next]_vars PROVE IInv'
  OBVIOUS
<1>1. ASSUME NEW p \in Packets, NEW clear \in ClearInputs, Header(p[1], p[2], clear)
      PROVE  IInv'
  <2>1. p[1] \in Nat /\ p[2] \in Nat /\ clear \in BOOLEAN
    BY PacketTypes, SeqGuardAssumption
  <2> QED
    BY <1>1, <2>1, HeaderIInv
<1>2. CASE ClearStale
  BY <1>2, KeepIInv DEF ClearStale
<1>3. CASE UNCHANGED vars
  BY <1>3, SameIInv
<1> QED
  BY <1>1, <1>2, <1>3 DEF Next

(* The bookkeeping invariant holds in every reachable state.               *)
THEOREM Inductive == Spec => []IInv
BY InitIInv, NextIInv, PTL DEF Spec

(* The registers keep their types (gap_end included, which the subtraction *)
(* in mold_seq_guard.sv:119 could take below zero).                        *)
THEOREM TypeCorrect == Spec => []TypeOK
<1>1. IInv => TypeOK
  BY DEF IInv
<1> QED
  BY <1>1, Inductive, PTL

(* Whatever the network presents, no message below the expectation is lost *)
(* without lying in a reported gap.                                        *)
THEOREM NothingLostSilently == Spec => []NoSilentLoss
<1>1. IInv => NoSilentLoss
  BY DEF IInv, Accounted
<1> QED
  BY <1>1, Inductive, PTL

(* A number reported missing is never forwarded later, nor the reverse.    *)
THEOREM GapsAreFinal == Spec => []GapIsFinal
<1>1. IInv => GapIsFinal
  BY DEF IInv, Accounted
<1> QED
  BY <1>1, Inductive, PTL

(* The gap registers always name a really missing range.                   *)
THEOREM GapRegistersAreTrue == Spec => []GapRegistersTrue
<1>1. IInv => GapRegistersTrue
  BY DEF IInv
<1> QED
  BY <1>1, Inductive, PTL

-----------------------------------------------------------------------------
(* Every step hands on only numbers above all earlier ones.                *)
LEMMA HeaderForwardsOnce ==
  ASSUME IInv, NEW seq \in Nat, NEW count \in Nat, NEW clear \in BOOLEAN,
         Header(seq, count, clear),
         NEW n \in forwarded' \ forwarded, NEW m \in forwarded
  PROVE  m < n
<1>1. TypeOK
  BY DEF IInv
<1>2. PICK hi \in Nat : /\ forwarded' = forwarded \cup seq .. (hi - 1)
                        /\ IsDue(seq) \/ IsAhead(seq)
  BY <1>1, HeaderEffect
<1>3. have_expected /\ m \in Nat /\ m < expected_seq
  BY DEF IInv, TypeOK, Accounted, NoSilentLoss
<1> QED
  BY <1>1, <1>2, <1>3 DEF IsDue, IsAhead, TypeOK

LEMMA StepForwardsOnce ==
  ASSUME IInv, [Next]_vars
  PROVE  [\A n \in forwarded' \ forwarded, m \in forwarded : m < n]_vars
<1>1. ASSUME NEW p \in Packets, NEW clear \in ClearInputs, Header(p[1], p[2], clear),
             NEW n \in forwarded' \ forwarded, NEW m \in forwarded
      PROVE  m < n
  <2>1. p[1] \in Nat /\ p[2] \in Nat /\ clear \in BOOLEAN
    BY PacketTypes, SeqGuardAssumption
  <2> QED
    BY <1>1, <2>1, HeaderForwardsOnce
<1>2. CASE ClearStale
  BY <1>2 DEF ClearStale
<1> QED
  BY <1>1, <1>2 DEF Next

(* At most once and in order, for every behaviour.                         *)
THEOREM ForwardsOnce == Spec => ForwardOnce
BY Inductive, StepForwardsOnce, PTL DEF Spec, ForwardOnce

(* A clear never hides the gap found in the same cycle.                    *)
THEOREM ClearHidesNoGap == Spec => ClearNeverHidesGap
<1>1. ASSUME IInv, [Next]_vars PROVE [reported' # reported => stale']_vars
  <2>1. ASSUME NEW p \in Packets, NEW clear \in ClearInputs, Header(p[1], p[2], clear)
        PROVE  reported' # reported => stale'
    <3>1. p[1] \in Nat /\ p[2] \in Nat /\ clear \in BOOLEAN /\ TypeOK
      BY PacketTypes, SeqGuardAssumption, <1>1 DEF IInv
    <3> QED
      BY <2>1, <3>1, HeaderEffect DEF NoGap, RecordGap
  <2>2. CASE ClearStale
    BY <2>2 DEF ClearStale, NoGap
  <2> QED
    BY <1>1, <2>1, <2>2 DEF Next
<1> QED
  BY <1>1, Inductive, PTL DEF Spec, ClearNeverHidesGap

-----------------------------------------------------------------------------
(* The guard implements the abstract in-order feed: each header is a       *)
(* Start, an Advance or a stutter of InOrderFeed.                          *)
LEMMA StepRefines ==
  ASSUME IInv, [Next]_vars
  PROVE  [Feed!Next]_(Feed!vars)
<1>1. ASSUME NEW p \in Packets, NEW clear \in ClearInputs, Header(p[1], p[2], clear)
      PROVE  [Feed!Next]_(Feed!vars)
  <2>1. p[1] \in Nat /\ p[2] \in Nat /\ clear \in BOOLEAN /\ TypeOK
    BY PacketTypes, SeqGuardAssumption DEF IInv
  <2>2. CASE UNCHANGED <<have_expected, expected_seq, first, forwarded>> /\ NoGap(clear)
    BY <2>2 DEF NoGap, Feed!vars
  <2>3. ASSUME NEW hi \in Nat, p[1] <= hi, hi \in {p[1], PacketEnd(p[1], p[2])},
               Expect(p[1], hi), forwarded' = forwarded \cup p[1] .. (hi - 1),
               \/ NoGap(clear) /\ IsDue(p[1])
               \/ RecordGap(p[1]) /\ IsAhead(p[1])
        PROVE  [Feed!Next]_(Feed!vars)
    <3>1. p[1] \in PacketBounds /\ hi \in PacketBounds
      BY <2>3 DEF PacketBounds
    <3>2. CASE ~have_expected
      <4>1. forwarded = {} /\ reported' = reported
        BY <2>3, <3>2 DEF IInv, Accounted, NoSilentLoss, NoGap, IsAhead
      <4>2. Feed!Start(p[1], hi)
        BY <2>3, <3>2, <4>1 DEF Feed!Start, Expect
      <4> QED
        BY <3>1, <4>2, <2>3 DEF Feed!Next
    <3>3. CASE have_expected /\ NoGap(clear) /\ IsDue(p[1])
      <4>1. p[1] = expected_seq /\ expected_seq .. (p[1] - 1) = {}
        BY <3>3, <2>1 DEF IsDue, TypeOK
      <4>2. Feed!Advance(p[1], hi)
        BY <2>1, <2>3, <3>3, <4>1 DEF Feed!Advance, Expect, NoGap
      <4> QED
        BY <3>1, <4>2, <2>3 DEF Feed!Next
    <3>4. CASE have_expected /\ RecordGap(p[1]) /\ IsAhead(p[1])
      <4>1. Feed!Advance(p[1], hi)
        BY <2>1, <2>3, <3>4 DEF Feed!Advance, Expect, RecordGap, IsAhead, TypeOK
      <4> QED
        BY <3>1, <4>1, <2>3 DEF Feed!Next
    <3> QED
      BY <2>3, <3>2, <3>3, <3>4
  <2> QED
    BY <1>1, <2>1, <2>2, <2>3, HeaderEffect
<1>2. CASE ClearStale
  BY <1>2 DEF ClearStale, NoGap, Feed!vars
<1>3. CASE UNCHANGED vars
  BY <1>3 DEF vars, Feed!vars
<1> QED
  BY <1>1, <1>2, <1>3 DEF Next

THEOREM GuardImplementsFeed == Spec => FeedSpec
<1>1. Init => Feed!Init
  BY DEF Init, Feed!Init
<1> QED
  BY <1>1, Inductive, StepRefines, PTL DEF Spec, FeedSpec, Feed!Spec

-----------------------------------------------------------------------------
(*                2. Words, and the sum of a queue of lengths              *)
-----------------------------------------------------------------------------
Words == {word \in Seq(Nat) : Len(word) <= AXIS_KEEP_W}

(* The length of a message is a number of two bytes, and never zero.       *)
MaxNumber == 256 * 255 + 255
MsgLengths == 1 .. MaxNumber

LEMMA MaxNumberType == MaxNumber \in Nat
BY DEF MaxNumber

LEMMA ByteType ==
  ASSUME NEW byte \in Nat
  PROVE  Value(byte) \in Int /\ 0 <= Value(byte) /\ Value(byte) <= 255
BY DEF Value

LEMMA TwoBytes ==
  ASSUME NEW a \in Int, NEW b \in Int, a <= 255, b <= 255
  PROVE  256 * a + b <= 256 * 255 + 255
OBVIOUS

LEMMA NumberType ==
  ASSUME NEW high \in Nat, NEW low \in Nat
  PROVE  Number(high, low) \in 0 .. MaxNumber
<1>1. /\ Value(high) \in Int /\ 0 <= Value(high) /\ Value(high) <= 255
      /\ Value(low) \in Int /\ 0 <= Value(low) /\ Value(low) <= 255
  BY ByteType
<1>2. Number(high, low) <= MaxNumber
  BY <1>1, TwoBytes DEF Number, MaxNumber
<1>3. Number(high, low) \in Int /\ 0 <= Number(high, low)
  BY <1>1 DEF Number
<1> QED
  BY <1>2, <1>3, MaxNumberType

LEMMA TakingType ==
  ASSUME NEW S, NEW bytes \in Seq(S), NEW n \in Nat
  PROVE  /\ Taking(bytes, n) \in Seq(S)
         /\ Len(Taking(bytes, n)) = Smaller(n, Len(bytes))
<1>1. Smaller(n, Len(bytes)) \in 0 .. Len(bytes)
  BY LenProperties DEF Smaller
<1>2. \A i \in 1 .. Smaller(n, Len(bytes)) : bytes[i] \in S
  BY <1>1, ElementOfSeq
<1> QED
  BY <1>1, <1>2, SubSeqProperties DEF Taking

LEMMA LeavingType ==
  ASSUME NEW S, NEW bytes \in Seq(S), NEW n \in Nat
  PROVE  /\ Leaving(bytes, n) \in Seq(S)
         /\ Len(Leaving(bytes, n)) = IF n <= Len(bytes) THEN Len(bytes) - n ELSE 0
<1>1. Len(bytes) \in Nat /\ n + 1 \in Nat
  BY LenProperties
<1>2. \A i \in n + 1 .. Len(bytes) : bytes[i] \in S
  BY <1>1, ElementOfSeq
<1> QED
  BY <1>1, <1>2, SubSeqProperties DEF Leaving

(* A word has a byte unless it is empty.                                   *)
LEMMA EmptyWord ==
  ASSUME NEW S, NEW bytes \in Seq(S)
  PROVE  /\ Len(bytes) \in Nat
         /\ bytes = <<>> <=> Len(bytes) = 0
BY EmptySeq, LenProperties

-----------------------------------------------------------------------------
LEMMA BytesOfFinite ==
  ASSUME NEW lens \in Seq(MsgLengths)
  PROVE  IsFiniteSet(BytesOf(lens))
<1>1. DOMAIN lens = 1 .. Len(lens) /\ Len(lens) \in Nat
  BY LenProperties
<1>2. IsFiniteSet(1 .. Len(lens)) /\ IsFiniteSet(1 .. MaxNumber)
  BY <1>1, MaxNumberType, FS_Interval
<1>3. IsFiniteSet((1 .. Len(lens)) \X (1 .. MaxNumber))
  BY <1>2, FS_Product
<1>4. \A i \in 1 .. Len(lens) : lens[i] \in 1 .. MaxNumber
  BY ElementOfSeq DEF MsgLengths
<1>5. BytesOf(lens) \subseteq (1 .. Len(lens)) \X (1 .. MaxNumber)
  <2> SUFFICES ASSUME NEW i \in 1 .. Len(lens), NEW k \in 1 .. lens[i]
               PROVE  k \in 1 .. MaxNumber
    BY <1>1 DEF BytesOf
  <2> QED
    BY <1>1, <1>4, MaxNumberType
<1> QED
  BY <1>3, <1>5, FS_Subset

LEMMA SumOfType ==
  ASSUME NEW lens \in Seq(MsgLengths)
  PROVE  SumOf(lens) \in Nat
BY BytesOfFinite, FS_CardinalityType DEF SumOf

LEMMA SumOfNone == SumOf(<<>>) = 0
<1>1. BytesOf(<<>>) = {}
  <2>1. DOMAIN <<>> = {}
    OBVIOUS
  <2> QED
    BY <2>1 DEF BytesOf
<1> QED
  BY <1>1, FS_EmptySet DEF SumOf

(* One line of k bytes.                                                    *)
LEMMA LineOfBytes ==
  ASSUME NEW i, NEW k \in Nat
  PROVE  IsFiniteSet({i} \X (1 .. k)) /\ Cardinality({i} \X (1 .. k)) = k
<1>1. IsFiniteSet({i}) /\ Cardinality({i}) = 1
  BY FS_Singleton
<1>2. IsFiniteSet(1 .. k) /\ Cardinality(1 .. k) = k
  BY FS_Interval
<1>3. /\ IsFiniteSet({i} \X (1 .. k))
      /\ Cardinality({i} \X (1 .. k)) = Cardinality({i}) * Cardinality(1 .. k)
  BY <1>1, <1>2, FS_Product, Zenon
<1>4. 1 * k = k
  OBVIOUS
<1> QED
  BY <1>1, <1>2, <1>3, <1>4, Zenon

LEMMA SumOfAppend ==
  ASSUME NEW lens \in Seq(MsgLengths), NEW len \in MsgLengths
  PROVE  SumOf(Append(lens, len)) = SumOf(lens) + len
<1> DEFINE n == Len(lens) + 1
           more == Append(lens, len)
<1>1. Len(lens) \in Nat /\ DOMAIN lens = 1 .. Len(lens) /\ len \in Nat
  BY LenProperties DEF MsgLengths
<1>2. /\ more \in Seq(MsgLengths) /\ DOMAIN more = 1 .. n
      /\ \A i \in 1 .. Len(lens) : more[i] = lens[i]
      /\ more[n] = len
  BY AppendProperties, LenProperties
<1>3. BytesOf(more) = BytesOf(lens) \cup ({n} \X (1 .. len))
  <2>1. 1 .. n = (1 .. Len(lens)) \cup {n}
    BY <1>1
  <2> HIDE DEF n, more
  <2> QED
    BY <1>1, <1>2, <2>1 DEF BytesOf
<1>4. BytesOf(lens) \cap ({n} \X (1 .. len)) = {}
  <2>1. n \notin 1 .. Len(lens)
    BY <1>1
  <2> HIDE DEF n, more
  <2> QED
    BY <1>1, <2>1 DEF BytesOf
<1>5. IsFiniteSet({n} \X (1 .. len)) /\ Cardinality({n} \X (1 .. len)) = len
  BY <1>1, LineOfBytes
<1>6. SumOf(more) = SumOf(lens) + len - Cardinality({})
  BY <1>3, <1>4, <1>5, BytesOfFinite, FS_Union DEF SumOf
<1>7. SumOf(lens) \in Nat /\ Cardinality({}) = 0
  BY SumOfType, FS_EmptySet
<1> QED
  BY <1>1, <1>6, <1>7

LEMMA SumOfHeadTail ==
  ASSUME NEW lens \in Seq(MsgLengths), lens # <<>>
  PROVE  SumOf(lens) = Head(lens) + SumOf(Tail(lens))
<1> DEFINE rest == Tail(lens)
           after == BytesOf(lens) \ ({1} \X (1 .. lens[1]))
           f == [pair \in BytesOf(rest) |-> <<pair[1] + 1, pair[2]>>]
<1>1. /\ Len(lens) \in Nat \ {0} /\ DOMAIN lens = 1 .. Len(lens)
      /\ lens[1] \in MsgLengths /\ Head(lens) = lens[1]
  BY EmptySeq, LenProperties, ElementOfSeq
<1>2. /\ rest \in Seq(MsgLengths) /\ DOMAIN rest = 1 .. (Len(lens) - 1)
      /\ \A i \in 1 .. (Len(lens) - 1) : rest[i] = lens[i + 1]
  BY <1>1, HeadTailProperties, LenProperties
<1>3. \A pair : pair \in BytesOf(rest) <=>
        \E i \in 1 .. (Len(lens) - 1) : \E k \in 1 .. lens[i + 1] : pair = <<i, k>>
  BY <1>2 DEF BytesOf
<1>4. \A pair : pair \in after <=>
        \E i \in 2 .. Len(lens) : \E k \in 1 .. lens[i] : pair = <<i, k>>
  <2>1. \A i \in 1 .. Len(lens) : i = 1 \/ i \in 2 .. Len(lens)
    BY <1>1
  <2>2. 2 .. Len(lens) \subseteq 1 .. Len(lens) /\ 1 \notin 2 .. Len(lens)
    BY <1>1
  <2> QED
    BY <1>1, <2>1, <2>2 DEF BytesOf
<1> HIDE DEF rest, after
<1>5. f \in Bijection(BytesOf(rest), after)
  <2>1. f \in [BytesOf(rest) -> after]
    <3> SUFFICES ASSUME NEW i \in 1 .. (Len(lens) - 1), NEW k \in 1 .. lens[i + 1]
                 PROVE  <<i + 1, k>> \in after
      BY <1>3
    <3>1. i + 1 \in 2 .. Len(lens)
      BY <1>1
    <3> QED
      BY <3>1, <1>4
  <2>2. \A p, q \in BytesOf(rest) : f[p] = f[q] => p = q
    <3> SUFFICES ASSUME NEW i \in 1 .. (Len(lens) - 1), NEW k \in 1 .. lens[i + 1],
                        NEW j \in 1 .. (Len(lens) - 1), NEW l \in 1 .. lens[j + 1],
                        <<i + 1, k>> = <<j + 1, l>>
                 PROVE  <<i, k>> = <<j, l>>
      BY <1>3
    <3>1. i + 1 = j + 1 /\ k = l
      OBVIOUS
    <3> QED
      BY <3>1
  <2>3. \A q \in after : \E p \in BytesOf(rest) : f[p] = q
    <3> SUFFICES ASSUME NEW q \in after
                 PROVE  \E p \in BytesOf(rest) : f[p] = q
      OBVIOUS
    <3>0. PICK i \in 2 .. Len(lens) : \E k \in 1 .. lens[i] : q = <<i, k>>
      BY <1>4
    <3>4. PICK k \in 1 .. lens[i] : q = <<i, k>>
      BY <3>0
    <3>1. i - 1 \in 1 .. (Len(lens) - 1) /\ (i - 1) + 1 = i
      BY <1>1
    <3>2. <<i - 1, k>> \in BytesOf(rest)
      BY <3>1, <1>3
    <3>3. f[<<i - 1, k>>] = <<i, k>>
      BY <3>1, <3>2
    <3> QED
      BY <3>2, <3>3, <3>4
  <2> HIDE DEF f
  <2> QED
    BY <2>1, <2>2, <2>3 DEF Bijection, Injection, Surjection, IsInjective
<1>6. IsFiniteSet(after) /\ Cardinality(after) = SumOf(rest)
  BY <1>2, <1>5, BytesOfFinite, FS_Bijection DEF ExistsBijection, SumOf
<1>7. /\ BytesOf(lens) = after \cup ({1} \X (1 .. lens[1]))
      /\ after \cap ({1} \X (1 .. lens[1])) = {}
  BY <1>1 DEF after, BytesOf
<1>8. /\ IsFiniteSet({1} \X (1 .. lens[1]))
      /\ Cardinality({1} \X (1 .. lens[1])) = lens[1]
  <2>1. lens[1] \in Nat
    BY <1>1 DEF MsgLengths
  <2> QED
    BY <2>1, LineOfBytes
<1>9. SumOf(lens) = SumOf(rest) + lens[1] - Cardinality({})
  BY <1>6, <1>7, <1>8, FS_Union DEF SumOf
<1>10. SumOf(rest) \in Nat /\ Cardinality({}) = 0 /\ lens[1] \in Nat
  BY <1>1, <1>2, SumOfType, FS_EmptySet DEF MsgLengths
<1> QED
  BY <1>1, <1>9, <1>10 DEF rest

(* A queue that announces nothing is empty.                                *)
LEMMA SumOfZero ==
  ASSUME NEW lens \in Seq(MsgLengths), SumOf(lens) = 0
  PROVE  lens = <<>>
<1> SUFFICES ASSUME lens # <<>> PROVE FALSE
  OBVIOUS
<1>1. Head(lens) \in MsgLengths /\ Tail(lens) \in Seq(MsgLengths)
  BY HeadTailProperties
<1>2. SumOf(Tail(lens)) \in Nat /\ 0 = Head(lens) + SumOf(Tail(lens))
  BY <1>1, SumOfType, SumOfHeadTail
<1> QED
  BY <1>1, <1>2 DEF MsgLengths

-----------------------------------------------------------------------------
(*              3. What the registers hold, stage by stage                 *)
-----------------------------------------------------------------------------
SourceInv ==
  /\ feed \in Feeds
  /\ frame_idx \in Nat \ {0}
  /\ beat_no \in Nat \ {0}

CrackInv ==
  /\ fc_dgram_len \in Nat
  /\ fc_payload_left \in Nat
  /\ carry_bytes \in Words
  /\ m_axis.bytes \in Words

LEMMA NoWordIsAWord == <<>> \in Words
BY EmptySeq DEF Words, AXIS_KEEP_W

LEMMA WordLength ==
  ASSUME NEW word \in Words
  PROVE  word \in Seq(Nat) /\ Len(word) \in Nat /\ Len(word) <= 8
BY LenProperties DEF Words, AXIS_KEEP_W

LEMMA AWord ==
  ASSUME NEW word \in Seq(Nat), Len(word) <= 8
  PROVE  word \in Words
BY DEF Words, AXIS_KEEP_W

LEMMA TakingWord ==
  ASSUME NEW bytes \in Seq(Nat), NEW n \in Nat, n <= 8 \/ Len(bytes) <= 8
  PROVE  Taking(bytes, n) \in Words
<1>1. /\ Taking(bytes, n) \in Seq(Nat) /\ Len(bytes) \in Nat
      /\ Len(Taking(bytes, n)) = Smaller(n, Len(bytes))
  BY TakingType, LenProperties
<1>2. Smaller(n, Len(bytes)) <= 8
  BY <1>1 DEF Smaller
<1> QED
  BY <1>1, <1>2, AWord

(* The frame on the wire, and its beats of at most eight bytes.            *)
LEMMA FrameOnTheWire ==
  ASSUME SourceInv, ~AllSent
  PROVE  frame_now \in Frames
<1>1. feed.frames \in Seq(Frames)
  BY FeedsAssumption DEF SourceInv
<1>2. frame_idx \in 1 .. Len(feed.frames)
  BY <1>1, LenProperties DEF SourceInv, AllSent
<1> QED
  BY <1>1, <1>2, ElementOfSeq DEF frame_now

LEMMA BeatIsAWord ==
  ASSUME NEW frame \in Frames, NEW k \in Nat
  PROVE  BeatPayload(frame, k) \in Words
<1>1. frame.payload \in Seq(Nat)
  BY DEF Frames
<1>2. CASE k <= HEADER_BEATS
  BY <1>2, NoWordIsAWord DEF BeatPayload
<1>3. CASE k = HEADER_BEATS + 1
  <2>1. Taking(frame.payload, 6) \in Words
    BY <1>1, TakingWord
  <2> QED
    BY <1>3, <2>1 DEF BeatPayload, HEADER_BEATS, CHECK_BEAT, CARRY_LANES
<1>4. CASE k > HEADER_BEATS + 1
  <2> DEFINE passed == 6 + (k - 5 - 2) * 8
  <2>1. passed \in Nat
    BY <1>4 DEF HEADER_BEATS, CHECK_BEAT
  <2>2. Leaving(frame.payload, passed) \in Seq(Nat)
    BY <1>1, <2>1, LeavingType
  <2>3. Taking(Leaving(frame.payload, passed), 8) \in Words
    BY <2>2, TakingWord
  <2> QED
    BY <1>4, <2>3 DEF BeatPayload, HEADER_BEATS, CHECK_BEAT, CARRY_LANES, LANES
<1> QED
  BY <1>2, <1>3, <1>4 DEF HEADER_BEATS, CHECK_BEAT

LEMMA SourceKeeps ==
  ASSUME SourceInv, NEW fires, SourceStep(fires)
  PROVE  SourceInv'
BY DEF SourceInv, SourceStep

-----------------------------------------------------------------------------
(* The cracker.  A beat taken in is a word, and so is all that is carried. *)
LEMMA EndOrDrainKeeps ==
  ASSUME NEW last, EndOrDrain(last)
  PROVE  fc_payload_left' = 0 /\ carry_bytes' = <<>>
BY DEF EndOrDrain, clear_frame_state

LEMMA PayloadEndsKeeps ==
  ASSUME NEW carry \in Words, NEW start, NEW last, PayloadEnds(carry, start, last)
  PROVE  fc_payload_left' = 0 /\ carry_bytes' \in Words
BY EndOrDrainKeeps, NoWordIsAWord DEF PayloadEnds

LEMMA TakenType ==
  ASSUME CrackInv, NEW beat, beat.payload \in Words
  PROVE  /\ Taken(beat) \in Nat
         /\ fc_payload_left - Taken(beat) \in Nat
         /\ Taking(beat.payload, Taken(beat)) \in Words
<1>1. /\ beat.payload \in Seq(Nat) /\ Len(beat.payload) \in Nat /\ Len(beat.payload) <= 8
      /\ fc_payload_left \in Nat
  BY WordLength DEF CrackInv
<1>2. Taken(beat) \in Nat /\ fc_payload_left - Taken(beat) \in Nat
  BY <1>1 DEF Taken, Smaller
<1> QED
  BY <1>1, <1>2, TakingWord

LEMMA CarryTypes ==
  ASSUME NEW old \in Words, NEW new \in Words
  PROVE  Taking(old \o new, LANES) \in Words /\ Leaving(old \o new, LANES) \in Words
<1>1. /\ old \in Seq(Nat) /\ Len(old) \in Nat /\ Len(old) <= 8
      /\ new \in Seq(Nat) /\ Len(new) \in Nat /\ Len(new) <= 8
  BY WordLength
<1>2. old \o new \in Seq(Nat) /\ Len(old \o new) = Len(old) + Len(new)
  BY <1>1, ConcatProperties
<1>3. Taking(old \o new, 8) \in Words
  <2>1. 8 \in Nat /\ 8 <= 8
    OBVIOUS
  <2> QED
    BY <1>2, <2>1, TakingWord
<1>4. /\ Leaving(old \o new, 8) \in Seq(Nat)
      /\ Len(Leaving(old \o new, 8)) = IF 8 <= Len(old \o new) THEN Len(old \o new) - 8 ELSE 0
  BY <1>2, LeavingType
<1>5. Len(Leaving(old \o new, 8)) <= 8
  BY <1>1, <1>2, <1>4
<1> QED
  BY <1>3, <1>4, <1>5, AWord DEF LANES

LEMMA CrackKeeps ==
  ASSUME CrackInv, NEW valid, NEW beat, NEW m_ready,
         valid => beat.payload \in Words /\ beat.declared \in Nat,
         FrameCrackStep(valid, beat, m_ready)
  PROVE  CrackInv'
<1> DEFINE Waiting == m_axis' = AfterHandshake(m_ready)
<1>0. Waiting => m_axis'.bytes \in Words
  BY NoWordIsAWord DEF AfterHandshake, NoBeat, CrackInv
<1>1. CASE FlushCarry(m_ready)
  <2>1. m_axis'.bytes = carry_bytes /\ fc_dgram_len' = fc_dgram_len
    BY <1>1 DEF FlushCarry, emit_word
  <2>2. /\ fc_payload_left' \in {0, fc_payload_left}
        /\ carry_bytes' = <<>>
    BY <1>1 DEF FlushCarry, clear_frame_state
  <2> QED
    BY <2>1, <2>2, NoWordIsAWord DEF CrackInv
<1>2. CASE valid /\ HeaderBeat(beat) /\ Waiting
  BY <1>0, <1>2, NoWordIsAWord DEF HeaderBeat, clear_frame_state, CrackInv
<1>3. CASE valid /\ CheckHeaders(beat) /\ Waiting
  <2>1. CASE ~beat.ok \/ beat.last
    <3>1. fc_payload_left' = 0 /\ carry_bytes' = <<>> /\ fc_dgram_len' = fc_dgram_len
      BY <1>3, <2>1, EndOrDrainKeeps DEF CheckHeaders
    <3> QED
      BY <1>0, <1>3, <3>1, NoWordIsAWord DEF CrackInv
  <2>2. CASE ~(~beat.ok \/ beat.last)
    BY <1>0, <1>3, <2>2 DEF CheckHeaders, CrackInv
  <2> QED
    BY <2>1, <2>2
<1>4. CASE valid /\ FirstPayload(beat) /\ Waiting
  <2> DEFINE left  == fc_payload_left - Taken(beat)
             carry == Taking(beat.payload, Taken(beat))
  <2>1. left \in Nat /\ carry \in Words
    BY <1>4, TakenType
  <2>2. fc_dgram_len' = fc_dgram_len
    BY <1>4 DEF FirstPayload
  <2>3. \/ clear_frame_state
        \/ PayloadEnds(carry, start_pending, beat.last)
        \/ PayloadGoesOn(carry, start_pending, left)
    BY <1>4 DEF FirstPayload
  <2> HIDE DEF left, carry
  <2>4. fc_payload_left' \in Nat /\ carry_bytes' \in Words
    BY <2>1, <2>3, PayloadEndsKeeps, NoWordIsAWord DEF clear_frame_state, PayloadGoesOn
  <2> QED
    BY <1>0, <1>4, <2>2, <2>4 DEF CrackInv
<1>5. CASE valid /\ Payload(beat, m_ready)
  <2> DEFINE left  == fc_payload_left - Taken(beat)
             whole == carry_bytes \o Taking(beat.payload, Taken(beat))
             word  == Taking(whole, LANES)
             carry == Leaving(whole, LANES)
  <2>1. left \in Nat /\ Taking(beat.payload, Taken(beat)) \in Words
    BY <1>5, TakenType
  <2>2. word \in Words /\ carry \in Words
    BY <2>1, CarryTypes DEF CrackInv
  <2>3. fc_dgram_len' = fc_dgram_len
    BY <1>5 DEF Payload
  <2>4. \/ clear_frame_state /\ Waiting
        \/ emit_word(word, carry = <<>>) /\ PayloadEnds(carry, FALSE, beat.last)
        \/ emit_word(word, FALSE) /\ PayloadGoesOn(carry, FALSE, left)
    BY <1>5 DEF Payload
  <2> HIDE DEF left, whole, word, carry
  <2>5. CASE clear_frame_state /\ Waiting
    BY <1>0, <2>3, <2>5, NoWordIsAWord DEF clear_frame_state, CrackInv
  <2>6. CASE emit_word(word, carry = <<>>) /\ PayloadEnds(carry, FALSE, beat.last)
    <3>1. fc_payload_left' = 0 /\ carry_bytes' \in Words
      BY <2>2, <2>6, PayloadEndsKeeps
    <3>2. m_axis'.bytes = word
      BY <2>6 DEF emit_word
    <3> QED
      BY <2>2, <2>3, <3>1, <3>2 DEF CrackInv
  <2>7. CASE emit_word(word, FALSE) /\ PayloadGoesOn(carry, FALSE, left)
    <3>1. m_axis'.bytes = word
      BY <2>7 DEF emit_word
    <3> QED
      BY <2>1, <2>2, <2>3, <2>7, <3>1 DEF PayloadGoesOn, CrackInv
  <2> QED
    BY <2>4, <2>5, <2>6, <2>7
<1>6. CASE valid /\ DrainBeat(beat) /\ Waiting
  BY <1>0, <1>6, NoWordIsAWord DEF DrainBeat, clear_frame_state, CrackInv
<1>7. CASE /\ Waiting
           /\ UNCHANGED <<fc_state, beat_idx, fc_dgram_len, fc_payload_left, carry_bytes,
                          start_pending, flush_pending, reset_after_flush>>
  BY <1>0, <1>7 DEF CrackInv
<1> QED
  BY <1>1, <1>2, <1>3, <1>4, <1>5, <1>6, <1>7 DEF FrameCrackStep


-----------------------------------------------------------------------------
(* The deframer.  Beats are the words that hold at least one byte.         *)
Beats == Words \ {<<>>}

ParserInv ==
  /\ seq_o \in 0 .. MaxNumber
  /\ count_o \in 0 .. MaxNumber
  /\ body_fifo \in Seq(Beats)
  /\ Len(body_fifo) <= BODY_FIFO_DEPTH
  /\ state = "HEADER" => body_fifo = <<>>
  /\ payload_left \in Nat
  /\ len_hi \in Seq(Nat)
  /\ Len(len_hi) <= 1

FoundInv ==
  /\ desc.bytes \in Words
  /\ len_fifo \in Seq(MsgLengths)
  /\ Len(len_fifo) <= MD_LEN_FIFO_DEPTH

OutputInv ==
  /\ compact.bytes \in Words
  /\ reservoir \in Seq(Nat)
  /\ Len(reservoir) <= RESERVOIR_BYTES
  /\ m_payload.bytes \in Words
  /\ released_bytes \in Nat

(* The head word, what the current message takes of it, and the rest.      *)
LEMMA TailFacts ==
  ASSUME ParserInv, body_fifo # <<>>
  PROVE  /\ body_head \in Seq(Nat) /\ Len(body_head) \in Nat
         /\ 0 < Len(body_head) /\ Len(body_head) <= 8
         /\ TailTaken \in Nat /\ TailTaken <= Len(body_head) /\ TailTaken <= payload_left
         /\ Rest \in Seq(Nat) /\ Len(Rest) = Len(body_head) - TailTaken
         /\ Rest # <<>> <=> Len(Rest) > 0
         /\ Rest # <<>> => payload_left = TailTaken
<1>1. body_head \in Beats
  BY HeadTailProperties DEF ParserInv, body_head
<1>2. /\ body_head \in Seq(Nat) /\ Len(body_head) \in Nat
      /\ 0 < Len(body_head) /\ Len(body_head) <= 8
  BY <1>1, WordLength, EmptyWord DEF Beats
<1>3. payload_left \in Nat
  BY DEF ParserInv
<1>4. /\ TailTaken \in Nat /\ TailTaken <= Len(body_head) /\ TailTaken <= payload_left
      /\ TailTaken < Len(body_head) => payload_left = TailTaken
  BY <1>2, <1>3 DEF TailTaken, Smaller
<1>5. Rest \in Seq(Nat) /\ Len(Rest) = Len(body_head) - TailTaken
  BY <1>2, <1>4, LeavingType DEF Rest
<1>6. Rest # <<>> <=> Len(Rest) > 0
  BY <1>5, EmptyWord
<1> QED
  BY <1>2, <1>4, <1>5, <1>6

LEMMA PrefixBytesType ==
  ASSUME ParserInv
  PROVE  /\ Len(len_hi) \in Nat /\ PrefixBytes \in Nat
         /\ 1 <= PrefixBytes /\ PrefixBytes <= 2
         /\ Len(len_hi) + PrefixBytes = 2
<1>1. Len(len_hi) \in Nat /\ Len(len_hi) <= 1
  BY LenProperties DEF ParserInv
<1> QED
  BY <1>1 DEF PrefixBytes

(* The length that is found, and the part of its message in this word.     *)
LEMMA PrefixFacts ==
  ASSUME ParserInv, body_fifo # <<>>, HasPrefix
  PROVE  /\ PrefixValue \in 0 .. MaxNumber
         /\ PayloadTaken \in Nat /\ PayloadTaken <= PrefixValue
         /\ PayloadTaken <= Len(Rest) - PrefixBytes
<1> DEFINE prefix == len_hi \o Taking(Rest, PrefixBytes)
<1>1. Rest \in Seq(Nat) /\ Len(Rest) \in Nat /\ len_hi \in Seq(Nat)
  BY TailFacts, LenProperties DEF ParserInv
<1>2. PrefixBytes \in Nat /\ PrefixBytes <= Len(Rest)
  BY PrefixBytesType, <1>1 DEF HasPrefix
<1>3. /\ Taking(Rest, PrefixBytes) \in Seq(Nat)
      /\ Len(Taking(Rest, PrefixBytes)) = PrefixBytes
  BY <1>1, <1>2, TakingType DEF Smaller
<1>4. prefix \in Seq(Nat) /\ Len(prefix) = 2
  BY <1>1, <1>3, ConcatProperties, PrefixBytesType
<1>5. prefix[1] \in Nat /\ prefix[2] \in Nat
  <2> HIDE DEF prefix
  <2>1. 1 \in 1 .. Len(prefix) /\ 2 \in 1 .. Len(prefix)
    BY <1>4
  <2> QED
    BY <1>4, <2>1, ElementOfSeq
<1>6. PrefixValue = Number(prefix[1], prefix[2])
  BY DEF PrefixValue
<1>7. PrefixValue \in 0 .. MaxNumber
  <2> HIDE DEF prefix
  <2> QED
    BY <1>5, <1>6, NumberType
<1>8. PrefixValue \in Nat /\ Len(Rest) - PrefixBytes \in Nat
  BY <1>1, <1>2, <1>7, MaxNumberType
<1> QED
  BY <1>7, <1>8 DEF PayloadTaken, Smaller

(* What one step of the parser does, fault aside: it takes no more than    *)
(* the head word, what it hands on is a word, and the bytes of the current *)
(* message and of the length it finds are handed on or still to come.      *)
ParseSound ==
  /\ Parse.consumed \in Nat /\ Parse.consumed <= Len(body_head)
  /\ Parse.payload \in Words
  /\ Parse.left \in Nat
  /\ Parse.hi \in Seq(Nat) /\ Len(Parse.hi) <= 1
  /\ Parse.length \in 0 .. MaxNumber
  /\ payload_left + Parse.length = Len(Parse.payload) + Parse.left
  /\ Parse.last => Parse.left = 0 /\ Parse.payload # <<>>

LEMMA OutcomeFields ==
  ASSUME NEW consumed, NEW payload, NEW messages, NEW left, NEW hi, NEW length, NEW last
  PROVE  LET p == Outcome(consumed, payload, messages, left, hi, length, last)
         IN  /\ p.consumed = consumed /\ p.payload = payload /\ p.left = left
             /\ p.hi = hi /\ p.length = length /\ p.last = last
BY DEF Outcome

LEMMA ParseSteps ==
  ASSUME ParserInv, body_fifo # <<>>, ~Parse.fault
  PROVE  ParseSound
<1>a. /\ body_head \in Seq(Nat) /\ Len(body_head) \in Nat
      /\ 0 < Len(body_head) /\ Len(body_head) <= 8
  BY TailFacts
<1>b. TailTaken \in Nat /\ TailTaken <= Len(body_head) /\ TailTaken <= payload_left
  BY TailFacts
<1>c. /\ Rest \in Seq(Nat) /\ Len(Rest) = Len(body_head) - TailTaken
      /\ Rest # <<>> <=> Len(Rest) > 0
      /\ Rest # <<>> => payload_left = TailTaken
  BY TailFacts
<1>d. PrefixBytes \in Nat /\ 1 <= PrefixBytes /\ PrefixBytes <= 2
  BY PrefixBytesType
<1>0. payload_left \in Nat
  BY DEF ParserInv
<1>1. CASE Rest = <<>>
  <2>1. Parse = ParseTailOnly
    BY <1>1 DEF Parse
  <2>2. Parse = Outcome(TailTaken, body_head, AfterTail, payload_left - TailTaken, <<>>, 0,
                        TailEnds /\ AfterTail = 0)
    BY <2>1 DEF ParseTailOnly, Fault
  <2>3. /\ Parse.consumed = TailTaken /\ Parse.payload = body_head
        /\ Parse.left = payload_left - TailTaken /\ Parse.hi = <<>> /\ Parse.length = 0
        /\ Parse.last = (TailEnds /\ AfterTail = 0)
    BY <2>2, OutcomeFields
  <2>4. TailTaken = Len(body_head)
    BY <1>1, <1>a, <1>b, <1>c
  <2>5. body_head \in Words /\ body_head # <<>>
    BY <1>a, AWord, EmptyWord
  <2>6. <<>> \in Seq(Nat) /\ Len(<<>>) <= 1
    BY EmptySeq
  <2>7. Parse.last => Parse.left = 0
    <3>1. TailEnds => payload_left - TailTaken = 0
      BY <1>0, <1>b DEF TailEnds
    <3> QED
      BY <2>3, <3>1, Zenon
  <2>8. 0 \in 0 .. MaxNumber
    BY MaxNumberType
  <2>9. payload_left + 0 = Len(body_head) + (payload_left - TailTaken)
    BY <1>0, <1>a, <2>4
  <2>10. payload_left - TailTaken \in Nat
    BY <1>0, <1>b
  <2> QED
    BY <1>b, <2>3, <2>5, <2>6, <2>7, <2>8, <2>9, <2>10 DEF ParseSound
<1>2. CASE Rest # <<>> /\ ~HasPrefix
  <2>1. Parse = ParseSplitPrefix
    BY <1>2 DEF Parse, Fault
  <2>2. /\ Parse.consumed = TailTaken + 1 /\ Parse.payload = Taking(body_head, TailTaken)
        /\ Parse.left = 0 /\ Parse.hi = Rest /\ Parse.length = 0 /\ Parse.last = FALSE
    BY <2>1, Zenon DEF ParseSplitPrefix, Outcome
  <2>3. Len(Rest) = 1
    BY <1>2, <1>a, <1>b, <1>c, <1>d DEF HasPrefix
  <2>4. Taking(body_head, TailTaken) \in Words
    BY <1>a, <1>b, TakingWord
  <2>5. Len(Taking(body_head, TailTaken)) = TailTaken
    BY <1>a, <1>b, TakingType DEF Smaller
  <2>6. 0 \in 0 .. MaxNumber
    BY MaxNumberType
  <2>7. TailTaken + 1 \in Nat /\ TailTaken + 1 <= Len(body_head)
    BY <2>3, <1>a, <1>b, <1>c
  <2>8. payload_left + 0 = TailTaken + 0
    BY <1>0, <1>2, <1>c
  <2>9. Parse.last => Parse.left = 0 /\ Parse.payload # <<>>
    BY <2>2, Zenon
  <2>10. Len(Rest) <= 1 /\ 0 \in Nat
    BY <2>3
  <2> QED
    BY <1>c, <2>2, <2>4, <2>5, <2>6, <2>7, <2>8, <2>9, <2>10 DEF ParseSound
<1>3. CASE Rest # <<>> /\ HasPrefix
  <2> DEFINE consumed == TailTaken + PrefixBytes + PayloadTaken
             behind == SubSeq(Rest, PrefixBytes + 1, PrefixBytes + PayloadTaken)
             payload == Taking(body_head, TailTaken) \o behind
             messages == IF WholeInWord THEN AfterTail - 1 ELSE AfterTail
             ends == WholeInWord /\ messages = 0
  <2>1. Parse = ParsePrefix
    BY <1>3 DEF Parse, Fault
  <2>2. LengthFits /\ Parse = Outcome(consumed, payload, messages,
                                      PrefixValue - PayloadTaken, <<>>, PrefixValue, ends)
    BY <2>1 DEF ParsePrefix, Fault
  <2> HIDE DEF consumed, behind, payload, messages, ends
  <2>3. /\ Parse.consumed = consumed /\ Parse.payload = payload
        /\ Parse.left = PrefixValue - PayloadTaken /\ Parse.hi = <<>>
        /\ Parse.length = PrefixValue /\ Parse.last = ends
    BY <2>2, OutcomeFields
  <2>4. /\ PrefixValue \in 0 .. MaxNumber /\ PrefixValue \in Nat
        /\ PayloadTaken \in Nat /\ PayloadTaken <= PrefixValue
        /\ PayloadTaken <= Len(Rest) - PrefixBytes
    BY <1>3, PrefixFacts, MaxNumberType
  <2>5. consumed \in Nat /\ consumed <= Len(body_head)
    BY <2>4, <1>a, <1>b, <1>c, <1>d DEF consumed
  <2>6. behind \in Seq(Nat) /\ Len(behind) = PayloadTaken
    <3>1. Len(Rest) \in Nat /\ PrefixBytes + PayloadTaken <= Len(Rest)
      BY <2>4, <1>a, <1>b, <1>c, <1>d
    <3>2. \A i \in PrefixBytes + 1 .. PrefixBytes + PayloadTaken : Rest[i] \in Nat
      <4> SUFFICES ASSUME NEW i \in PrefixBytes + 1 .. PrefixBytes + PayloadTaken
                   PROVE  i \in 1 .. Len(Rest)
        BY <1>c, ElementOfSeq
      <4> QED
        BY <2>4, <3>1, <1>d
    <3>3. PrefixBytes + 1 \in Int /\ PrefixBytes + PayloadTaken \in Int
      BY <2>4, <1>d
    <3> DEFINE from == PrefixBytes + 1
               to   == PrefixBytes + PayloadTaken
    <3>4. behind = SubSeq(Rest, from, to)
      BY Zenon DEF behind
    <3>5. from \in Int /\ to \in Int /\ to - from + 1 = PayloadTaken
      BY <2>4, <1>d
    <3> HIDE DEF from, to
    <3>6. /\ SubSeq(Rest, from, to) \in Seq(Nat)
          /\ Len(SubSeq(Rest, from, to)) = IF from <= to THEN to - from + 1 ELSE 0
      BY <3>2, <3>3, SubSeqProperties DEF from, to
    <3> QED
      BY <2>4, <3>4, <3>5, <3>6
  <2>7. /\ Taking(body_head, TailTaken) \in Seq(Nat)
        /\ Len(Taking(body_head, TailTaken)) = TailTaken
    BY <1>a, <1>b, TakingType DEF Smaller
  <2>8. payload \in Seq(Nat) /\ Len(payload) = TailTaken + PayloadTaken
    BY <2>6, <2>7, ConcatProperties DEF payload
  <2>9. payload \in Words
    <3>1. TailTaken + PayloadTaken <= 8
      BY <2>4, <1>a, <1>b, <1>c, <1>d
    <3> QED
      BY <2>8, <3>1, AWord
  <2>10. payload_left + PrefixValue = Len(payload) + (PrefixValue - PayloadTaken)
    BY <1>0, <1>3, <1>c, <1>b, <2>4, <2>8
  <2>11. ends => PrefixValue - PayloadTaken = 0 /\ payload # <<>>
    <3>1. PrefixValue # 0
      BY <2>2 DEF LengthFits
    <3>2. ends => PrefixValue = PayloadTaken
      BY DEF ends, WholeInWord
    <3>3. ends => Len(payload) > 0
      BY <2>4, <2>8, <3>1, <3>2, <1>b
    <3> QED
      BY <2>4, <2>8, <3>2, <3>3, EmptyWord
  <2>12. <<>> \in Seq(Nat) /\ Len(<<>>) <= 1 /\ PrefixValue - PayloadTaken \in Nat
    BY <2>4, EmptySeq
  <2> QED
    BY <2>3, <2>4, <2>5, <2>9, <2>10, <2>11, <2>12 DEF ParseSound
<1> QED
  BY <1>1, <1>2, <1>3


-----------------------------------------------------------------------------
(* What the input puts into the body FIFO, and what stays of its head.     *)
LEMMA PushedType ==
  ASSUME NEW beat, NEW declared, beat.bytes \in Words
  PROVE  LET pushed == Pushed(InputFire(beat), beat, declared)
         IN  /\ pushed \in Seq(Beats) /\ Len(pushed) <= 1
             /\ ~InputFire(beat) => pushed = <<>>
             /\ state = "HEADER" /\ ~(InputFire(beat) /\ header_beat_idx = 2)
                  => pushed = <<>>
             /\ InputFault(InputFire(beat), beat, declared) => pushed = <<>>
<1> DEFINE pushed == Pushed(InputFire(beat), beat, declared)
           fault  == InputFault(InputFire(beat), beat, declared)
<1>1. /\ <<>> \in Seq(Beats) /\ Len(<<>>) = 0
  BY EmptySeq
<1>2. \A word \in Beats : <<word>> \in Seq(Beats) /\ Len(<<word>>) = 1
  OBVIOUS
<1>3. InputFire(beat) => beat.bytes \in Beats
  BY DEF InputFire, Beats
<1>4. Len(beat.bytes) > 4 => Leaving(beat.bytes, 4) \in Beats
  <2>1. beat.bytes \in Seq(Nat) /\ Len(beat.bytes) \in Nat /\ Len(beat.bytes) <= 8
    BY WordLength
  <2>2. 4 \in Nat
    OBVIOUS
  <2>3. /\ Leaving(beat.bytes, 4) \in Seq(Nat)
        /\ Len(Leaving(beat.bytes, 4))
             = IF 4 <= Len(beat.bytes) THEN Len(beat.bytes) - 4 ELSE 0
    BY <2>1, <2>2, LeavingType
  <2>4. Len(beat.bytes) > 4 => /\ Len(Leaving(beat.bytes, 4)) > 0
                               /\ Len(Leaving(beat.bytes, 4)) <= 8
    BY <2>1, <2>3
  <2> QED
    BY <2>3, <2>4, AWord, EmptyWord DEF Beats
<1>5. CASE ~InputFire(beat) \/ fault
  <2>1. pushed = <<>>
    BY <1>5 DEF Pushed
  <2> QED
    BY <1>1, <2>1
<1>6. CASE ~(~InputFire(beat) \/ fault)
  <2>1. \/ pushed = <<>>
        \/ /\ state = "HEADER" /\ header_beat_idx = 2 /\ Len(beat.bytes) > 4
           /\ pushed = <<Leaving(beat.bytes, 4)>>
        \/ state \in {"GUARD", "BODY"} /\ pushed = <<beat.bytes>>
    BY <1>6 DEF Pushed
  <2> HIDE DEF pushed, fault
  <2>2. pushed \in Seq(Beats) /\ Len(pushed) <= 1
    <3>1. CASE pushed = <<>>
      BY <1>1, <3>1
    <3>2. CASE Len(beat.bytes) > 4 /\ pushed = <<Leaving(beat.bytes, 4)>>
      BY <1>2, <1>4, <3>2
    <3>3. CASE pushed = <<beat.bytes>>
      BY <1>2, <1>3, <1>6, <3>3
    <3> QED
      BY <2>1, <3>1, <3>2, <3>3
  <2>3. state = "HEADER" /\ ~(InputFire(beat) /\ header_beat_idx = 2) => pushed = <<>>
    BY <1>6, <2>1
  <2> QED
    BY <1>6, <2>2, <2>3 DEF pushed, fault
<1> QED
  BY <1>5, <1>6

(* A beat is only taken in when the body FIFO has room for it.             *)
LEMMA BodyFits ==
  ASSUME ParserInv, NEW beat, NEW declared, beat.bytes \in Words,
         state \in {"HEADER", "GUARD", "BODY"},
         NEW queue \in Seq(Beats), Len(queue) <= Len(body_fifo)
  PROVE  LET after == queue \o Pushed(InputFire(beat), beat, declared)
         IN  after \in Seq(Beats) /\ Len(after) <= BODY_FIFO_DEPTH
<1> DEFINE pushed == Pushed(InputFire(beat), beat, declared)
<1>1. /\ pushed \in Seq(Beats) /\ Len(pushed) <= 1
      /\ ~InputFire(beat) => pushed = <<>>
  BY PushedType
<1>2. /\ body_fifo \in Seq(Beats) /\ Len(body_fifo) \in Nat /\ Len(body_fifo) <= 4
      /\ state = "HEADER" => body_fifo = <<>>
  BY LenProperties DEF ParserInv, BODY_FIFO_DEPTH
<1>3. InputFire(beat) => Len(body_fifo) < 4
  <2>1. state = "HEADER" => Len(body_fifo) = 0
    BY <1>2, EmptyWord
  <2> QED
    BY <2>1 DEF InputFire, s_axis_tready_o, BODY_FIFO_DEPTH
<1>4. Len(pushed) \in Nat /\ Len(queue) \in Nat /\ (pushed = <<>> => Len(pushed) = 0)
  BY <1>1, EmptyWord
<1> HIDE DEF pushed
<1>5. queue \o pushed \in Seq(Beats) /\ Len(queue \o pushed) = Len(queue) + Len(pushed)
  BY <1>1, ConcatProperties
<1>6. Len(queue) + Len(pushed) <= 4
  BY <1>1, <1>2, <1>3, <1>4
<1> QED
  BY <1>5, <1>6 DEF pushed, BODY_FIFO_DEPTH

LEMMA ConsumingType ==
  ASSUME ParserInv, body_fifo # <<>>, NEW n \in Nat, n <= Len(body_head)
  PROVE  AfterConsuming(n) \in Seq(Beats) /\ Len(AfterConsuming(n)) <= Len(body_fifo)
<1>1. /\ body_fifo \in Seq(Beats) /\ Len(body_fifo) \in Nat
      /\ Tail(body_fifo) \in Seq(Beats) /\ Len(Tail(body_fifo)) = Len(body_fifo) - 1
  BY HeadTailProperties, LenProperties DEF ParserInv
<1>2. CASE n = Len(body_head)
  BY <1>1, <1>2 DEF AfterConsuming
<1>3. CASE n # Len(body_head)
  <2>1. /\ body_head \in Seq(Nat) /\ Len(body_head) \in Nat /\ Len(body_head) <= 8
    BY TailFacts
  <2>2. /\ Leaving(body_head, n) \in Seq(Nat)
        /\ Len(Leaving(body_head, n)) = Len(body_head) - n
    BY <2>1, LeavingType
  <2>3. Len(Leaving(body_head, n)) > 0 /\ Len(Leaving(body_head, n)) <= 8
    BY <1>3, <2>1, <2>2
  <2>4. Leaving(body_head, n) \in Beats
    BY <2>2, <2>3, AWord, EmptyWord DEF Beats
  <2>5. /\ <<Leaving(body_head, n)>> \in Seq(Beats)
        /\ Len(<<Leaving(body_head, n)>>) = 1
    BY <2>4
  <2>6. AfterConsuming(n) = <<Leaving(body_head, n)>> \o Tail(body_fifo)
    BY <1>3 DEF AfterConsuming
  <2> QED
    BY <1>1, <2>5, <2>6, ConcatProperties
<1> QED
  BY <1>2, <1>3

LEMMA LengthsLeftType ==
  ASSUME FoundInv, NEW len_ready
  PROVE  /\ LengthsLeft(len_ready) \in Seq(MsgLengths)
         /\ Len(LengthsLeft(len_ready)) \in Nat
         /\ Len(LengthsLeft(len_ready)) <= Len(len_fifo)
<1>1. len_fifo \in Seq(MsgLengths) /\ Len(len_fifo) \in Nat
  BY LenProperties DEF FoundInv
<1>2. CASE m_msg_len_valid_o /\ len_ready
  <2>1. /\ Tail(len_fifo) \in Seq(MsgLengths) /\ Len(Tail(len_fifo)) = Len(len_fifo) - 1
    BY <1>1, <1>2, HeadTailProperties DEF m_msg_len_valid_o
  <2>2. Len(Tail(len_fifo)) \in Nat
    BY <2>1, LenProperties
  <2> QED
    BY <1>1, <1>2, <2>1, <2>2 DEF LengthsLeft
<1>3. CASE ~(m_msg_len_valid_o /\ len_ready)
  BY <1>1, <1>3 DEF LengthsLeft
<1> QED
  BY <1>2, <1>3

LEMMA DescLeftType ==
  ASSUME FoundInv
  PROVE  DescLeft.bytes \in Words
BY NoWordIsAWord DEF DescLeft, NoWord, FoundInv

-----------------------------------------------------------------------------
(* The parser, state by state.                                             *)
LEMMA FoundStays ==
  ASSUME FoundInv, NEW len_ready,
         desc' = DescLeft \/ desc' = desc \/ desc' = NoWord,
         \/ len_fifo' = LengthsLeft(len_ready)
         \/ len_fifo' = len_fifo
         \/ len_fifo' = <<>>
  PROVE  FoundInv'
<1>1. desc'.bytes \in Words
  BY DescLeftType, NoWordIsAWord DEF FoundInv, NoWord
<1>2. <<>> \in Seq(MsgLengths) /\ Len(<<>>) = 0
  BY EmptySeq
<1>3. Len(len_fifo) \in Nat /\ Len(len_fifo) <= 4 /\ len_fifo \in Seq(MsgLengths)
  BY LenProperties DEF FoundInv, MD_LEN_FIFO_DEPTH
<1>4. len_fifo' \in Seq(MsgLengths) /\ Len(len_fifo') <= 4
  <2>1. /\ LengthsLeft(len_ready) \in Seq(MsgLengths)
        /\ Len(LengthsLeft(len_ready)) <= 4
    BY <1>3, LengthsLeftType
  <2>2. CASE len_fifo' = LengthsLeft(len_ready)
    BY <2>1, <2>2
  <2>3. CASE len_fifo' = <<>>
    BY <1>2, <2>3
  <2> QED
    BY <1>3, <2>2, <2>3
<1> QED
  BY <1>1, <1>4 DEF FoundInv, MD_LEN_FIFO_DEPTH

LEMMA HeaderKeeps ==
  ASSUME ParserInv, FoundInv, NEW beat, NEW declared, beat.bytes \in Words,
         HeaderStep(InputFire(beat), beat, declared)
  PROVE  ParserInv' /\ FoundInv'
<1> DEFINE fire == InputFire(beat)
           pushed == Pushed(fire, beat, declared)
<1>1. state = "HEADER" /\ body_fifo' = body_fifo \o pushed
  BY DEF HeaderStep
<1>2. body_fifo = <<>> /\ body_fifo \in Seq(Beats)
  BY <1>1 DEF ParserInv
<1>3. body_fifo' \in Seq(Beats) /\ Len(body_fifo') <= BODY_FIFO_DEPTH
  <2>1. Len(body_fifo) <= Len(body_fifo)
    BY <1>2, LenProperties
  <2> QED
    BY <1>1, <1>2, <2>1, BodyFits
<1>4. state' = "HEADER" => body_fifo' = <<>>
  <2> SUFFICES ASSUME state' = "HEADER" PROVE body_fifo' = <<>>
    OBVIOUS
  <2>1. ~(fire /\ header_beat_idx = 2)
    BY DEF HeaderStep
  <2>2. pushed = <<>>
    BY <1>1, <2>1, PushedType
  <2>3. body_fifo' = <<>> \o <<>>
    BY <1>1, <1>2, <2>2
  <2> QED
    BY <2>3, <1>2, ConcatEmptySeq
<1>5. seq_o' \in 0 .. MaxNumber /\ count_o' \in 0 .. MaxNumber
  <2>1. CASE fire /\ header_beat_idx = 2 /\ Len(beat.bytes) >= 4
    <3>1. beat.bytes \in Seq(Nat) /\ Len(beat.bytes) \in Nat
      BY WordLength
    <3>2. 1 \in 1 .. Len(beat.bytes) /\ 2 \in 1 .. Len(beat.bytes)
          /\ 3 \in 1 .. Len(beat.bytes) /\ 4 \in 1 .. Len(beat.bytes)
      BY <2>1, <3>1
    <3>3. /\ beat.bytes[1] \in Nat /\ beat.bytes[2] \in Nat
          /\ beat.bytes[3] \in Nat /\ beat.bytes[4] \in Nat
      BY <3>1, <3>2, ElementOfSeq
    <3>4. /\ Number(beat.bytes[1], beat.bytes[2]) \in 0 .. MaxNumber
          /\ Number(beat.bytes[3], beat.bytes[4]) \in 0 .. MaxNumber
      BY <3>3, NumberType
    <3> QED
      BY <2>1, <3>4 DEF HeaderStep
  <2>2. CASE ~(fire /\ header_beat_idx = 2 /\ Len(beat.bytes) >= 4)
    BY <2>2 DEF HeaderStep, ParserInv
  <2> QED
    BY <2>1, <2>2
<1>6. payload_left' = payload_left /\ len_hi' = len_hi /\ desc' = desc /\ len_fifo' = len_fifo
  BY DEF HeaderStep, KeepContext
<1>7. FoundInv'
  BY <1>6, FoundStays
<1>8. /\ payload_left' \in Nat
      /\ len_hi' \in Seq(Nat) /\ Len(len_hi') <= 1
  BY <1>6 DEF ParserInv
<1> HIDE DEF fire, pushed
<1> QED
  BY <1>3, <1>4, <1>5, <1>7, <1>8 DEF ParserInv

LEMMA GuardKeeps ==
  ASSUME ParserInv, FoundInv, NEW beat, NEW declared, beat.bytes \in Words,
         GuardStep(InputFire(beat), beat, declared)
  PROVE  ParserInv' /\ FoundInv'
<1>1. /\ state = "GUARD" /\ state' \in {"BODY", "DRAIN"}
      /\ body_fifo' = body_fifo \o Pushed(InputFire(beat), beat, declared)
  BY DEF GuardStep
<1>2. body_fifo' \in Seq(Beats) /\ Len(body_fifo') <= BODY_FIFO_DEPTH
  <2>1. body_fifo \in Seq(Beats) /\ Len(body_fifo) <= Len(body_fifo)
    BY LenProperties DEF ParserInv
  <2> QED
    BY <1>1, <2>1, BodyFits
<1>3. seq_o' = seq_o /\ count_o' = count_o /\ desc' = desc /\ len_fifo' = len_fifo
  BY DEF GuardStep, KeepHeader
<1>4. /\ payload_left' \in {0, payload_left}
      /\ len_hi' \in {<<>>, len_hi}
  BY DEF GuardStep
<1>5. /\ payload_left' \in Nat
      /\ len_hi' \in Seq(Nat) /\ Len(len_hi') <= 1
  <2>1. <<>> \in Seq(Nat) /\ Len(<<>>) <= 1
    BY EmptySeq
  <2>2. CASE len_hi' = <<>>
    BY <1>4, <2>1, <2>2 DEF ParserInv
  <2>3. CASE len_hi' = len_hi
    BY <1>4, <2>3 DEF ParserInv
  <2> QED
    BY <1>4, <2>2, <2>3
<1>6. FoundInv'
  BY <1>3, FoundStays
<1>7. seq_o' \in 0 .. MaxNumber /\ count_o' \in 0 .. MaxNumber /\ state' # "HEADER"
  BY <1>1, <1>3 DEF ParserInv
<1> QED
  BY <1>2, <1>5, <1>6, <1>7 DEF ParserInv


(* A length that is found is queued behind those that are left.            *)
LEMMA FoundLengths ==
  ASSUME FoundInv, NEW len_ready, Len(len_fifo) < MD_LEN_FIFO_DEPTH,
         NEW length \in 0 .. MaxNumber
  PROVE  LET after == LengthsLeft(len_ready) \o (IF length = 0 THEN <<>> ELSE <<length>>)
         IN  after \in Seq(MsgLengths) /\ Len(after) <= MD_LEN_FIFO_DEPTH
<1> DEFINE left == LengthsLeft(len_ready)
           more == IF length = 0 THEN <<>> ELSE <<length>>
<1>1. left \in Seq(MsgLengths) /\ Len(left) \in Nat /\ Len(left) <= Len(len_fifo)
  BY LengthsLeftType
<1>2. Len(len_fifo) \in Nat /\ Len(len_fifo) < 4
  BY LenProperties DEF FoundInv, MD_LEN_FIFO_DEPTH
<1>3. more \in Seq(MsgLengths) /\ Len(more) \in Nat /\ Len(more) <= 1
  <2>1. CASE length = 0
    BY <2>1, EmptySeq
  <2>2. CASE length # 0
    <3>1. length \in MsgLengths
      BY <2>2, MaxNumberType DEF MsgLengths
    <3>2. <<length>> \in Seq(MsgLengths) /\ Len(<<length>>) = 1
      BY <3>1
    <3> QED
      BY <2>2, <3>2
  <2> QED
    BY <2>1, <2>2
<1> HIDE DEF left, more
<1>4. left \o more \in Seq(MsgLengths) /\ Len(left \o more) = Len(left) + Len(more)
  BY <1>1, <1>3, ConcatProperties
<1>5. Len(left) + Len(more) <= 4
  BY <1>1, <1>2, <1>3
<1> QED
  BY <1>4, <1>5 DEF left, more, MD_LEN_FIFO_DEPTH

LEMMA BodyKeeps ==
  ASSUME ParserInv, FoundInv, NEW beat, NEW declared, beat.bytes \in Words, NEW len_ready,
         BodyStep(InputFire(beat), beat, declared, len_ready)
  PROVE  ParserInv' /\ FoundInv'
<1> DEFINE fire == InputFire(beat)
<1>1. /\ state = "BODY"
      /\ seq_o' = seq_o /\ count_o' = count_o
  BY DEF BodyStep, KeepHeader
<1>2. body_fifo \in Seq(Beats) /\ Len(body_fifo) <= Len(body_fifo)
  BY LenProperties DEF ParserInv
<1>3. /\ body_fifo \o Pushed(fire, beat, declared) \in Seq(Beats)
      /\ Len(body_fifo \o Pushed(fire, beat, declared)) <= BODY_FIFO_DEPTH
  BY <1>1, <1>2, BodyFits
<1>4. CASE ParserWaits(fire, beat, declared, len_ready)
  <2>1. /\ state' # "HEADER" /\ payload_left' = payload_left /\ len_hi' = len_hi
        /\ body_fifo' = body_fifo \o Pushed(fire, beat, declared)
        /\ desc' = DescLeft /\ len_fifo' = LengthsLeft(len_ready)
    BY <1>1, <1>4 DEF ParserWaits, KeepContext
  <2>2. FoundInv'
    BY <2>1, FoundStays
  <2> HIDE DEF fire
  <2> QED
    BY <1>1, <1>3, <2>1, <2>2 DEF ParserInv
<1>5. CASE ParserFaults(fire, beat, declared)
  <2>1. /\ state' # "HEADER" /\ payload_left' = payload_left /\ len_hi' = len_hi
        /\ body_fifo' = body_fifo \o Pushed(fire, beat, declared)
        /\ desc' = NoWord /\ len_fifo' = <<>>
    BY <1>5 DEF ParserFaults, KeepContext
  <2>2. FoundInv'
    BY <2>1, FoundStays
  <2> HIDE DEF fire
  <2> QED
    BY <1>1, <1>3, <2>1, <2>2 DEF ParserInv
<1>6. CASE /\ Parses(InputFault(fire, beat, declared)) /\ ~Parse.fault
           /\ Parsed(Parse, fire, beat, declared, len_ready)
  <2>1. body_fifo # <<>> /\ Len(len_fifo) < MD_LEN_FIFO_DEPTH
    BY <1>6 DEF Parses, parser_resources_available
  <2>2. ParseSound
    BY <1>6, <2>1, ParseSteps
  <2>3. /\ AfterConsuming(Parse.consumed) \in Seq(Beats)
        /\ Len(AfterConsuming(Parse.consumed)) <= Len(body_fifo)
    BY <2>1, <2>2, ConsumingType DEF ParseSound
  <2>4. body_fifo' = AfterConsuming(Parse.consumed) \o Pushed(fire, beat, declared)
    BY <1>6 DEF Parsed
  <2>5. body_fifo' \in Seq(Beats) /\ Len(body_fifo') <= BODY_FIFO_DEPTH
    BY <1>1, <2>3, <2>4, BodyFits
  <2>6. payload_left' = Parse.left /\ len_hi' = Parse.hi
    BY <1>6 DEF Parsed
  <2>7. state' # "HEADER"
    BY <1>6 DEF Parsed
  <2>8. desc'.bytes \in Words
    <3>1. \/ desc' = DescLeft
          \/ desc' = [bytes |-> Parse.payload, last |-> Parse.last]
      BY <1>6 DEF Parsed
    <3> QED
      BY <3>1, <2>2, DescLeftType DEF ParseSound
  <2>9. len_fifo' = LengthsLeft(len_ready)
                      \o (IF Parse.length = 0 THEN <<>> ELSE <<Parse.length>>)
    BY <1>6 DEF Parsed
  <2>10. len_fifo' \in Seq(MsgLengths) /\ Len(len_fifo') <= MD_LEN_FIFO_DEPTH
    BY <2>1, <2>2, <2>9, FoundLengths DEF ParseSound
  <2>11. FoundInv'
    BY <2>8, <2>10 DEF FoundInv
  <2> QED
    BY <1>1, <2>2, <2>5, <2>6, <2>7, <2>11 DEF ParserInv, ParseSound
<1> QED
  BY <1>4, <1>5, <1>6 DEF BodyStep

LEMMA DrainKeeps ==
  ASSUME ParserInv, FoundInv, NEW fire, NEW beat, NEW declared,
         DrainStep(fire, beat, declared)
  PROVE  ParserInv' /\ FoundInv'
<1>1. /\ state' # "HEADER" /\ payload_left' = payload_left /\ len_hi' = len_hi
      /\ seq_o' = seq_o /\ count_o' = count_o /\ desc' = desc /\ len_fifo' = len_fifo
      /\ body_fifo' = IF body_fifo = <<>> THEN <<>> ELSE Tail(body_fifo)
  BY DEF DrainStep, KeepContext, KeepHeader
<1>2. body_fifo' \in Seq(Beats) /\ Len(body_fifo') <= BODY_FIFO_DEPTH
  <2>1. body_fifo \in Seq(Beats) /\ Len(body_fifo) \in Nat /\ Len(body_fifo) <= 4
    BY LenProperties DEF ParserInv, BODY_FIFO_DEPTH
  <2>2. CASE body_fifo = <<>>
    BY <1>1, <2>1, <2>2 DEF BODY_FIFO_DEPTH
  <2>3. CASE body_fifo # <<>>
    <3>1. Tail(body_fifo) \in Seq(Beats) /\ Len(Tail(body_fifo)) = Len(body_fifo) - 1
      BY <2>1, <2>3, HeadTailProperties
    <3> QED
      BY <1>1, <2>1, <2>3, <3>1 DEF BODY_FIFO_DEPTH
  <2> QED
    BY <2>2, <2>3
<1>3. FoundInv'
  BY <1>1, FoundStays
<1> QED
  BY <1>1, <1>2, <1>3 DEF ParserInv

LEMMA DoneKeeps ==
  ASSUME ParserInv, FoundInv, NEW len_ready, DoneStep(len_ready)
  PROVE  ParserInv' /\ FoundInv'
<1>1. /\ state' # "HEADER" /\ payload_left' = payload_left /\ len_hi' = len_hi
      /\ seq_o' = seq_o /\ count_o' = count_o /\ body_fifo' = body_fifo
      /\ desc' = DescLeft /\ len_fifo' = LengthsLeft(len_ready)
  BY DEF DoneStep, KeepContext, KeepHeader
<1>2. FoundInv'
  BY <1>1, FoundStays
<1> QED
  BY <1>1, <1>2 DEF ParserInv

LEMMA CleanupKeeps ==
  ASSUME ParserInv, FoundInv, Cleanup
  PROVE  ParserInv' /\ FoundInv'
<1>1. /\ payload_left' = 0 /\ len_hi' = <<>> /\ seq_o' = seq_o /\ count_o' = count_o
      /\ body_fifo' = <<>> /\ desc' = NoWord /\ len_fifo' = <<>>
  BY DEF Cleanup
<1>2. FoundInv'
  BY <1>1, FoundStays
<1>3. /\ <<>> \in Seq(Beats) /\ <<>> \in Seq(Nat) /\ Len(<<>>) = 0
  BY EmptySeq
<1> QED
  BY <1>1, <1>2, <1>3 DEF ParserInv, BODY_FIFO_DEPTH

LEMMA ParserKeeps ==
  ASSUME ParserInv, FoundInv, NEW beat, NEW declared, beat.bytes \in Words,
         NEW payload_ready, NEW len_ready,
         MoldDeframeStep(beat, declared, payload_ready, len_ready)
  PROVE  ParserInv' /\ FoundInv'
<1>1. \/ HeaderStep(InputFire(beat), beat, declared)
      \/ GuardStep(InputFire(beat), beat, declared)
      \/ BodyStep(InputFire(beat), beat, declared, len_ready)
      \/ DrainStep(InputFire(beat), beat, declared)
      \/ DoneStep(len_ready)
      \/ Cleanup
  BY DEF MoldDeframeStep
<1> QED
  BY <1>1, HeaderKeeps, GuardKeeps, BodyKeeps, DrainKeeps, DoneKeeps, CleanupKeeps

-----------------------------------------------------------------------------
(* The output side.  What leaves the reservoir was in it, and was covered  *)
(* by accepted lengths.                                                    *)
LEMMA EmitFacts ==
  ASSUME OutputInv, NEW payload_ready
  PROVE  LET emit == EmitCount(payload_ready)
         IN  /\ emit \in Nat /\ emit <= Len(reservoir) /\ emit <= 8
             /\ emit <= released_bytes
             /\ emit # 0 => ~IsWord(m_payload) \/ payload_ready
             /\ emit # 0 /\ ~EmitsLast => emit = 8
             /\ emit # 0 /\ EmitsLast => emit = Len(reservoir)
<1>1. Len(reservoir) \in Nat /\ released_bytes \in Nat
  BY LenProperties DEF OutputInv
<1>2. CASE IsWord(m_payload) /\ ~payload_ready
  BY <1>1, <1>2 DEF EmitCount
<1>3. CASE ~(IsWord(m_payload) /\ ~payload_ready) /\ EmitsLast
  <2>1. EmitCount(payload_ready) = Len(reservoir)
    BY <1>3 DEF EmitCount
  <2>2. Len(reservoir) <= 8 /\ Len(reservoir) <= released_bytes
    <3>1. Len(reservoir) \in 1 .. AXIS_KEEP_W /\ released_bytes >= Len(reservoir)
      BY <1>3, Zenon DEF EmitsLast
    <3>2. ASSUME NEW n \in Nat, NEW r \in Nat, n \in 1 .. 8, r >= n
          PROVE  n <= 8 /\ n <= r
      BY <3>2
    <3> QED
      BY <1>1, <3>1, <3>2 DEF AXIS_KEEP_W
  <2> QED
    BY <1>1, <1>3, <2>1, <2>2
<1>4. CASE ~(IsWord(m_payload) /\ ~payload_ready) /\ ~EmitsLast /\ EmitsFull
  BY <1>1, <1>4 DEF EmitCount, EmitsFull, AXIS_KEEP_W
<1>5. CASE ~(IsWord(m_payload) /\ ~payload_ready) /\ ~EmitsLast /\ ~EmitsFull
  BY <1>1, <1>5 DEF EmitCount
<1> QED
  BY <1>2, <1>3, <1>4, <1>5

(* The words that go into the reservoir find room in it.                   *)
LEMMA ReservoirStep ==
  ASSUME OutputInv, NEW payload_ready, NEW len_ready,
         MoveOutput(payload_ready, len_ready)
  PROVE  /\ reservoir' \in Seq(Nat)
         /\ Len(reservoir') = Len(reservoir) - EmitCount(payload_ready)
                                + (IF compact_fire THEN Len(compact.bytes) ELSE 0)
         /\ Len(reservoir') <= 24
<1> DEFINE emit == EmitCount(payload_ready)
           kept == Leaving(reservoir, emit)
           more == IF compact_fire THEN compact.bytes ELSE <<>>
<1>1. /\ reservoir \in Seq(Nat) /\ Len(reservoir) \in Nat /\ Len(reservoir) <= 24
      /\ compact.bytes \in Seq(Nat)
      /\ Len(compact.bytes) \in Nat /\ Len(compact.bytes) <= 8
  BY LenProperties, WordLength DEF OutputInv, RESERVOIR_BYTES, AXIS_KEEP_W
<1>2. emit \in Nat /\ emit <= Len(reservoir)
  BY EmitFacts
<1>3. kept \in Seq(Nat) /\ Len(kept) = Len(reservoir) - emit
  BY <1>1, <1>2, LeavingType
<1>4. more \in Seq(Nat) /\ Len(more) = IF compact_fire THEN Len(compact.bytes) ELSE 0
  <2>1. <<>> \in Seq(Nat) /\ Len(<<>>) = 0
    BY EmptySeq
  <2> QED
    BY <1>1, <2>1
<1>5. reservoir' = kept \o more
  BY DEF MoveOutput
<1> HIDE DEF kept, more, emit
<1>6. reservoir' \in Seq(Nat) /\ Len(reservoir') = Len(kept) + Len(more)
  BY <1>3, <1>4, <1>5, ConcatProperties
<1>7. compact_fire => Len(reservoir) <= 16
  BY DEF compact_fire, packer_ready, RESERVOIR_BYTES, AXIS_KEEP_W
<1>8. Len(kept) + Len(more) <= 24
  BY <1>1, <1>2, <1>3, <1>4, <1>7
<1> QED
  BY <1>3, <1>4, <1>6, <1>8 DEF emit

LEMMA OutputKeeps ==
  ASSUME FoundInv, OutputInv, NEW beat, NEW declared, NEW payload_ready, NEW len_ready,
         MoldDeframeStep(beat, declared, payload_ready, len_ready)
  PROVE  OutputInv'
<1>1. <<>> \in Seq(Nat) /\ Len(<<>>) = 0 /\ NoWord.bytes \in Words
  BY EmptySeq, NoWordIsAWord DEF NoWord
<1>2. AfterOutput(payload_ready).bytes \in Words
  BY <1>1 DEF AfterOutput, OutputInv
<1>3. NothingBuffered =>
        /\ compact'.bytes \in Words /\ reservoir' \in Seq(Nat)
        /\ Len(reservoir') <= RESERVOIR_BYTES /\ released_bytes' \in Nat
  BY <1>1 DEF NothingBuffered, RESERVOIR_BYTES, AXIS_KEEP_W
<1>4. CASE NothingBuffered /\ m_payload' = NoWord
  BY <1>1, <1>3, <1>4 DEF OutputInv
<1>5. CASE DiscardOutput(payload_ready)
  BY <1>2, <1>3, <1>5 DEF DiscardOutput, OutputInv
<1>6. CASE MoveOutput(payload_ready, len_ready)
  <2> DEFINE emit == EmitCount(payload_ready)
  <2>1. /\ reservoir' \in Seq(Nat) /\ Len(reservoir') <= 24
    BY <1>6, ReservoirStep
  <2>2. emit \in Nat /\ emit <= 8 /\ emit <= released_bytes /\ released_bytes \in Nat
    BY EmitFacts DEF OutputInv
  <2>3. Taking(reservoir, emit) \in Words
    BY <2>2, TakingWord DEF OutputInv
  <2>4. \/ m_payload' = AfterOutput(payload_ready)
        \/ m_payload' = [bytes |-> Taking(reservoir, emit), last |-> EmitsLast]
    BY <1>6 DEF MoveOutput
  <2>5. m_payload'.bytes \in Words
    BY <1>2, <2>3, <2>4
  <2>6. compact' \in {desc, NoWord, compact}
    BY <1>6 DEF MoveOutput
  <2>7. compact'.bytes \in Words
    BY <1>1, <2>6 DEF FoundInv, OutputInv
  <2>8. released_bytes' = released_bytes - emit
           + (IF m_msg_len_valid_o /\ len_ready THEN Head(len_fifo) ELSE 0)
    BY <1>6 DEF MoveOutput
  <2>9. m_msg_len_valid_o => Head(len_fifo) \in Nat
    <3>1. m_msg_len_valid_o => Head(len_fifo) \in MsgLengths
      BY HeadTailProperties DEF m_msg_len_valid_o, FoundInv
    <3> QED
      BY <3>1, MaxNumberType DEF MsgLengths
  <2> HIDE DEF emit
  <2>10. released_bytes' \in Nat
    BY <2>2, <2>8, <2>9
  <2> QED
    BY <2>1, <2>5, <2>7, <2>10 DEF OutputInv, RESERVOIR_BYTES, AXIS_KEEP_W
<1> QED
  BY <1>4, <1>5, <1>6 DEF MoldDeframeStep


-----------------------------------------------------------------------------
(* data_realign.  A message under construction is a record whose left part *)
(* is a number; Total is what the lengths taken still announce.            *)
IsMsg(msg) == "left" \in DOMAIN msg /\ msg.left \in Nat

LengthInv ==
  /\ lengths \in Seq(MsgLengths)
  /\ Len(lengths) <= LEN_FIFO_DEPTH
  /\ IsMsg(message)

Total(msg, lens) == msg.left + SumOf(lens)

(* What a word or a length may make of the registers.                      *)
ResultType(res) ==
  /\ {"msg", "lens", "err", "drop"} \subseteq DOMAIN res
  /\ IsMsg(res.msg)
  /\ res.lens \in Seq(MsgLengths)
  /\ Len(res.lens) <= Len(lengths)

LEMMA EmptyMessages ==
  /\ IsMsg(NoMessage) /\ NoMessage.left = 0
  /\ \A length \in MsgLengths :
       IsMsg(NewMessage(length)) /\ NewMessage(length).left = length
BY MaxNumberType DEF IsMsg, NoMessage, NewMessage, MsgLengths

LEMMA CaptureType ==
  ASSUME NEW msg, IsMsg(msg), NEW bytes, Len(bytes) \in Nat, Len(bytes) <= msg.left
  PROVE  IsMsg(Capture(msg, bytes)) /\ Capture(msg, bytes).left = msg.left - Len(bytes)
<1> DEFINE type == IF msg.left = msg.size THEN Value(bytes[1]) ELSE msg.type
           of   == msg.of \cup {Owner(bytes[i]) : i \in DOMAIN bytes}
           m1 == [msg EXCEPT !.left = msg.left - Len(bytes)]
           m2 == [m1 EXCEPT !.type = type]
           m3 == [m2 EXCEPT !.of = of]
<1>1. Capture(msg, bytes) = m3
  BY Zenon DEF Capture
<1> HIDE DEF type, of
<1>2. DOMAIN m1 = DOMAIN msg /\ m1.left = msg.left - Len(bytes)
  BY DEF IsMsg
<1> HIDE DEF m1
<1>3. DOMAIN m2 = DOMAIN msg /\ m2.left = msg.left - Len(bytes)
  BY <1>2 DEF IsMsg
<1> HIDE DEF m2
<1>4. DOMAIN m3 = DOMAIN msg /\ m3.left = msg.left - Len(bytes)
  BY <1>3 DEF IsMsg
<1> HIDE DEF m3
<1>5. msg.left - Len(bytes) \in Nat
  BY DEF IsMsg
<1> QED
  BY <1>1, <1>4, <1>5 DEF IsMsg

LEMMA LengthTypes ==
  ASSUME LengthInv
  PROVE  /\ lengths \in Seq(MsgLengths) /\ Len(lengths) \in Nat
         /\ SumOf(lengths) \in Nat /\ message.left \in Nat
BY LenProperties, SumOfType DEF LengthInv, IsMsg

LEMMA FailedType ==
  ASSUME LengthInv, NEW err, NEW drop
  PROVE  ResultType(Failed(err, drop)) /\ Failed(err, drop).err = err
<1>1. <<>> \in Seq(MsgLengths) /\ Len(<<>>) = 0
  BY EmptySeq
<1>2. Len(lengths) \in Nat
  BY LengthTypes
<1> QED
  BY <1>1, <1>2, EmptyMessages DEF ResultType, Failed, Result

(* A word that is taken without an error lowers the total by its bytes,    *)
(* and nothing is dropped.                                                 *)
WordTaken(word, res) ==
  /\ ResultType(res)
  /\ res.err = "NONE" => ~res.drop
  /\ res.err = "NONE" =>
       Total(res.msg, res.lens) + Len(word.bytes) = Total(message, lengths)

LEMMA NothingDropped ==
  ASSUME NEW msg, NEW lens
  PROVE  ~Result(msg, lens, "NONE", FALSE).drop
BY DEF Result

LEMMA FailureTakesNothing ==
  ASSUME LengthInv, NEW word, NEW drop, NEW err, err # "NONE"
  PROVE  WordTaken(word, Failed(err, drop))
BY FailedType DEF WordTaken

LEMMA BeginNextTakes ==
  ASSUME LengthInv, NEW word, word.bytes \in Words,
         message.left <= Len(word.bytes)
  PROVE  WordTaken(word, BeginNext(word))
<1> DEFINE n == Len(word.bytes)
           head == Head(lengths)
           msg == Capture(NewMessage(head), Behind(word))
<1>1. /\ n \in Nat /\ message.left \in Nat /\ word.bytes \in Seq(Nat)
      /\ lengths \in Seq(MsgLengths) /\ Len(lengths) \in Nat /\ SumOf(lengths) \in Nat
  BY WordLength, LengthTypes
<1>2. Len(Behind(word)) = n - message.left
  BY <1>1, LeavingType DEF Behind
<1>3. CASE lengths = <<>> \/ head <= Len(Behind(word))
  BY <1>3, FailureTakesNothing DEF BeginNext
<1>4. CASE ~(lengths = <<>> \/ head <= Len(Behind(word)))
  <2>1. BeginNext(word) = Result(msg, Tail(lengths), "NONE", FALSE)
    BY <1>4 DEF BeginNext
  <2>2. /\ head \in MsgLengths /\ head \in Nat /\ Tail(lengths) \in Seq(MsgLengths)
        /\ Len(Tail(lengths)) = Len(lengths) - 1
    BY <1>1, <1>4, HeadTailProperties, MaxNumberType DEF MsgLengths
  <2>3. IsMsg(NewMessage(head)) /\ NewMessage(head).left = head
    BY <2>2, EmptyMessages
  <2>4. n - message.left \in Nat /\ n - message.left <= head
    BY <1>1, <1>2, <1>4, <2>2
  <2>5. IsMsg(msg) /\ msg.left = head - (n - message.left)
    BY <1>2, <2>3, <2>4, CaptureType
  <2>6. SumOf(lengths) = head + SumOf(Tail(lengths)) /\ SumOf(Tail(lengths)) \in Nat
    BY <1>1, <1>4, <2>2, SumOfHeadTail, SumOfType
  <2> HIDE DEF msg, n, head
  <2>7. (head - (n - message.left)) + SumOf(Tail(lengths)) + n
          = message.left + (head + SumOf(Tail(lengths)))
    BY <1>1, <2>2, <2>6
  <2>8. ResultType(BeginNext(word))
    BY <1>1, <2>1, <2>2, <2>5 DEF ResultType, Result
  <2>9. /\ BeginNext(word).msg = msg /\ BeginNext(word).lens = Tail(lengths)
    BY <2>1 DEF Result
  <2>10. Total(BeginNext(word).msg, BeginNext(word).lens) + n = Total(message, lengths)
    BY <2>5, <2>6, <2>7, <2>9 DEF Total
  <2>11. ~BeginNext(word).drop
    BY <2>1, NothingDropped
  <2> QED
    BY <2>8, <2>10, <2>11 DEF WordTaken, n
<1> QED
  BY <1>3, <1>4

(* The word and the message under construction.                            *)
LEMMA WhatCompletes ==
  ASSUME LengthInv, NEW word, word.bytes \in Words
  PROVE  /\ IsMsg(Captured(word))
         /\ Captured(word).left = message.left - Smaller(message.left, Len(word.bytes))
         /\ Completes(word) <=> message.left <= Len(word.bytes)
<1>1. /\ Len(word.bytes) \in Nat /\ message.left \in Nat /\ word.bytes \in Seq(Nat)
  BY WordLength, LengthTypes
<1>2. Len(Taking(word.bytes, message.left)) = Smaller(message.left, Len(word.bytes))
  BY <1>1, TakingType
<1>3. /\ Smaller(message.left, Len(word.bytes)) \in Nat
      /\ Smaller(message.left, Len(word.bytes)) <= message.left
      /\ Smaller(message.left, Len(word.bytes))
           = IF message.left < Len(word.bytes) THEN message.left ELSE Len(word.bytes)
  BY <1>1 DEF Smaller
<1>4. /\ IsMsg(Captured(word))
      /\ Captured(word).left = message.left - Smaller(message.left, Len(word.bytes))
  BY <1>2, <1>3, CaptureType DEF Captured, LengthInv
<1> QED
  BY <1>1, <1>3, <1>4 DEF Completes

(* What a word leaves when nothing has to be at its end.                   *)
BeforeLast(word) ==
  IF ~Completes(word) THEN Result(Captured(word), lengths, "NONE", FALSE)
  ELSE IF Behind(word) = <<>> THEN Result(NoMessage, lengths, "NONE", FALSE)
  ELSE BeginNext(word)

LEMMA BeforeLastTakes ==
  ASSUME LengthInv, NEW word, word.bytes \in Words
  PROVE  WordTaken(word, BeforeLast(word))
<1> DEFINE n == Len(word.bytes)
           kept == Result(Captured(word), lengths, "NONE", FALSE)
           done == Result(NoMessage, lengths, "NONE", FALSE)
<1>1. /\ n \in Nat /\ message.left \in Nat /\ word.bytes \in Seq(Nat)
      /\ lengths \in Seq(MsgLengths) /\ Len(lengths) \in Nat /\ SumOf(lengths) \in Nat
  BY WordLength, LengthTypes
<1>2. /\ IsMsg(Captured(word))
      /\ Captured(word).left = message.left - Smaller(message.left, n)
      /\ Completes(word) <=> message.left <= n
  BY WhatCompletes
<1>3. /\ Smaller(message.left, n) = IF message.left < n THEN message.left ELSE n
  BY <1>1 DEF Smaller
<1>4. ASSUME ~Completes(word) PROVE WordTaken(word, kept)
  <2>1. ResultType(kept) /\ kept.msg = Captured(word) /\ kept.lens = lengths
    BY <1>1, <1>2 DEF ResultType, Result
  <2>2. Captured(word).left + n = message.left
    BY <1>1, <1>2, <1>3, <1>4
  <2>3. Captured(word).left \in Nat
    BY <1>2 DEF IsMsg
  <2>4. (Captured(word).left + SumOf(lengths)) + n = message.left + SumOf(lengths)
    BY <1>1, <2>2, <2>3
  <2>5. ~kept.drop
    BY NothingDropped
  <2> HIDE DEF kept
  <2> QED
    BY <2>1, <2>4, <2>5 DEF WordTaken, Total
<1>5. ASSUME Completes(word), Behind(word) = <<>> PROVE WordTaken(word, done)
  <2>1. ResultType(done) /\ done.msg = NoMessage /\ done.lens = lengths
    BY <1>1, EmptyMessages DEF ResultType, Result
  <2>2. n = message.left
    <3>1. Len(Behind(word)) = n - message.left
      BY <1>1, <1>2, <1>5, LeavingType DEF Behind
    <3>2. Len(<<>>) = 0
      OBVIOUS
    <3> QED
      BY <1>1, <1>5, <3>1, <3>2
  <2>3. (0 + SumOf(lengths)) + n = message.left + SumOf(lengths)
    BY <1>1, <2>2
  <2>4. ~done.drop
    BY NothingDropped
  <2> HIDE DEF done
  <2> QED
    BY <2>1, <2>3, <2>4, EmptyMessages DEF WordTaken, Total
<1>6. ASSUME Completes(word) PROVE WordTaken(word, BeginNext(word))
  BY <1>2, <1>6, BeginNextTakes
<1> HIDE DEF kept, done
<1>7. \/ ~Completes(word) /\ BeforeLast(word) = kept
      \/ Completes(word) /\ Behind(word) = <<>> /\ BeforeLast(word) = done
      \/ Completes(word) /\ BeforeLast(word) = BeginNext(word)
  BY Zenon DEF BeforeLast, kept, done
<1> QED
  BY <1>4, <1>5, <1>6, <1>7

LEMMA ConsumedTakes ==
  ASSUME LengthInv, NEW word, word.bytes \in Words
  PROVE  WordTaken(word, Consumed(word))
<1>1. \/ Consumed(word) = BeforeLast(word)
      \/ Consumed(word) = Failed("PAYLOAD_UNDERFLOW", FALSE)
  BY Zenon DEF Consumed, BeforeLast
<1>2. WordTaken(word, Failed("PAYLOAD_UNDERFLOW", FALSE))
  BY FailureTakesNothing
<1> QED
  BY <1>1, <1>2, BeforeLastTakes

LEMMA WordTakes ==
  ASSUME LengthInv, NEW word, word.bytes \in Words
  PROVE  WordTaken(word, ConsumeWord(word))
<1>1. \/ ConsumeWord(word) = Consumed(word)
      \/ ConsumeWord(word) = Failed("BAD_TKEEP", TRUE)
      \/ ConsumeWord(word) = Failed("PAYLOAD_OVERFLOW", ~word.last)
  BY Zenon DEF ConsumeWord
<1>2. /\ WordTaken(word, Failed("BAD_TKEEP", TRUE))
      /\ WordTaken(word, Failed("PAYLOAD_OVERFLOW", ~word.last))
  BY FailureTakesNothing
<1>3. WordTaken(word, Consumed(word))
  BY ConsumedTakes
<1> QED
  BY <1>1, <1>2, <1>3

(* Taking up the next message moves a length into the message; a length    *)
(* that arrives adds itself.                                               *)
LEMMA PrefetchKeeps ==
  ASSUME LengthInv, NEW res, ResultType(res)
  PROVE  /\ ResultType(Prefetched(res))
         /\ Total(Prefetched(res).msg, Prefetched(res).lens) = Total(res.msg, res.lens)
<1>1. CASE ~(res.msg.left = 0 /\ res.lens # <<>>)
  BY <1>1 DEF Prefetched
<1>2. CASE res.msg.left = 0 /\ res.lens # <<>>
  <2> DEFINE head == Head(res.lens)
             next == Prefetched(res)
  <2>1. res.lens \in Seq(MsgLengths) /\ Len(res.lens) \in Nat /\ Len(res.lens) <= Len(lengths)
    BY LenProperties DEF ResultType
  <2>2. /\ head \in MsgLengths /\ Tail(res.lens) \in Seq(MsgLengths)
        /\ Len(Tail(res.lens)) = Len(res.lens) - 1
    BY <1>2, <2>1, HeadTailProperties
  <2>3. head \in Nat /\ SumOf(Tail(res.lens)) \in Nat
        /\ SumOf(res.lens) = head + SumOf(Tail(res.lens))
    BY <1>2, <2>1, <2>2, SumOfHeadTail, SumOfType, MaxNumberType DEF MsgLengths
  <2>4. next.msg = NewMessage(head) /\ next.lens = Tail(res.lens)
    BY <1>2 DEF Prefetched
  <2>5. IsMsg(NewMessage(head)) /\ NewMessage(head).left = head
    BY <2>2, EmptyMessages
  <2>6. Len(lengths) \in Nat /\ {"msg", "lens", "err", "drop"} \subseteq DOMAIN next
    BY <1>2, LengthTypes DEF Prefetched, ResultType
  <2> HIDE DEF next, head
  <2>7. ResultType(next)
    BY <2>1, <2>2, <2>4, <2>5, <2>6 DEF ResultType
  <2>8. Total(next.msg, next.lens) = Total(res.msg, res.lens)
    BY <1>2, <2>3, <2>4, <2>5 DEF Total
  <2> QED
    BY <2>7, <2>8 DEF next
<1> QED
  BY <1>1, <1>2


LEMMA AcceptedKeeps ==
  ASSUME LengthInv, NEW res, ResultType(res), NEW length \in MsgLengths
  PROVE  /\ IsMsg(Accepted(res, length).msg)
         /\ Accepted(res, length).lens \in Seq(MsgLengths)
         /\ Len(Accepted(res, length).lens) <= Len(lengths) + 1
         /\ Total(Accepted(res, length).msg, Accepted(res, length).lens)
              = Total(res.msg, res.lens) + length
<1> DEFINE next == Accepted(res, length)
<1>1. /\ res.lens \in Seq(MsgLengths) /\ Len(res.lens) \in Nat
      /\ Len(res.lens) <= Len(lengths) /\ Len(lengths) \in Nat
      /\ SumOf(res.lens) \in Nat /\ length \in Nat
      /\ IsMsg(res.msg) /\ res.msg.left \in Nat
  BY LengthTypes, LenProperties, SumOfType, MaxNumberType
     DEF ResultType, MsgLengths, IsMsg
<1>2. CASE res.msg.left = 0 /\ res.lens = <<>>
  <2>1. next.msg = NewMessage(length) /\ next.lens = res.lens
    BY <1>2 DEF Accepted, ResultType
  <2>2. SumOf(res.lens) = 0
    BY <1>2, SumOfNone
  <2> QED
    BY <1>1, <1>2, <2>1, <2>2, EmptyMessages DEF Total
<1>3. CASE ~(res.msg.left = 0 /\ res.lens = <<>>)
  <2>1. next.msg = res.msg /\ next.lens = Append(res.lens, length)
    BY <1>3 DEF Accepted, ResultType
  <2>2. /\ Append(res.lens, length) \in Seq(MsgLengths)
        /\ Len(Append(res.lens, length)) = Len(res.lens) + 1
    BY <1>1, AppendProperties
  <2>3. SumOf(Append(res.lens, length)) = SumOf(res.lens) + length
    BY <1>1, SumOfAppend
  <2> QED
    BY <1>1, <2>1, <2>2, <2>3 DEF Total
<1> QED
  BY <1>2, <1>3


(* One clock edge of data_realign.  As long as it takes words without an   *)
(* error, what it still announces grows by the lengths accepted and        *)
(* shrinks by the bytes taken.                                             *)
WordFires(word, ready_i) == word.bytes # <<>> /\ s_payload_tready_o(word, ready_i)
WordBytes(word, ready_i) == IF WordFires(word, ready_i) THEN Len(word.bytes) ELSE 0
NewLength(len_valid, length) == IF len_valid /\ s_msg_len_ready_o THEN length ELSE 0

Realigned(word, len_valid, length, ready_i) ==
  /\ realign_err' = "NONE"
  /\ ~dropping_payload'
  /\ Total(message', lengths') + WordBytes(word, ready_i)
       = Total(message, lengths) + NewLength(len_valid, length)

TakesIt(word, ready_i) == WordFires(word, ready_i) => ConsumeWord(word).err = "NONE"

LEMMA NothingTaken ==
  ASSUME LengthInv
  PROVE  /\ ResultType(Nothing) /\ Nothing.err = "NONE" /\ ~Nothing.drop
         /\ Total(Nothing.msg, Nothing.lens) = Total(message, lengths)
<1>1. Len(lengths) \in Nat
  BY LengthTypes
<1>2. ~Nothing.drop
  BY NothingDropped DEF Nothing
<1> QED
  BY <1>1, <1>2 DEF ResultType, Nothing, Result, LengthInv

LEMMA VerdictKept ==
  ASSUME NEW res, ResultType(res), NEW length
  PROVE  /\ Prefetched(res).err = res.err /\ Prefetched(res).drop = res.drop
         /\ Accepted(Prefetched(res), length).err = Prefetched(res).err
         /\ Accepted(Prefetched(res), length).drop = Prefetched(res).drop
<1>1. {"err", "drop"} \subseteq DOMAIN res
  BY DEF ResultType
<1>2. /\ Prefetched(res).err = res.err /\ Prefetched(res).drop = res.drop
      /\ {"err", "drop"} \subseteq DOMAIN Prefetched(res)
  BY <1>1 DEF Prefetched
<1> QED
  BY <1>2 DEF Accepted

(* The registers a cycle in which nothing is dropped leaves.               *)
LEMMA RealignRegisters ==
  ASSUME LengthInv, NEW word, word.bytes \in Words,
         NEW len_valid, NEW length, len_valid => length \in MsgLengths, NEW ready_i,
         ~dropping_payload,
         Realign(WordFires(word, ready_i), word, len_valid /\ s_msg_len_ready_o, length,
                 ready_i)
  PROVE  /\ LengthInv'
         /\ TakesIt(word, ready_i) => Realigned(word, len_valid, length, ready_i)
<1> DEFINE fires == WordFires(word, ready_i)
           len_fires == len_valid /\ s_msg_len_ready_o
           res == IF fires THEN ConsumeWord(word) ELSE Nothing
           next == IF res.err # "NONE" THEN res
                   ELSE IF len_fires THEN Accepted(Prefetched(res), length)
                   ELSE Prefetched(res)
<1>1. /\ message' = next.msg /\ lengths' = next.lens
      /\ (dropping_payload' = next.drop) /\ realign_err' = next.err
  BY Zenon DEF Realign
<1>2. WordTaken(word, ConsumeWord(word))
  BY WordTakes
<1>3. /\ ResultType(res)
      /\ TakesIt(word, ready_i) => res.err = "NONE"
      /\ res.err = "NONE" => Total(res.msg, res.lens) + WordBytes(word, ready_i)
                               = Total(message, lengths)
  <2>1. CASE fires
    BY <1>2, <2>1 DEF WordTaken, WordBytes, TakesIt
  <2>2. CASE ~fires
    <3>1. Total(message, lengths) \in Nat
      BY LengthTypes DEF Total
    <3> QED
      BY <2>2, <3>1, NothingTaken DEF WordBytes, TakesIt
  <2> QED
    BY <2>1, <2>2
<1>4. res.err = "NONE" => ~res.drop
  <2>1. CASE fires
    BY <1>2, <2>1, Zenon DEF WordTaken
  <2>2. CASE ~fires
    BY <2>2, NothingTaken, Zenon
  <2> QED
    BY <2>1, <2>2
<1>5. /\ Len(lengths) \in Nat /\ Len(lengths) <= LEN_FIFO_DEPTH
      /\ LEN_FIFO_DEPTH \in Nat
      /\ len_fires => Len(lengths) + 1 <= LEN_FIFO_DEPTH
      /\ len_fires => length \in MsgLengths
  BY LengthTypes, DataRealignAssumption DEF LengthInv, s_msg_len_ready_o
<1>6. res.err = "NONE" =>
        /\ ResultType(Prefetched(res))
        /\ Total(Prefetched(res).msg, Prefetched(res).lens) = Total(res.msg, res.lens)
  BY <1>3, PrefetchKeeps
<1>7. /\ Prefetched(res).err = res.err /\ Prefetched(res).drop = res.drop
      /\ Accepted(Prefetched(res), length).err = Prefetched(res).err
      /\ Accepted(Prefetched(res), length).drop = Prefetched(res).drop
  BY <1>3, VerdictKept
<1> HIDE DEF res
<1>8. CASE res.err # "NONE"
  <2>1. next = res
    BY <1>8
  <2> HIDE DEF next
  <2>2. LengthInv'
    BY <1>1, <1>3, <1>5, <2>1 DEF LengthInv, ResultType
  <2> QED
    BY <1>3, <1>8, <2>2
<1>9. CASE res.err = "NONE" /\ len_fires
  <2> DEFINE got == Prefetched(res)
             all == Accepted(got, length)
  <2>1. next = all
    BY <1>9
  <2>2. /\ IsMsg(all.msg) /\ all.lens \in Seq(MsgLengths)
        /\ Len(all.lens) <= Len(lengths) + 1
        /\ Total(all.msg, all.lens) = Total(got.msg, got.lens) + length
    BY <1>5, <1>6, <1>9, AcceptedKeeps
  <2>3. Len(all.lens) \in Nat /\ Total(got.msg, got.lens) \in Nat /\ length \in Nat
    <3>1. ResultType(got)
      BY <1>6, <1>9
    <3> QED
      BY <1>5, <1>9, <2>2, <3>1, LenProperties, SumOfType, MaxNumberType
         DEF ResultType, IsMsg, Total, MsgLengths
  <2>4. all.err = res.err /\ all.drop = res.drop
    BY <1>7
  <2> HIDE DEF next, all, got
  <2>5. LengthInv'
    BY <1>1, <1>5, <1>9, <2>1, <2>2, <2>3 DEF LengthInv
  <2>6. realign_err' = "NONE"
    BY <1>1, <1>9, <2>1, <2>4
  <2>7. ~dropping_payload'
    BY <1>1, <1>4, <1>9, <2>1, <2>4, Zenon
  <2>8. Total(message', lengths') = Total(res.msg, res.lens) + length
    BY <1>1, <1>6, <1>9, <2>1, <2>2 DEF got
  <2>9. Total(res.msg, res.lens) \in Nat /\ WordBytes(word, ready_i) \in Nat
    BY <1>6, <1>9, <2>3, WordLength DEF WordBytes, got
  <2>10. NewLength(len_valid, length) = length
    BY <1>9 DEF NewLength
  <2>11. Total(message', lengths') + WordBytes(word, ready_i)
          = Total(message, lengths) + NewLength(len_valid, length)
    <3>1. \A a, b, c \in Nat : (a + b) + c = (a + c) + b
      OBVIOUS
    <3>2. (Total(res.msg, res.lens) + length) + WordBytes(word, ready_i)
            = (Total(res.msg, res.lens) + WordBytes(word, ready_i)) + length
      BY <2>3, <2>9, <3>1
    <3> QED
      BY <1>3, <1>9, <2>8, <2>10, <3>2, Zenon
  <2> QED
    BY <2>5, <2>6, <2>7, <2>11 DEF Realigned
<1>10. CASE res.err = "NONE" /\ ~len_fires
  <2> DEFINE got == Prefetched(res)
  <2>1. next = got
    BY <1>10
  <2>2. ResultType(got) /\ got.err = res.err /\ got.drop = res.drop
    BY <1>6, <1>7, <1>10
  <2>3. Len(got.lens) \in Nat
    BY <2>2, LenProperties DEF ResultType
  <2> HIDE DEF next, got
  <2>4. LengthInv'
    BY <1>1, <1>5, <2>1, <2>2, <2>3 DEF LengthInv, ResultType
  <2>5. realign_err' = "NONE"
    BY <1>1, <1>10, <2>1, <2>2
  <2>6. ~dropping_payload'
    BY <1>1, <1>4, <1>10, <2>1, <2>2, Zenon
  <2>7. Total(message', lengths') = Total(res.msg, res.lens)
    BY <1>1, <1>6, <1>10, <2>1 DEF got
  <2>8. NewLength(len_valid, length) = 0 /\ Total(message, lengths) \in Nat
    BY <1>10, LengthTypes DEF NewLength, Total
  <2>9. Total(message', lengths') + WordBytes(word, ready_i)
          = Total(message, lengths) + NewLength(len_valid, length)
    BY <1>3, <1>10, <2>7, <2>8
  <2> QED
    BY <2>4, <2>5, <2>6, <2>9 DEF Realigned
<1> QED
  BY <1>8, <1>9, <1>10

LEMMA RealignKeeps ==
  ASSUME LengthInv, NEW word, word.bytes \in Words,
         NEW len_valid, NEW length, len_valid => length \in MsgLengths, NEW ready_i,
         DataRealignStep(word, len_valid, length, ready_i)
  PROVE  /\ LengthInv'
         /\ ~dropping_payload /\ TakesIt(word, ready_i)
              => Realigned(word, len_valid, length, ready_i)
<1>1. CASE DropPayload(WordFires(word, ready_i), word, ready_i)
  <2>1. <<>> \in Seq(MsgLengths) /\ Len(<<>>) = 0 /\ 0 <= LEN_FIFO_DEPTH
    BY EmptySeq, DataRealignAssumption
  <2>2. \/ lengths' = <<>> /\ message' = NoMessage
        \/ lengths' = lengths /\ message' = message
    BY <1>1, Zenon DEF DropPayload
  <2>3. LengthInv'
    BY <2>1, <2>2, EmptyMessages DEF LengthInv
  <2>4. dropping_payload
    BY <1>1, Zenon DEF DropPayload
  <2> QED
    BY <2>3, <2>4
<1>2. CASE Realign(WordFires(word, ready_i), word, len_valid /\ s_msg_len_ready_o, length,
                   ready_i)
  <2>1. ~dropping_payload
    BY <1>2, Zenon DEF Realign
  <2> QED
    BY <1>2, <2>1, RealignRegisters
<1>3. \/ DropPayload(WordFires(word, ready_i), word, ready_i)
      \/ Realign(WordFires(word, ready_i), word, len_valid /\ s_msg_len_ready_o, length,
                 ready_i)
  BY Zenon DEF DataRealignStep, WordFires
<1> QED
  BY <1>1, <1>2, <1>3


-----------------------------------------------------------------------------
(* All stages on one clock.                                                *)
DataInv ==
  /\ SourceInv
  /\ CrackInv
  /\ ParserInv
  /\ FoundInv
  /\ OutputInv
  /\ LengthInv

LEMMA InitDataInv == IngressInit => DataInv
<1> SUFFICES ASSUME IngressInit PROVE DataInv
  OBVIOUS
<1>1. /\ <<>> \in Words /\ <<>> \in Seq(Nat) /\ <<>> \in Seq(Beats)
      /\ <<>> \in Seq(MsgLengths) /\ Len(<<>>) = 0
  BY NoWordIsAWord, EmptySeq
<1>2. SourceInv
  BY DEF IngressInit, SourceInv
<1>3. CrackInv
  BY <1>1 DEF IngressInit, FrameCrackInit, CrackInv, NoBeat
<1>4. ParserInv
  BY <1>1, MaxNumberType DEF IngressInit, MoldDeframeInit, ParserInv, BODY_FIFO_DEPTH
<1>5. FoundInv /\ OutputInv
  BY <1>1 DEF IngressInit, MoldDeframeInit, FoundInv, OutputInv, NoWord, MD_LEN_FIFO_DEPTH,
              RESERVOIR_BYTES, AXIS_KEEP_W
<1>6. LengthInv
  BY <1>1, EmptyMessages, DataRealignAssumption DEF IngressInit, DataRealignInit, LengthInv
<1> QED
  BY <1>2, <1>3, <1>4, <1>5, <1>6 DEF DataInv

(* What the deframer offers data_realign.                                  *)
LEMMA Offered ==
  ASSUME DataInv
  PROVE  /\ m_payload.bytes \in Words
         /\ m_msg_len_valid_o => Head(len_fifo) \in MsgLengths
<1>1. m_msg_len_valid_o => Head(len_fifo) \in MsgLengths
  BY HeadTailProperties DEF m_msg_len_valid_o, DataInv, FoundInv
<1> QED
  BY <1>1 DEF DataInv, OutputInv

LEMMA ClockKeepsData ==
  ASSUME DataInv, NEW valid \in BOOLEAN, NEW ready \in BOOLEAN, Clock(valid, ready)
  PROVE  DataInv'
<1>1. SourceInv'
  BY SourceKeeps DEF DataInv, Clock
<1>2. CrackInv'
  <2>1. valid => BeatOf(frame_now, beat_no).payload \in Words
                   /\ BeatOf(frame_now, beat_no).declared \in Nat
    <3> SUFFICES ASSUME valid
                 PROVE  BeatOf(frame_now, beat_no).payload \in Words
                          /\ BeatOf(frame_now, beat_no).declared \in Nat
      OBVIOUS
    <3>1. SourceInv /\ ~AllSent
      BY DEF DataInv, Clock
    <3>2. frame_now \in Frames /\ beat_no \in Nat
      BY <3>1, FrameOnTheWire DEF SourceInv
    <3>3. BeatPayload(frame_now, beat_no) \in Words /\ frame_now.declared \in Nat
      BY <3>2, BeatIsAWord DEF Frames
    <3> QED
      BY <3>3 DEF BeatOf
  <2>2. FrameCrackStep(valid, BeatOf(frame_now, beat_no), s_axis_tready_o)
    BY DEF Clock
  <2> QED
    BY <2>1, <2>2, CrackKeeps DEF DataInv
<1>3. MoldDeframeStep(m_axis, fc_dgram_len, s_payload_tready_o(m_payload, ready),
                      s_msg_len_ready_o)
  BY Zenon DEF Clock
<1>4. ParserInv' /\ FoundInv'
  <2>1. m_axis.bytes \in Words
    BY DEF DataInv, CrackInv
  <2> QED
    BY <1>3, <2>1, ParserKeeps DEF DataInv
<1>5. OutputInv'
  BY <1>3, OutputKeeps DEF DataInv
<1>6. LengthInv'
  <2>1. DataRealignStep(m_payload, m_msg_len_valid_o, Head(len_fifo), ready)
    BY Zenon DEF Clock
  <2> QED
    BY <2>1, Offered, RealignKeeps DEF DataInv
<1> QED
  BY <1>1, <1>2, <1>4, <1>5, <1>6 DEF DataInv

LEMMA SameData == ASSUME DataInv, UNCHANGED ingress_vars PROVE DataInv'
<1>1. SourceInv' /\ CrackInv'
  BY DEF ingress_vars, source_vars, frame_crack_vars, DataInv, SourceInv, CrackInv
<1>2. ParserInv' /\ FoundInv'
  BY DEF ingress_vars, mold_deframe_vars, parser_vars, DataInv, ParserInv, FoundInv
<1>3. OutputInv'
  BY DEF ingress_vars, mold_deframe_vars, output_vars, DataInv, OutputInv
<1>4. LengthInv'
  BY DEF ingress_vars, data_realign_vars, DataInv, LengthInv
<1> QED
  BY <1>1, <1>2, <1>3, <1>4 DEF DataInv

LEMMA StepKeepsData == DataInv /\ [IngressNext]_ingress_vars => DataInv'
BY ClockKeepsData, SameData DEF IngressNext

(* Whatever the frames hold, the registers hold words, numbers and lengths *)
(* of messages that are never zero.                                        *)
THEOREM DataIsWellFormed == IngressSafety => []DataInv
BY InitDataInv, StepKeepsData, PTL DEF IngressSafety

(* Whatever the frames hold and whenever the sink pauses, no buffer of the *)
(* deframer or of data_realign overflows: the handshakes leave room for    *)
(* the word and the length that are already on their way.                  *)
THEOREM NoBufferOverflows == IngressSafety => []BuffersHaveRoom
<1>1. DataInv => BuffersHaveRoom
  BY DEF DataInv, ParserInv, OutputInv, LengthInv, BuffersHaveRoom
<1> QED
  BY <1>1, DataIsWellFormed, PTL


-----------------------------------------------------------------------------
(*                  4. The guard inside the deframer                       *)
-----------------------------------------------------------------------------
(* The deframer moves the guard in the guard cycle only, with the numbers  *)
(* of the header it has collected.                                         *)
LEMMA GuardMoves ==
  ASSUME NEW beat, NEW declared, NEW payload_ready, NEW len_ready,
         MoldDeframeStep(beat, declared, payload_ready, len_ready)
  PROVE  UNCHANGED vars \/ Header(seq_o, count_o, FALSE)
<1>1. CASE HeaderStep(InputFire(beat), beat, declared)
  BY <1>1, Zenon DEF HeaderStep
<1>2. CASE GuardStep(InputFire(beat), beat, declared)
  BY <1>2, Zenon DEF GuardStep
<1>3. CASE BodyStep(InputFire(beat), beat, declared, len_ready)
  BY <1>3, Zenon DEF BodyStep
<1>4. CASE DrainStep(InputFire(beat), beat, declared)
  BY <1>4, Zenon DEF DrainStep
<1>5. CASE DoneStep(len_ready)
  BY <1>5, Zenon DEF DoneStep
<1>6. CASE Cleanup
  BY <1>6, Zenon DEF Cleanup
<1> QED
  BY <1>1, <1>2, <1>3, <1>4, <1>5, <1>6, Zenon DEF MoldDeframeStep

(* ... and so does the ingress.                                            *)
LEMMA GuardMovesInIngress ==
  ASSUME DataInv, [IngressNext]_ingress_vars
  PROVE  \/ UNCHANGED vars
         \/ /\ Header(seq_o, count_o, FALSE)
            /\ seq_o \in 0 .. MaxNumber /\ count_o \in 0 .. MaxNumber
<1>1. CASE UNCHANGED ingress_vars
  BY <1>1 DEF ingress_vars, mold_deframe_vars
<1>2. ASSUME NEW valid \in BOOLEAN, NEW ready \in BOOLEAN, Clock(valid, ready)
      PROVE  UNCHANGED vars \/ Header(seq_o, count_o, FALSE)
  <2>1. MoldDeframeStep(m_axis, fc_dgram_len, s_payload_tready_o(m_payload, ready),
                        s_msg_len_ready_o)
    BY <1>2, Zenon DEF Clock
  <2> QED
    BY <2>1, GuardMoves
<1>3. seq_o \in 0 .. MaxNumber /\ count_o \in 0 .. MaxNumber
  BY DEF DataInv, ParserInv
<1> QED
  BY <1>1, <1>2, <1>3 DEF IngressNext

LEMMA GuardInvKept ==
  DataInv /\ IInv /\ [IngressNext]_ingress_vars => IInv'
<1> SUFFICES ASSUME DataInv, IInv, [IngressNext]_ingress_vars PROVE IInv'
  OBVIOUS
<1>1. CASE UNCHANGED vars
  BY <1>1, SameIInv
<1>2. CASE Header(seq_o, count_o, FALSE) /\ seq_o \in 0 .. MaxNumber
             /\ count_o \in 0 .. MaxNumber
  <2>1. seq_o \in Nat /\ count_o \in Nat /\ FALSE \in BOOLEAN
    BY <1>2, MaxNumberType
  <2> QED
    BY <1>2, <2>1, HeaderIInv
<1> QED
  BY <1>1, <1>2, GuardMovesInIngress

(* The guard's invariant, with the headers the deframer collects from any  *)
(* frames at all.                                                          *)
THEOREM GuardInvInIngress == IngressSafety => []IInv
<1>1. IngressInit => IInv
  BY InitIInv DEF IngressInit, MoldDeframeInit
<1> QED
  BY <1>1, GuardInvKept, DataIsWellFormed, PTL DEF IngressSafety

(* Of the whole ingress: every number from the first one up to the         *)
(* expectation was forwarded or lies in a reported gap, ...                *)
THEOREM IngressLosesNothingSilently == IngressSafety => []NoSilentLoss
<1>1. IInv => NoSilentLoss
  BY DEF IInv, Accounted
<1> QED
  BY <1>1, GuardInvInIngress, PTL

(* ... the gap registers name numbers that are really missing, ...         *)
THEOREM IngressGapRegistersAreTrue == IngressSafety => []GapRegistersTrue
<1>1. IInv => GapRegistersTrue
  BY DEF IInv
<1> QED
  BY <1>1, GuardInvInIngress, PTL

(* ... and what was forwarded is what is below the expectation and in no   *)
(* gap: the first part of AllAccountedFor, at rest or not.                 *)
ForwardedIsTheRest ==
  have_expected => forwarded = (first .. (expected_seq - 1)) \ reported

THEOREM IngressForwardsTheRest == IngressSafety => []ForwardedIsTheRest
<1>1. IInv => ForwardedIsTheRest
  BY DEF IInv, Accounted, NoSilentLoss, GapIsFinal, ForwardedIsTheRest
<1> QED
  BY <1>1, GuardInvInIngress, PTL

(* No number is forwarded twice or out of order, whatever copies the two   *)
(* feeds bring.                                                            *)
THEOREM IngressForwardsOnce == IngressSafety => ForwardOnce
<1>1. ASSUME DataInv, IInv, [IngressNext]_ingress_vars
      PROVE  [\A n \in forwarded' \ forwarded, m \in forwarded : m < n]_vars
  <2>1. CASE UNCHANGED vars
    BY <2>1
  <2>2. ASSUME Header(seq_o, count_o, FALSE), seq_o \in 0 .. MaxNumber,
               count_o \in 0 .. MaxNumber,
               NEW n \in forwarded' \ forwarded, NEW m \in forwarded
        PROVE  m < n
    <3>1. seq_o \in Nat /\ count_o \in Nat /\ FALSE \in BOOLEAN
      BY <2>2, MaxNumberType
    <3> QED
      BY <1>1, <2>2, <3>1, HeaderForwardsOnce
  <2> QED
    BY <1>1, <2>1, <2>2, GuardMovesInIngress
<1> QED
  BY <1>1, DataIsWellFormed, GuardInvInIngress, PTL DEF IngressSafety, ForwardOnce

(* The guard inside the deframer behaves as the guard alone does, and so   *)
(* implements the in-order feed, once every header two bytes can hold is   *)
(* among its packets and clear_stale_i may be low.                         *)
HeadersAllowed ==
  /\ FALSE \in ClearInputs
  /\ (0 .. MaxNumber) \X (0 .. MaxNumber) \subseteq Packets

THEOREM GuardBehindTheDeframer ==
  ASSUME HeadersAllowed
  PROVE  IngressSafety => Spec
<1>1. IngressInit => Init
  BY DEF IngressInit, MoldDeframeInit
<1>2. ASSUME DataInv, [IngressNext]_ingress_vars
      PROVE  [Next]_vars
  <2>1. CASE UNCHANGED vars
    BY <2>1
  <2>2. CASE Header(seq_o, count_o, FALSE) /\ seq_o \in 0 .. MaxNumber
               /\ count_o \in 0 .. MaxNumber
    <3> DEFINE p == <<seq_o, count_o>>
    <3>1. p \in Packets /\ FALSE \in ClearInputs
      BY <2>2 DEF HeadersAllowed
    <3>2. p[1] = seq_o /\ p[2] = count_o
      OBVIOUS
    <3> HIDE DEF p
    <3>3. Header(p[1], p[2], FALSE)
      BY <2>2, <3>2
    <3> QED
      BY <3>1, <3>3 DEF Next
  <2> QED
    BY <1>2, <2>1, <2>2, GuardMovesInIngress
<1> QED
  BY <1>1, <1>2, DataIsWellFormed, PTL DEF IngressSafety, Spec

THEOREM IngressImplementsFeed ==
  ASSUME HeadersAllowed
  PROVE  IngressSafety => FeedSpec
BY GuardBehindTheDeframer, GuardImplementsFeed, PTL


-----------------------------------------------------------------------------
(*         5. The books of the deframer and of data_realign                *)
-----------------------------------------------------------------------------
(* The deframer never gives up a datagram of which a length has already    *)
(* been accepted, and never finds a message shorter than a word.  Damage   *)
(* can break the first (a later length that leads out of the datagram);    *)
(* no message of the protocol breaks the second.                           *)
GivesUpNothingPromised == dropping => released_bytes = 0
NoShortMessage == \A i \in DOMAIN len_fifo : len_fifo[i] >= BEAT_BYTES

(* Where the parser is and what may be on its way.                         *)
OutputEmpty ==
  /\ desc.bytes = <<>> /\ compact.bytes = <<>> /\ reservoir = <<>>
  /\ m_payload.bytes = <<>> /\ len_fifo = <<>> /\ released_bytes = 0
  /\ payload_left = 0 /\ ~payload_generation_done

PhaseInv ==
  /\ state \in {"HEADER", "GUARD", "BODY", "DRAIN", "DONE"}
  /\ state \in {"HEADER", "GUARD", "BODY"} => ~dropping
  /\ state = "DRAIN" => dropping
  /\ dropping => len_fifo = <<>>
  /\ state \in {"HEADER", "GUARD"} => OutputEmpty

(* The last word of a datagram comes behind all others, after the parser   *)
(* is done; a word that is not the last is full.                           *)
LastInFlight == desc.last \/ compact.last \/ payload_generation_done

LastInv ==
  /\ ~dropping /\ LastInFlight => state = "DONE"
  /\ ~dropping /\ state = "DONE" => payload_left = 0
  /\ ~dropping /\ compact.last => desc.bytes = <<>>
  /\ ~dropping /\ payload_generation_done => desc.bytes = <<>> /\ compact.bytes = <<>>

PresentedInv ==
  /\ m_payload.last =>
       /\ payload_generation_done /\ ~dropping
       /\ reservoir = <<>> /\ released_bytes = 0 /\ len_fifo = <<>>
  /\ m_payload.bytes # <<>> /\ ~m_payload.last => Len(m_payload.bytes) = AXIS_KEEP_W

(* The deframer's books: the bytes it may still send, and those it has or  *)
(* waits for.                                                              *)
Owed == released_bytes + SumOf(len_fifo)
Held == Len(reservoir) + Len(compact.bytes) + Len(desc.bytes) + payload_left

OwedInv == ~dropping => Owed = Held

(* What leaves and what is accepted in a cycle.                            *)
SentBytes(payload_ready) ==
  IF IsWord(m_payload) /\ payload_ready THEN Len(m_payload.bytes) ELSE 0
AcceptedLength(len_ready) ==
  IF m_msg_len_valid_o /\ len_ready THEN Head(len_fifo) ELSE 0

LEMMA Emptiness ==
  ASSUME NEW word \in Words
  PROVE  Len(word) = 0 <=> word = <<>>
BY EmptyWord, WordLength

LEMMA NoWordIsEmpty == NoWord.bytes = <<>> /\ ~NoWord.last /\ Len(<<>>) = 0
BY DEF NoWord

(* What becomes of the bytes between parser and output.                    *)
LEMMA BytesMove ==
  ASSUME OutputInv, FoundInv, NEW payload_ready, NEW len_ready,
         MoveOutput(payload_ready, len_ready)
  PROVE  /\ Len(compact'.bytes) \in Nat /\ Len(DescLeft.bytes) \in Nat
         /\ Len(reservoir') \in Nat
         /\ Len(reservoir') + Len(compact'.bytes) + Len(DescLeft.bytes)
              + EmitCount(payload_ready)
              = Len(reservoir) + Len(compact.bytes) + Len(desc.bytes)
<1> DEFINE emit == EmitCount(payload_ready)
           moved == IF compact_fire THEN Len(compact.bytes) ELSE 0
           r == Len(reservoir)      r2 == Len(reservoir')
           c == Len(compact.bytes)  c2 == Len(compact'.bytes)
           d == Len(desc.bytes)     d2 == Len(DescLeft.bytes)
<1>1. r \in Nat /\ emit \in Nat /\ r2 \in Nat /\ r2 = r - emit + moved
  BY LenProperties, EmitFacts, ReservoirStep DEF OutputInv
<1>2. c \in Nat /\ d \in Nat
  BY WordLength DEF OutputInv, FoundInv
<1>3. compact' = IF desc_fire THEN desc ELSE IF compact_fire THEN NoWord ELSE compact
  BY DEF MoveOutput
<1>4. desc_fire => c2 = d /\ d2 = 0 /\ moved = c
  <2> SUFFICES ASSUME desc_fire PROVE c2 = d /\ d2 = 0 /\ moved = c
    OBVIOUS
  <2>1. compact' = desc /\ DescLeft.bytes = <<>>
    BY <1>3, NoWordIsEmpty DEF DescLeft
  <2>2. ~compact_fire => compact.bytes = <<>>
    BY DEF desc_fire, compact_slot_available, compact_fire, IsWord
  <2> QED
    BY <2>1, <2>2, NoWordIsEmpty
<1>5. ~desc_fire /\ compact_fire => c2 = 0 /\ d2 = d /\ moved = c
  BY <1>3, NoWordIsEmpty DEF DescLeft
<1>6. ~desc_fire /\ ~compact_fire => c2 = c /\ d2 = d /\ moved = 0
  BY <1>3 DEF DescLeft
<1> HIDE DEF emit, moved, r, r2, c, c2, d, d2
<1>7. c2 \in Nat /\ d2 \in Nat /\ r2 + c2 + d2 + emit = r + c + d
  BY <1>1, <1>2, <1>4, <1>5, <1>6
<1> QED
  BY <1>1, <1>7, Zenon DEF emit, r, r2, c, c2, d, d2

(* ... of the lengths, ...                                                 *)
LEMMA LengthsMove ==
  ASSUME FoundInv, NEW len_ready
  PROVE  /\ SumOf(LengthsLeft(len_ready)) \in Nat /\ AcceptedLength(len_ready) \in Nat
         /\ SumOf(LengthsLeft(len_ready)) + AcceptedLength(len_ready) = SumOf(len_fifo)
<1>1. len_fifo \in Seq(MsgLengths) /\ SumOf(len_fifo) \in Nat
  BY SumOfType DEF FoundInv
<1>2. CASE m_msg_len_valid_o /\ len_ready
  <2>1. len_fifo # <<>>
    BY <1>2 DEF m_msg_len_valid_o
  <2>2. /\ Head(len_fifo) \in MsgLengths /\ Head(len_fifo) \in Nat
        /\ Tail(len_fifo) \in Seq(MsgLengths)
    BY <1>1, <2>1, HeadTailProperties, MaxNumberType DEF MsgLengths
  <2>3. /\ SumOf(len_fifo) = Head(len_fifo) + SumOf(Tail(len_fifo))
        /\ SumOf(Tail(len_fifo)) \in Nat
    BY <1>1, <2>1, <2>2, SumOfHeadTail, SumOfType
  <2>4. LengthsLeft(len_ready) = Tail(len_fifo) /\ AcceptedLength(len_ready) = Head(len_fifo)
    BY <1>2 DEF LengthsLeft, AcceptedLength
  <2> QED
    BY <2>2, <2>3, <2>4
<1>3. CASE ~(m_msg_len_valid_o /\ len_ready)
  BY <1>1, <1>3 DEF LengthsLeft, AcceptedLength
<1> QED
  BY <1>2, <1>3

(* ... and of the word presented.                                          *)
LEMMA WordsMove ==
  ASSUME OutputInv, FoundInv, NEW payload_ready, NEW len_ready,
         MoveOutput(payload_ready, len_ready)
  PROVE  /\ released_bytes' \in Nat /\ EmitCount(payload_ready) \in Nat
         /\ released_bytes' + EmitCount(payload_ready)
              = released_bytes + AcceptedLength(len_ready)
         /\ released_bytes' + Len(m_payload'.bytes) + SentBytes(payload_ready)
              = released_bytes + Len(m_payload.bytes) + AcceptedLength(len_ready)
<1> DEFINE emit == EmitCount(payload_ready)
           more == AcceptedLength(len_ready)
<1>1. /\ emit \in Nat /\ emit <= released_bytes /\ emit <= Len(reservoir)
      /\ emit # 0 => ~IsWord(m_payload) \/ payload_ready
      /\ released_bytes \in Nat /\ more \in Nat
      /\ reservoir \in Seq(Nat) /\ Len(reservoir) \in Nat
  BY EmitFacts, LengthsMove, LenProperties DEF OutputInv
<1>2. released_bytes' = released_bytes - emit + more
  BY DEF MoveOutput, AcceptedLength
<1>3. released_bytes' \in Nat /\ released_bytes' + emit = released_bytes + more
  BY <1>1, <1>2
<1>4. /\ m_payload.bytes \in Words /\ Len(m_payload.bytes) \in Nat
      /\ ~IsWord(m_payload) => Len(m_payload.bytes) = 0
  BY WordLength, NoWordIsEmpty DEF OutputInv, IsWord
<1>5. CASE emit = 0
  <2>1. m_payload' = AfterOutput(payload_ready)
    BY <1>5 DEF MoveOutput
  <2>2. Len(m_payload'.bytes) + SentBytes(payload_ready) = Len(m_payload.bytes)
    <3>1. CASE payload_ready
      <4>1. m_payload'.bytes = <<>>
        BY <2>1, <3>1, NoWordIsEmpty DEF AfterOutput
      <4>2. Len(m_payload'.bytes) = 0
        BY <4>1, NoWordIsEmpty
      <4>3. SentBytes(payload_ready) = Len(m_payload.bytes)
        BY <1>4, <3>1 DEF SentBytes
      <4> QED
        BY <1>4, <4>2, <4>3
    <3>2. CASE ~payload_ready
      BY <1>4, <2>1, <3>2 DEF AfterOutput, SentBytes
    <3> QED
      BY <3>1, <3>2
  <2>3. Len(m_payload'.bytes) \in Nat /\ SentBytes(payload_ready) \in Nat
    <3>1. Len(m_payload'.bytes) \in Nat
      BY <1>4, <2>1, NoWordIsEmpty DEF AfterOutput
    <3> QED
      BY <1>4, <3>1 DEF SentBytes
  <2>4. released_bytes' = released_bytes + more
    BY <1>1, <1>2, <1>5
  <2>5. (released_bytes + more) + Len(m_payload'.bytes) + SentBytes(payload_ready)
          = released_bytes + Len(m_payload.bytes) + more
    <3> DEFINE w == Len(m_payload.bytes)
               w2 == Len(m_payload'.bytes)
               sent == SentBytes(payload_ready)
    <3>1. w \in Nat /\ w2 \in Nat /\ sent \in Nat /\ w2 + sent = w
      BY <1>4, <2>2, <2>3
    <3> HIDE DEF w, w2, sent, more
    <3>2. (released_bytes + more) + w2 + sent = released_bytes + w + more
      BY <1>1, <3>1
    <3> QED
      BY <3>2, Zenon DEF w, w2, sent
  <2> QED
    BY <1>1, <1>3, <2>4, <2>5
<1>6. CASE emit # 0
  <2>1. m_payload' = [bytes |-> Taking(reservoir, emit), last |-> EmitsLast]
    BY <1>6 DEF MoveOutput
  <2>2. Len(m_payload'.bytes) = emit
    <3>1. Len(Taking(reservoir, emit)) = emit
      BY <1>1, TakingType DEF Smaller
    <3> QED
      BY <2>1, <3>1
  <2>3. SentBytes(payload_ready) = Len(m_payload.bytes)
    BY <1>1, <1>4, <1>6 DEF SentBytes
  <2>4. released_bytes' + emit + Len(m_payload.bytes)
          = released_bytes + Len(m_payload.bytes) + more
    BY <1>1, <1>3, <1>4
  <2>5. released_bytes' + Len(m_payload'.bytes) + SentBytes(payload_ready)
          = released_bytes' + emit + Len(m_payload.bytes)
    BY <2>2, <2>3, Zenon
  <2> QED
    BY <1>1, <1>3, <2>4, <2>5, Zenon
<1> QED
  BY <1>5, <1>6


-----------------------------------------------------------------------------
(* The phases.  Between two datagrams nothing is on its way.               *)
LEMMA QuietOutput ==
  ASSUME OutputEmpty, NEW payload_ready, NEW len_ready,
         MoveOutput(payload_ready, len_ready)
  PROVE  /\ compact'.bytes = <<>> /\ reservoir' = <<>> /\ m_payload'.bytes = <<>>
         /\ released_bytes' = 0
         /\ ~payload_generation_done'
<1>1. ~IsWord(desc) /\ ~IsWord(compact) /\ ~IsWord(m_payload) /\ ~m_msg_len_valid_o
  BY DEF OutputEmpty, IsWord, m_msg_len_valid_o
<1>2. ~desc_fire /\ ~compact_fire
  BY <1>1, Zenon DEF desc_fire, compact_fire
<1>3. EmitCount(payload_ready) = 0
  <2>1. ~EmitsLast
    BY Zenon DEF EmitsLast, OutputEmpty
  <2>2. ~EmitsFull
    BY NoWordIsEmpty DEF EmitsFull, OutputEmpty, AXIS_KEEP_W
  <2> QED
    BY <2>1, <2>2 DEF EmitCount
<1>4. compact'.bytes = <<>> /\ released_bytes' = 0 /\ m_payload'.bytes = <<>>
  BY <1>1, <1>2, <1>3, NoWordIsEmpty DEF MoveOutput, OutputEmpty, AfterOutput
<1>5. reservoir' = <<>>
  <2>1. <<>> \in Seq(Nat) /\ Len(<<>>) = 0
    BY EmptySeq
  <2>2. \A bytes \in Seq(Nat) : Len(bytes) = 0 => Leaving(bytes, 0) = <<>>
    <3> SUFFICES ASSUME NEW bytes \in Seq(Nat), Len(bytes) = 0
                 PROVE  Leaving(bytes, 0) = <<>>
      OBVIOUS
    <3>1. 0 \in Nat
      OBVIOUS
    <3>2. /\ Leaving(bytes, 0) \in Seq(Nat)
          /\ Len(Leaving(bytes, 0)) = IF 0 <= Len(bytes) THEN Len(bytes) - 0 ELSE 0
      BY <3>1, LeavingType, Zenon
    <3>3. Len(Leaving(bytes, 0)) = 0
      BY <3>2
    <3> QED
      BY <3>2, <3>3, EmptyWord
  <2>3. Leaving(<<>>, 0) = <<>>
    BY <2>1, <2>2
  <2>4. reservoir' = Leaving(reservoir, 0) \o <<>>
    BY <1>2, <1>3 DEF MoveOutput
  <2>5. <<>> \o <<>> = <<>>
    BY <2>1, ConcatEmptySeq
  <2> QED
    BY <2>3, <2>4, <2>5 DEF OutputEmpty
<1>6. ~payload_generation_done'
  <2>1. payload_generation_done' =
          (payload_generation_done \/ (compact_fire /\ compact.last))
    BY Zenon DEF MoveOutput
  <2>2. ~payload_generation_done
    BY Zenon DEF OutputEmpty
  <2> QED
    BY <1>2, <2>1, <2>2, Zenon
<1> QED
  BY <1>4, <1>5, <1>6

(* The output stage of a step that is not the cleanup.                     *)
OutputMoves(payload_ready, len_ready) ==
  DiscardOutput(payload_ready) \/ MoveOutput(payload_ready, len_ready)

LEMMA OutputStage ==
  ASSUME NEW beat, NEW declared, NEW payload_ready, NEW len_ready,
         MoldDeframeStep(beat, declared, payload_ready, len_ready)
  PROVE  /\ ~cleanup_ready => OutputMoves(payload_ready, len_ready)
         /\ cleanup_ready => NothingBuffered /\ m_payload' = NoWord
         /\ ~cleanup_ready /\ ~dropping => MoveOutput(payload_ready, len_ready)
         /\ ~cleanup_ready /\ dropping => DiscardOutput(payload_ready)
         /\ state # "DONE" => ~cleanup_ready
<1>1. /\ ~cleanup_ready => OutputMoves(payload_ready, len_ready)
      /\ cleanup_ready => NothingBuffered /\ m_payload' = NoWord
  BY Zenon DEF MoldDeframeStep, OutputMoves
<1>2. /\ DiscardOutput(payload_ready) => dropping
      /\ MoveOutput(payload_ready, len_ready) => ~dropping
  BY Zenon DEF DiscardOutput, MoveOutput
<1>3. state # "DONE" => ~cleanup_ready
  BY Zenon DEF cleanup_ready
<1> QED
  BY <1>1, <1>2, <1>3, Zenon DEF OutputMoves

(* What the parser's part of a step does to the phase.                     *)
PhaseStep ==
  /\ state' \in {"HEADER", "GUARD", "BODY", "DRAIN", "DONE"}
  /\ state' \in {"HEADER", "GUARD", "BODY"} => ~dropping'
  /\ state' = "DRAIN" => dropping'
  /\ dropping' => len_fifo' = <<>>

LEMMA HeaderPhase ==
  ASSUME PhaseInv, NEW fire, NEW beat, NEW declared, HeaderStep(fire, beat, declared)
  PROVE  /\ PhaseStep
         /\ desc' = desc /\ len_fifo' = len_fifo /\ payload_left' = payload_left
<1> DEFINE fault == InputFault(fire, beat, declared)
<1>1. /\ dropping' = fault
      /\ state' = IF fault THEN "DRAIN"
                  ELSE IF fire /\ header_beat_idx = 2 THEN "GUARD" ELSE "HEADER"
      /\ desc' = desc /\ len_fifo' = len_fifo /\ payload_left' = payload_left
      /\ state = "HEADER"
  BY Zenon DEF HeaderStep, KeepContext
<1>2. len_fifo = <<>>
  BY <1>1, Zenon DEF PhaseInv, OutputEmpty
<1> HIDE DEF fault
<1>3. CASE fault
  <2>1. dropping'
    BY <1>1, <1>3, Zenon
  <2>2. state' = "DRAIN"
    BY <1>1, <1>3
  <2> QED
    BY <1>1, <1>2, <2>1, <2>2 DEF PhaseStep
<1>4. CASE ~fault
  <2>1. ~dropping'
    BY <1>1, <1>4, Zenon
  <2>2. state' \in {"GUARD", "HEADER"}
    BY <1>1, <1>4
  <2> QED
    BY <1>1, <1>2, <2>1, <2>2 DEF PhaseStep
<1> QED
  BY <1>3, <1>4

LEMMA GuardPhase ==
  ASSUME PhaseInv, NEW fire, NEW beat, NEW declared, GuardStep(fire, beat, declared)
  PROVE  /\ PhaseStep /\ state' \in {"BODY", "DRAIN"}
         /\ desc' = desc /\ len_fifo' = len_fifo /\ payload_left' = 0
<1> DEFINE fault == InputFault(fire, beat, declared) \/ GuardFault
<1>1. /\ dropping' = (fault \/ ~GuardAccepts)
      /\ state' = IF ~fault /\ GuardAccepts THEN "BODY" ELSE "DRAIN"
      /\ desc' = desc /\ len_fifo' = len_fifo
      /\ payload_left' = IF GuardAccepts THEN 0 ELSE payload_left
      /\ state = "GUARD"
  BY Zenon DEF GuardStep
<1>2. len_fifo = <<>> /\ payload_left = 0
  BY <1>1, Zenon DEF PhaseInv, OutputEmpty
<1> HIDE DEF fault
<1>3. CASE ~fault /\ GuardAccepts
  <2>1. ~dropping'
    BY <1>1, <1>3, Zenon
  <2> QED
    BY <1>1, <1>2, <1>3, <2>1 DEF PhaseStep
<1>4. CASE ~(~fault /\ GuardAccepts)
  <2>1. dropping'
    BY <1>1, <1>4, Zenon
  <2>2. state' = "DRAIN"
    BY <1>1, <1>4
  <2> QED
    BY <1>1, <1>2, <2>1, <2>2 DEF PhaseStep
<1> QED
  BY <1>3, <1>4

LEMMA BodyPhase ==
  ASSUME PhaseInv, NEW fire, NEW beat, NEW declared, NEW len_ready,
         BodyStep(fire, beat, declared, len_ready)
  PROVE  PhaseStep /\ state' # "HEADER" /\ state' # "GUARD" /\ ~dropping
<1>1. state = "BODY" /\ ~dropping
  BY Zenon DEF BodyStep, PhaseInv
<1>2. CASE ParserWaits(fire, beat, declared, len_ready)
  BY <1>1, <1>2 DEF ParserWaits, PhaseStep
<1>3. CASE Parsed(Parse, fire, beat, declared, len_ready)
  <2>1. state' \in {"BODY", "DONE"} /\ dropping' = dropping
    BY <1>3 DEF Parsed
  <2> QED
    BY <1>1, <2>1 DEF PhaseStep
<1>4. CASE ParserFaults(fire, beat, declared)
  BY <1>1, <1>4 DEF ParserFaults, PhaseStep
<1> QED
  BY <1>1, <1>2, <1>3, <1>4 DEF BodyStep

LEMMA DrainPhase ==
  ASSUME PhaseInv, NEW fire, NEW beat, NEW declared, DrainStep(fire, beat, declared)
  PROVE  PhaseStep /\ state' # "HEADER" /\ state' # "GUARD" /\ dropping /\ dropping'
<1>1. /\ state = "DRAIN" /\ state' \in {"DONE", "DRAIN"} /\ len_fifo' = len_fifo
  BY DEF DrainStep
<1>2. dropping
  BY <1>1, Zenon DEF PhaseInv
<1>3. dropping'
  BY <1>2, Zenon DEF DrainStep
<1>4. len_fifo = <<>>
  BY <1>2, Zenon DEF PhaseInv
<1> QED
  BY <1>1, <1>2, <1>3, <1>4 DEF PhaseStep

LEMMA DonePhase ==
  ASSUME PhaseInv, NEW len_ready, DoneStep(len_ready)
  PROVE  /\ PhaseStep /\ state = "DONE" /\ state' = "DONE"
         /\ dropping' <=> dropping
         /\ len_fifo' = LengthsLeft(len_ready) /\ desc' = DescLeft
         /\ payload_left' = payload_left
<1>1. /\ state = "DONE" /\ state' = state /\ len_fifo' = LengthsLeft(len_ready)
      /\ desc' = DescLeft /\ payload_left' = payload_left
  BY Zenon DEF DoneStep, KeepContext
<1>2. dropping' <=> dropping
  BY Zenon DEF DoneStep
<1>3. dropping => LengthsLeft(len_ready) = <<>>
  BY DEF PhaseInv, LengthsLeft, m_msg_len_valid_o
<1> QED
  BY <1>1, <1>2, <1>3 DEF PhaseStep

LEMMA CleanupPhase ==
  ASSUME Cleanup
  PROVE  /\ PhaseStep /\ state' = "HEADER" /\ ~dropping' /\ cleanup_ready
         /\ desc' = NoWord /\ len_fifo' = <<>> /\ payload_left' = 0
<1>1. /\ state' = "HEADER" /\ cleanup_ready
      /\ desc' = NoWord /\ len_fifo' = <<>> /\ payload_left' = 0
  BY Zenon DEF Cleanup
<1>2. ~dropping'
  BY Zenon DEF Cleanup
<1> QED
  BY <1>1, <1>2 DEF PhaseStep

LEMMA PhaseKeeps ==
  ASSUME PhaseInv, NEW beat, NEW declared, NEW payload_ready, NEW len_ready,
         MoldDeframeStep(beat, declared, payload_ready, len_ready)
  PROVE  PhaseInv'
<1> DEFINE fire == InputFire(beat)
<1>1. CASE HeaderStep(fire, beat, declared)
  <2>1. state = "HEADER"
    BY <1>1, Zenon DEF HeaderStep
  <2>2. OutputEmpty /\ ~dropping
    BY <2>1 DEF PhaseInv
  <2>3. MoveOutput(payload_ready, len_ready)
    BY <2>1, <2>2, OutputStage
  <2>4. OutputEmpty'
    BY <1>1, <2>2, <2>3, HeaderPhase, QuietOutput DEF OutputEmpty
  <2> QED
    BY <1>1, <2>4, HeaderPhase DEF PhaseInv, PhaseStep
<1>2. CASE GuardStep(fire, beat, declared)
  <2>1. PhaseStep /\ state' \in {"BODY", "DRAIN"}
    BY <1>2, GuardPhase
  <2> QED
    BY <2>1 DEF PhaseInv, PhaseStep
<1>3. CASE BodyStep(fire, beat, declared, len_ready)
  BY <1>3, BodyPhase DEF PhaseInv, PhaseStep
<1>4. CASE DrainStep(fire, beat, declared)
  BY <1>4, DrainPhase DEF PhaseInv, PhaseStep
<1>5. CASE DoneStep(len_ready)
  BY <1>5, DonePhase DEF PhaseInv, PhaseStep
<1>6. CASE Cleanup
  <2>1. NothingBuffered /\ m_payload' = NoWord
    BY <1>6, CleanupPhase, OutputStage
  <2>2. compact'.bytes = <<>> /\ reservoir' = <<>> /\ released_bytes' = 0
        /\ m_payload'.bytes = <<>>
    BY <2>1, NoWordIsEmpty DEF NothingBuffered
  <2>3. ~payload_generation_done'
    BY <2>1, Zenon DEF NothingBuffered
  <2>4. desc'.bytes = <<>> /\ len_fifo' = <<>> /\ payload_left' = 0
    BY <1>6, CleanupPhase, NoWordIsEmpty
  <2>5. OutputEmpty'
    BY <2>2, <2>3, <2>4 DEF OutputEmpty
  <2> QED
    BY <1>6, <2>5, CleanupPhase DEF PhaseInv, PhaseStep
<1> QED
  BY <1>1, <1>2, <1>3, <1>4, <1>5, <1>6 DEF MoldDeframeStep


-----------------------------------------------------------------------------
(* The last word.                                                          *)
LEMMA LastMoves ==
  ASSUME NEW payload_ready, NEW len_ready, MoveOutput(payload_ready, len_ready)
  PROVE  /\ compact'.last => desc.last \/ compact.last
         /\ payload_generation_done' => payload_generation_done \/ compact.last
<1>1. compact' = IF desc_fire THEN desc ELSE IF compact_fire THEN NoWord ELSE compact
  BY Zenon DEF MoveOutput
<1>2. compact' = desc \/ compact' = NoWord \/ compact' = compact
  BY <1>1, Zenon
<1>3. ~NoWord.last
  BY NoWordIsEmpty
<1>4. compact'.last => desc.last \/ compact.last
  BY <1>2, <1>3, Zenon
<1>5. payload_generation_done' => payload_generation_done \/ compact.last
  BY Zenon DEF MoveOutput
<1> QED
  BY <1>4, <1>5

(* Before the parser is done no last word is on its way.                   *)
LEMMA NoneYet ==
  ASSUME LastInv, ~dropping, state # "DONE",
         NEW payload_ready, NEW len_ready, MoveOutput(payload_ready, len_ready)
  PROVE  /\ ~compact'.last /\ ~payload_generation_done'
         /\ ~desc.last /\ ~compact.last /\ ~payload_generation_done
<1>1. ~desc.last /\ ~compact.last /\ ~payload_generation_done
  BY Zenon DEF LastInv, LastInFlight
<1> QED
  BY <1>1, LastMoves, Zenon

LEMMA DoneLast ==
  ASSUME PhaseInv, LastInv, ~dropping, NEW payload_ready, NEW len_ready,
         DoneStep(len_ready), MoveOutput(payload_ready, len_ready)
  PROVE  LastInv'
<1>1. /\ state = "DONE" /\ state' = "DONE" /\ ~dropping'
      /\ desc' = DescLeft /\ payload_left' = payload_left
  BY DonePhase
<1>2. payload_left' = 0
  BY <1>1 DEF LastInv
<1>3. compact' = IF desc_fire THEN desc ELSE IF compact_fire THEN NoWord ELSE compact
  BY DEF MoveOutput
<1>4. desc.bytes = <<>> => ~desc_fire /\ desc' = desc
  BY <1>1 DEF desc_fire, IsWord, DescLeft
<1>5. compact'.last => desc'.bytes = <<>>
  <2>1. CASE desc_fire
    BY <1>1, <2>1, NoWordIsEmpty DEF DescLeft
  <2>2. CASE ~desc_fire /\ compact_fire
    <3>1. compact' = NoWord
      BY <1>3, <2>2
    <3>2. ~compact'.last
      BY <3>1, NoWordIsEmpty
    <3> QED
      BY <3>2
  <2>3. CASE ~desc_fire /\ ~compact_fire
    <3>1. compact' = compact
      BY <1>3, <2>3
    <3>2. compact'.last => compact.last
      BY <3>1, Zenon
    <3>3. compact.last => desc.bytes = <<>>
      BY Zenon DEF LastInv
    <3> QED
      BY <1>4, <3>2, <3>3
  <2> QED
    BY <2>1, <2>2, <2>3
<1>6. payload_generation_done' => desc'.bytes = <<>> /\ compact'.bytes = <<>>
  <2>1. payload_generation_done' =>
          payload_generation_done \/ (compact_fire /\ compact.last)
    BY Zenon DEF MoveOutput
  <2>2. ASSUME payload_generation_done
        PROVE  desc'.bytes = <<>> /\ compact'.bytes = <<>>
    <3>1. desc.bytes = <<>> /\ compact.bytes = <<>>
      BY <2>2, Zenon DEF LastInv
    <3>2. ~compact_fire
      BY <3>1 DEF compact_fire, IsWord
    <3> QED
      BY <1>3, <1>4, <3>1, <3>2
  <2>3. ASSUME compact_fire, compact.last
        PROVE  desc'.bytes = <<>> /\ compact'.bytes = <<>>
    <3>1. desc.bytes = <<>>
      BY <2>3, Zenon DEF LastInv
    <3> QED
      BY <1>3, <1>4, <2>3, <3>1, NoWordIsEmpty
  <2> QED
    BY <2>1, <2>2, <2>3, Zenon
<1> QED
  BY <1>1, <1>2, <1>5, <1>6 DEF LastInv

(* A step of the parser while the datagram is taken in.                    *)
LEMMA EarlyLast ==
  ASSUME LastInv, ~dropping, state # "DONE",
         NEW payload_ready, NEW len_ready, MoveOutput(payload_ready, len_ready),
         desc'.last => state' = "DONE",
         state' = "DONE" => payload_left' = 0
  PROVE  LastInv'
<1>1. ~compact'.last /\ ~payload_generation_done'
  BY NoneYet
<1> QED
  BY <1>1, Zenon DEF LastInv, LastInFlight

LEMMA BodyLast ==
  ASSUME ParserInv, PhaseInv, LastInv, NEW fire, NEW beat, NEW declared,
         NEW payload_ready, NEW len_ready,
         BodyStep(fire, beat, declared, len_ready), MoveOutput(payload_ready, len_ready)
  PROVE  LastInv'
<1>1. state = "BODY" /\ ~dropping
  BY BodyPhase DEF BodyStep
<1>2. ~desc.last
  BY <1>1, NoneYet
<1>3. ~DescLeft.last
  <2>1. DescLeft = NoWord \/ DescLeft = desc
    BY DEF DescLeft
  <2> QED
    BY <1>2, <2>1, NoWordIsEmpty, Zenon
<1>4. CASE ParserWaits(fire, beat, declared, len_ready)
  <2>1. desc' = DescLeft /\ state' = "BODY"
    BY <1>1, <1>4 DEF ParserWaits
  <2>2. ~desc'.last
    BY <1>3, <2>1, Zenon
  <2> QED
    BY <1>1, <2>1, <2>2, EarlyLast
<1>5. CASE ParserFaults(fire, beat, declared)
  <2>1. desc' = NoWord /\ state' = "DRAIN"
    BY <1>5 DEF ParserFaults
  <2>2. ~desc'.last
    BY <2>1, NoWordIsEmpty, Zenon
  <2> QED
    BY <1>1, <2>1, <2>2, EarlyLast
<1>6. CASE /\ Parses(InputFault(fire, beat, declared)) /\ ~Parse.fault
           /\ Parsed(Parse, fire, beat, declared, len_ready)
  <2>1. body_fifo # <<>>
    BY <1>6 DEF Parses
  <2>2. Parse.last => Parse.left = 0
    BY <1>6, <2>1, ParseSteps DEF ParseSound
  <2>3. /\ desc' = DescLeft \/ desc' = [bytes |-> Parse.payload, last |-> Parse.last]
        /\ state' = IF Parse.last THEN "DONE" ELSE "BODY"
        /\ payload_left' = Parse.left
    BY <1>6, Zenon DEF Parsed
  <2>4. state' = "DONE" => Parse.last
    BY <2>3
  <2>5. desc'.last => Parse.last
    <3>1. CASE desc' = DescLeft
      BY <1>3, <3>1, Zenon
    <3>2. CASE desc' = [bytes |-> Parse.payload, last |-> Parse.last]
      <4>1. desc'.last = Parse.last
        BY <3>2
      <4> QED
        BY <4>1, Zenon
    <3> QED
      BY <2>3, <3>1, <3>2
  <2>6. Parse.last => state' = "DONE"
    BY <2>3
  <2> QED
    BY <1>1, <2>2, <2>3, <2>4, <2>5, <2>6, EarlyLast
<1> QED
  BY <1>4, <1>5, <1>6 DEF BodyStep

LEMMA LastKeeps ==
  ASSUME ParserInv, PhaseInv, LastInv, NEW beat, NEW declared,
         NEW payload_ready, NEW len_ready,
         MoldDeframeStep(beat, declared, payload_ready, len_ready)
  PROVE  LastInv'
<1> DEFINE fire == InputFire(beat)
<1>0. ASSUME dropping' PROVE LastInv'
  BY <1>0, Zenon DEF LastInv
<1>1. CASE HeaderStep(fire, beat, declared)
  <2>1. state = "HEADER" /\ desc' = desc /\ PhaseStep
    BY <1>1, HeaderPhase DEF HeaderStep
  <2>2. ~dropping
    BY <2>1, Zenon DEF PhaseInv
  <2>3. MoveOutput(payload_ready, len_ready)
    BY <2>1, <2>2, OutputStage
  <2>4. state # "DONE" /\ state' # "DONE"
    BY <1>1, <2>1 DEF HeaderStep
  <2>5. ~desc'.last
    <3>1. ~desc.last
      BY <2>2, <2>3, <2>4, NoneYet
    <3> QED
      BY <2>1, <3>1, Zenon
  <2> QED
    BY <2>2, <2>3, <2>4, <2>5, EarlyLast
<1>2. CASE GuardStep(fire, beat, declared)
  <2>1. state = "GUARD" /\ desc' = desc /\ state' \in {"BODY", "DRAIN"}
    BY <1>2, GuardPhase DEF GuardStep
  <2>2. ~dropping
    BY <2>1, Zenon DEF PhaseInv
  <2>3. MoveOutput(payload_ready, len_ready)
    BY <2>1, <2>2, OutputStage
  <2>4. state # "DONE" /\ state' # "DONE"
    BY <2>1
  <2>5. ~desc'.last
    <3>1. ~desc.last
      BY <2>2, <2>3, <2>4, NoneYet
    <3> QED
      BY <2>1, <3>1, Zenon
  <2> QED
    BY <2>2, <2>3, <2>4, <2>5, EarlyLast
<1>3. CASE BodyStep(fire, beat, declared, len_ready)
  <2>1. state = "BODY" /\ ~dropping
    BY <1>3, BodyPhase DEF BodyStep
  <2>2. MoveOutput(payload_ready, len_ready)
    BY <2>1, OutputStage
  <2> QED
    BY <1>3, <2>2, BodyLast
<1>4. CASE DrainStep(fire, beat, declared)
  BY <1>0, <1>4, DrainPhase
<1>5. CASE DoneStep(len_ready)
  <2>1. dropping' <=> dropping
    BY <1>5, DonePhase
  <2>2. CASE dropping
    BY <1>0, <2>1, <2>2
  <2>3. CASE ~dropping
    <3>1. ~cleanup_ready
      BY <1>5, Zenon DEF DoneStep
    <3>2. MoveOutput(payload_ready, len_ready)
      BY <2>3, <3>1, OutputStage
    <3> QED
      BY <1>5, <2>3, <3>2, DoneLast
  <2> QED
    BY <2>2, <2>3
<1>6. CASE Cleanup
  <2>1. cleanup_ready /\ desc' = NoWord /\ payload_left' = 0
    BY <1>6, CleanupPhase
  <2>2. NothingBuffered
    BY <2>1, OutputStage
  <2>3. compact' = NoWord /\ ~payload_generation_done'
    BY <2>2, Zenon DEF NothingBuffered
  <2>4. ~desc'.last /\ ~compact'.last
    BY <2>1, <2>3, NoWordIsEmpty, Zenon
  <2> QED
    BY <2>1, <2>3, <2>4, Zenon DEF LastInv, LastInFlight
<1> QED
  BY <1>1, <1>2, <1>3, <1>4, <1>5, <1>6 DEF MoldDeframeStep


-----------------------------------------------------------------------------
(* The deframer's books.                                                   *)
LEMMA EmptyOwed ==
  ASSUME released_bytes' = 0, len_fifo' = <<>>, payload_left' = 0,
         reservoir' = <<>>, compact'.bytes = <<>>, desc'.bytes = <<>>
  PROVE  (Owed = Held)'
<1>1. Owed' = 0 + SumOf(<<>>)
  BY DEF Owed
<1>2. Held' = Len(<<>>) + Len(<<>>) + Len(<<>>) + 0
  BY DEF Held
<1> QED
  BY <1>1, <1>2, SumOfNone, NoWordIsEmpty

(* The output stage lowers both sides by what it emits.                    *)
LEMMA OutputOwed ==
  ASSUME OutputInv, FoundInv, ParserInv, Owed = Held,
         NEW payload_ready, NEW len_ready, MoveOutput(payload_ready, len_ready)
  PROVE  /\ released_bytes' + SumOf(LengthsLeft(len_ready))
              = Len(reservoir') + Len(compact'.bytes) + Len(DescLeft.bytes) + payload_left
         /\ released_bytes' \in Nat /\ SumOf(LengthsLeft(len_ready)) \in Nat
         /\ Len(reservoir') \in Nat /\ Len(compact'.bytes) \in Nat
         /\ Len(DescLeft.bytes) \in Nat /\ payload_left \in Nat
<1> DEFINE emit == EmitCount(payload_ready)
           more == AcceptedLength(len_ready)
           r == Len(reservoir)      r2 == Len(reservoir')
           c == Len(compact.bytes)  c2 == Len(compact'.bytes)
           d == Len(desc.bytes)     d2 == Len(DescLeft.bytes)
           b == released_bytes      b2 == released_bytes'
           s == SumOf(len_fifo)     s2 == SumOf(LengthsLeft(len_ready))
<1>1. /\ r2 \in Nat /\ c2 \in Nat /\ d2 \in Nat /\ r2 + c2 + d2 + emit = r + c + d
  BY BytesMove
<1>2. /\ b2 \in Nat /\ emit \in Nat
      /\ b2 + emit = b + more
  BY WordsMove
<1>3. s2 \in Nat /\ more \in Nat /\ s2 + more = s
  BY LengthsMove
<1>4. b \in Nat /\ payload_left \in Nat /\ r \in Nat /\ c \in Nat /\ d \in Nat
  BY LenProperties, WordLength DEF OutputInv, FoundInv, ParserInv
<1>5. b + s = r + c + d + payload_left
  BY DEF Owed, Held
<1> HIDE DEF emit, more, r, r2, c, c2, d, d2, b, b2, s, s2
<1>6. b2 + s2 = r2 + c2 + d2 + payload_left
  BY <1>1, <1>2, <1>3, <1>4, <1>5
<1> QED
  BY <1>1, <1>2, <1>3, <1>4, <1>6, Zenon DEF r2, c2, d2, b2, s2

(* What the parser adds it adds to both.                                   *)
LEMMA FoundSum ==
  ASSUME NEW lens \in Seq(MsgLengths), NEW length \in 0 .. MaxNumber
  PROVE  SumOf(lens \o (IF length = 0 THEN <<>> ELSE <<length>>)) = SumOf(lens) + length
<1>1. SumOf(lens) \in Nat
  BY SumOfType
<1>2. CASE length = 0
  <2>1. lens \o <<>> = lens
    BY ConcatEmptySeq
  <2> QED
    BY <1>1, <1>2, <2>1
<1>3. CASE length # 0
  <2>1. length \in MsgLengths
    BY <1>3, MaxNumberType DEF MsgLengths
  <2>2. lens \o <<length>> = Append(lens, length)
    BY <2>1, AppendIsConcat
  <2> QED
    BY <1>3, <2>1, <2>2, SumOfAppend
<1> QED
  BY <1>2, <1>3

LEMMA ParsedOwed ==
  ASSUME OutputInv, FoundInv, ParserInv, Owed = Held,
         NEW fire, NEW beat, NEW declared, NEW payload_ready, NEW len_ready,
         Parses(InputFault(fire, beat, declared)), ~Parse.fault,
         Parsed(Parse, fire, beat, declared, len_ready),
         MoveOutput(payload_ready, len_ready)
  PROVE  (Owed = Held)'
<1> DEFINE len == Parse.length
           w   == Len(Parse.payload)
           r2 == Len(reservoir')
           c2 == Len(compact'.bytes)
           d2 == Len(DescLeft.bytes)
           d3 == Len(desc'.bytes)
           s2 == SumOf(LengthsLeft(len_ready))
           s3 == SumOf(len_fifo')
           b2 == released_bytes'
           left2 == payload_left'
<1>1. body_fifo # <<>> /\ desc_slot_available
  BY DEF Parses, parser_resources_available
<1>2. /\ len \in 0 .. MaxNumber /\ Parse.left \in Nat /\ Parse.payload \in Words
      /\ payload_left + len = w + Parse.left
  BY <1>1, ParseSteps DEF ParseSound
<1>3. len \in Nat /\ w \in Nat /\ (w = 0 <=> Parse.payload = <<>>)
  BY <1>2, WordLength, Emptiness, MaxNumberType
<1>4. /\ b2 + s2 = r2 + c2 + d2 + payload_left
      /\ b2 \in Nat /\ s2 \in Nat
      /\ r2 \in Nat /\ c2 \in Nat /\ d2 \in Nat /\ payload_left \in Nat
  BY OutputOwed
<1>5. d2 = 0
  <2>1. DescLeft.bytes = <<>>
    BY <1>1, NoWordIsEmpty
       DEF DescLeft, desc_slot_available, desc_fire, IsWord
  <2> QED
    BY <2>1, NoWordIsEmpty
<1>6. d3 = w
  <2>1. desc' = IF Parse.payload = <<>> THEN DescLeft
                ELSE [bytes |-> Parse.payload, last |-> Parse.last]
    BY DEF Parsed
  <2> QED
    BY <1>3, <1>5, <2>1
<1>7. s3 = s2 + len
  <2>1. len_fifo' = LengthsLeft(len_ready) \o (IF len = 0 THEN <<>> ELSE <<len>>)
    BY Zenon DEF Parsed
  <2>2. LengthsLeft(len_ready) \in Seq(MsgLengths)
    BY LengthsLeftType
  <2> HIDE DEF len
  <2> QED
    BY <1>2, <2>1, <2>2, FoundSum
<1>8. left2 = Parse.left
  BY DEF Parsed
<1> HIDE DEF len, w, r2, c2, d2, d3, s2, s3, b2, left2
<1>9. b2 + s3 = r2 + c2 + d3 + left2
  BY <1>2, <1>3, <1>4, <1>5, <1>6, <1>7, <1>8
<1> QED
  BY <1>9, Zenon DEF Owed, Held, r2, c2, d3, s3, b2, left2

LEMMA OwedKeeps ==
  ASSUME OutputInv, FoundInv, ParserInv, PhaseInv, OwedInv,
         NEW beat, NEW declared, NEW payload_ready, NEW len_ready,
         MoldDeframeStep(beat, declared, payload_ready, len_ready)
  PROVE  OwedInv'
<1> DEFINE fire == InputFire(beat)
<1>0. ASSUME dropping' PROVE OwedInv'
  BY <1>0, Zenon DEF OwedInv
<1>1. ASSUME state \in {"HEADER", "GUARD"}, desc' = desc, len_fifo' = len_fifo,
             payload_left' = payload_left \/ payload_left' = 0
      PROVE  OwedInv'
  <2>1. OutputEmpty /\ ~dropping /\ state # "DONE"
    BY <1>1 DEF PhaseInv
  <2>2. MoveOutput(payload_ready, len_ready)
    BY <2>1, OutputStage
  <2>3. /\ compact'.bytes = <<>> /\ reservoir' = <<>> /\ released_bytes' = 0
    BY <2>1, <2>2, QuietOutput
  <2>4. len_fifo' = <<>> /\ payload_left' = 0 /\ desc'.bytes = <<>>
    BY <1>1, <2>1 DEF OutputEmpty
  <2>5. (Owed = Held)'
    BY <2>3, <2>4, EmptyOwed
  <2> QED
    BY <2>5, Zenon DEF OwedInv
<1>2. CASE HeaderStep(fire, beat, declared)
  <2>1. state \in {"HEADER", "GUARD"}
    BY <1>2 DEF HeaderStep
  <2> QED
    BY <1>1, <1>2, <2>1, HeaderPhase
<1>3. CASE GuardStep(fire, beat, declared)
  <2>1. state \in {"HEADER", "GUARD"}
    BY <1>3 DEF GuardStep
  <2> QED
    BY <1>1, <1>3, <2>1, GuardPhase
<1>4. ASSUME ~dropping, MoveOutput(payload_ready, len_ready),
             desc' = DescLeft, len_fifo' = LengthsLeft(len_ready),
             payload_left' = payload_left
      PROVE  OwedInv'
  <2>1. Owed = Held
    BY <1>4, Zenon DEF OwedInv
  <2>2. released_bytes' + SumOf(LengthsLeft(len_ready))
          = Len(reservoir') + Len(compact'.bytes) + Len(DescLeft.bytes) + payload_left
    BY <1>4, <2>1, OutputOwed
  <2>3. released_bytes' + SumOf(len_fifo')
          = Len(reservoir') + Len(compact'.bytes) + Len(desc'.bytes) + payload_left'
    BY <1>4, <2>2, Zenon
  <2> QED
    BY <2>3, Zenon DEF OwedInv, Owed, Held
<1>5. CASE BodyStep(fire, beat, declared, len_ready)
  <2>1. state # "DONE" /\ ~dropping
    BY <1>5, BodyPhase DEF BodyStep
  <2>2. MoveOutput(payload_ready, len_ready)
    BY <2>1, OutputStage
  <2>3. CASE ParserWaits(fire, beat, declared, len_ready)
    <3>1. /\ desc' = DescLeft /\ len_fifo' = LengthsLeft(len_ready)
          /\ payload_left' = payload_left
      BY <2>3, Zenon DEF ParserWaits, KeepContext
    <3> QED
      BY <1>4, <2>1, <2>2, <3>1
  <2>4. CASE ParserFaults(fire, beat, declared)
    <3>1. dropping'
      BY <2>4, Zenon DEF ParserFaults
    <3> QED
      BY <1>0, <3>1
  <2>5. CASE /\ Parses(InputFault(fire, beat, declared)) /\ ~Parse.fault
             /\ Parsed(Parse, fire, beat, declared, len_ready)
    <3>1. Owed = Held
      BY <2>1, Zenon DEF OwedInv
    <3>2. (Owed = Held)'
      BY <2>2, <2>5, <3>1, ParsedOwed
    <3> QED
      BY <3>2, Zenon DEF OwedInv
  <2> QED
    BY <1>5, <2>3, <2>4, <2>5 DEF BodyStep
<1>6. CASE DrainStep(fire, beat, declared)
  BY <1>0, <1>6, DrainPhase
<1>7. CASE DoneStep(len_ready)
  <2>1. /\ dropping' <=> dropping
        /\ len_fifo' = LengthsLeft(len_ready) /\ desc' = DescLeft
        /\ payload_left' = payload_left
    BY <1>7, DonePhase
  <2>2. CASE dropping
    BY <1>0, <2>1, <2>2
  <2>3. CASE ~dropping
    <3>1. ~cleanup_ready
      BY <1>7, Zenon DEF DoneStep
    <3>2. MoveOutput(payload_ready, len_ready)
      BY <2>3, <3>1, OutputStage
    <3> QED
      BY <1>4, <2>1, <2>3, <3>2
  <2> QED
    BY <2>2, <2>3
<1>8. CASE Cleanup
  <2>1. cleanup_ready /\ desc' = NoWord /\ payload_left' = 0 /\ len_fifo' = <<>>
    BY <1>8, CleanupPhase
  <2>2. NothingBuffered
    BY <2>1, OutputStage
  <2>3. /\ compact'.bytes = <<>> /\ reservoir' = <<>> /\ released_bytes' = 0
        /\ desc'.bytes = <<>>
    BY <2>1, <2>2, NoWordIsEmpty DEF NothingBuffered
  <2>4. (Owed = Held)'
    BY <2>1, <2>3, EmptyOwed
  <2> QED
    BY <2>4, Zenon DEF OwedInv
<1> QED
  BY <1>2, <1>3, <1>5, <1>6, <1>7, <1>8 DEF MoldDeframeStep


-----------------------------------------------------------------------------
(* The word presented.  When the last one goes out, nothing is owed.       *)
LEMMA NothingOwed ==
  ASSUME OutputInv, FoundInv, ParserInv, LastInv, Owed = Held,
         state = "DONE", ~dropping, payload_generation_done,
         NEW payload_ready, NEW len_ready, MoveOutput(payload_ready, len_ready),
         EmitCount(payload_ready) = Len(reservoir)
  PROVE  /\ reservoir' = <<>> /\ released_bytes' = 0 /\ len_fifo = <<>>
         /\ payload_generation_done'
<1> DEFINE r == Len(reservoir)  s == SumOf(len_fifo)  b == released_bytes
           b2 == released_bytes'
           more == AcceptedLength(len_ready)
<1>1. payload_left = 0 /\ desc.bytes = <<>> /\ compact.bytes = <<>>
  BY DEF LastInv
<1>2. /\ r \in Nat /\ b \in Nat /\ s \in Nat /\ len_fifo \in Seq(MsgLengths)
  BY LenProperties, SumOfType DEF OutputInv, FoundInv
<1>3. b + s = r
  <2>1. released_bytes + SumOf(len_fifo) = Len(reservoir) + 0 + 0 + 0
    BY <1>1, NoWordIsEmpty DEF Owed, Held
  <2> QED
    BY <1>2, <2>1
<1>4. r <= b
  BY EmitFacts
<1>5. b2 \in Nat /\ b2 + r = b + more
  BY WordsMove
<1> HIDE DEF r, b
<1>6. s = 0
  <2> HIDE DEF s
  <2> QED
    BY <1>2, <1>3, <1>4
<1>7. len_fifo = <<>>
  BY <1>2, <1>6, SumOfZero
<1>8. more = 0
  BY <1>7 DEF AcceptedLength, m_msg_len_valid_o
<1>9. b2 = 0
  <2> HIDE DEF s, b2, more
  <2> QED
    BY <1>2, <1>3, <1>5, <1>6, <1>8
<1>10. reservoir' = <<>>
  <2>1. ~compact_fire
    BY <1>1 DEF compact_fire, IsWord
  <2>2. reservoir' \in Seq(Nat) /\ Len(reservoir') = Len(reservoir) - Len(reservoir) + 0
    BY <2>1, ReservoirStep
  <2>3. Len(reservoir') = 0
    BY <1>2, <2>2 DEF r
  <2> QED
    BY <2>2, <2>3, EmptyWord
<1>11. payload_generation_done'
  BY Zenon DEF MoveOutput
<1> QED
  BY <1>7, <1>9, <1>10, <1>11

(* A last word is presented in the last phase, and stays until it is read. *)
LEMMA LastPresented ==
  ASSUME OutputInv, FoundInv, ParserInv, PhaseInv, LastInv, OwedInv,
         ~dropping, payload_generation_done, ~cleanup_ready,
         NEW beat, NEW declared, NEW payload_ready, NEW len_ready,
         MoldDeframeStep(beat, declared, payload_ready, len_ready),
         EmitCount(payload_ready) = Len(reservoir)
  PROVE  /\ payload_generation_done' /\ ~dropping'
         /\ reservoir' = <<>> /\ released_bytes' = 0 /\ len_fifo' = <<>>
<1>1. state = "DONE"
  BY DEF LastInv, LastInFlight
<1>2. MoveOutput(payload_ready, len_ready)
  BY OutputStage
<1>3. Owed = Held
  BY Zenon DEF OwedInv
<1>4. /\ reservoir' = <<>> /\ released_bytes' = 0 /\ len_fifo = <<>>
      /\ payload_generation_done'
  BY <1>1, <1>2, <1>3, NothingOwed
<1>5. DoneStep(len_ready)
  <2>1. ~Cleanup
    BY Zenon DEF Cleanup
  <2> QED
    BY <1>1, <2>1 DEF MoldDeframeStep, HeaderStep, GuardStep, BodyStep, DrainStep
<1>6. ~dropping' /\ len_fifo' = LengthsLeft(len_ready)
  BY <1>5, DonePhase
<1>7. len_fifo' = <<>>
  BY <1>4, <1>6 DEF LengthsLeft, m_msg_len_valid_o
<1> QED
  BY <1>4, <1>6, <1>7

LEMMA PresentedKeeps ==
  ASSUME OutputInv, FoundInv, ParserInv, PhaseInv, LastInv, OwedInv, PresentedInv,
         NEW beat, NEW declared, NEW payload_ready, NEW len_ready,
         MoldDeframeStep(beat, declared, payload_ready, len_ready)
  PROVE  PresentedInv'
<1>1. ASSUME m_payload' = NoWord PROVE PresentedInv'
  <2>1. ~m_payload'.last /\ m_payload'.bytes = <<>>
    BY <1>1, NoWordIsEmpty
  <2> QED
    BY <2>1 DEF PresentedInv
<1>2. CASE cleanup_ready
  BY <1>1, <1>2, OutputStage
<1>3. CASE ~cleanup_ready /\ dropping
  <2>1. m_payload' = NoWord \/ m_payload' = m_payload
    BY <1>3, OutputStage DEF DiscardOutput, AfterOutput
  <2>2. ~m_payload.last
    BY <1>3, Zenon DEF PresentedInv
  <2>3. CASE m_payload' = m_payload
    <3>1. ~m_payload'.last
      BY <2>2, <2>3, Zenon
    <3> QED
      BY <2>2, <2>3, <3>1 DEF PresentedInv
  <2> QED
    BY <1>1, <2>1, <2>3
<1>4. CASE ~cleanup_ready /\ ~dropping
  <2> DEFINE emit == EmitCount(payload_ready)
  <2>1. MoveOutput(payload_ready, len_ready)
    BY <1>4, OutputStage
  <2>2. /\ emit \in Nat /\ emit <= Len(reservoir) /\ Len(reservoir) \in Nat
        /\ emit # 0 /\ ~EmitsLast => emit = 8
        /\ emit # 0 /\ EmitsLast => emit = Len(reservoir)
    BY EmitFacts, LenProperties DEF OutputInv
  <2>3. ASSUME payload_generation_done, emit = Len(reservoir)
        PROVE  /\ payload_generation_done' /\ ~dropping'
               /\ reservoir' = <<>> /\ released_bytes' = 0 /\ len_fifo' = <<>>
    BY <1>4, <2>3, LastPresented
  <2>4. CASE emit = 0
    <3>1. m_payload' = NoWord \/ m_payload' = m_payload
      BY <2>1, <2>4 DEF MoveOutput, AfterOutput
    <3>2. CASE m_payload' = m_payload /\ m_payload.last
      <4>1. payload_generation_done /\ reservoir = <<>>
        BY <3>2, Zenon DEF PresentedInv
      <4>2. emit = Len(reservoir)
        BY <2>4, <4>1, NoWordIsEmpty
      <4>3. m_payload'.last
        BY <3>2, Zenon
      <4> QED
        BY <2>3, <4>1, <4>2, <4>3 DEF PresentedInv
    <3>3. CASE m_payload' = m_payload /\ ~m_payload.last
      <4>1. ~m_payload'.last
        BY <3>3, Zenon
      <4> QED
        BY <3>3, <4>1 DEF PresentedInv
    <3> QED
      BY <1>1, <3>1, <3>2, <3>3
  <2>5. CASE emit # 0 /\ EmitsLast
    <3>1. payload_generation_done
      BY <2>5, Zenon DEF EmitsLast
    <3>2. m_payload' = [bytes |-> Taking(reservoir, emit), last |-> EmitsLast]
      BY <2>1, <2>5 DEF MoveOutput
    <3>3. m_payload'.last
      <4>1. m_payload'.last = EmitsLast
        BY <3>2
      <4> QED
        BY <2>5, <4>1, Zenon
    <3> QED
      BY <2>2, <2>3, <2>5, <3>1, <3>3 DEF PresentedInv
  <2>6. CASE emit # 0 /\ ~EmitsLast
    <3>1. m_payload' = [bytes |-> Taking(reservoir, emit), last |-> EmitsLast]
      BY <2>1, <2>6 DEF MoveOutput
    <3>2. ~m_payload'.last
      <4>1. m_payload'.last = EmitsLast
        BY <3>1
      <4> QED
        BY <2>6, <4>1, Zenon
    <3>3. Len(m_payload'.bytes) = AXIS_KEEP_W
      <4>1. reservoir \in Seq(Nat)
        BY DEF OutputInv
      <4>2. Len(Taking(reservoir, emit)) = emit
        BY <2>2, <4>1, TakingType DEF Smaller
      <4> QED
        BY <2>2, <2>6, <3>1, <4>2 DEF AXIS_KEEP_W
    <3> QED
      BY <3>2, <3>3 DEF PresentedInv
  <2> QED
    BY <2>4, <2>5, <2>6
<1> QED
  BY <1>2, <1>3, <1>4


-----------------------------------------------------------------------------
(* The books of both.  What data_realign still waits for is what the       *)
(* deframer may still send and what it has presented.                      *)
LongLengths == {length \in MsgLengths : length >= BEAT_BYTES}

PromiseInv ==
  /\ lengths \in Seq(LongLengths)
  /\ ~dropping_payload
  /\ realign_err = "NONE"
  /\ message.left + SumOf(lengths) = released_bytes + Len(m_payload.bytes)

(* A word that data_realign takes is in step with the lengths: it is full  *)
(* or the last one, at most one message ends in it, and the last word ends *)
(* the last message.                                                       *)
LEMMA InStep ==
  ASSUME OutputInv, LengthInv, PresentedInv, PromiseInv, NEW ready_i
  PROVE  TakesIt(m_payload, ready_i)
<1> SUFFICES ASSUME WordFires(m_payload, ready_i)
             PROVE  ConsumeWord(m_payload).err = "NONE"
  BY DEF TakesIt
<1> DEFINE n == Len(m_payload.bytes)
           res == BeforeLast(m_payload)
<1>1. /\ m_payload.bytes # <<>> /\ HaveMessage
      /\ message.left < n => lengths # <<>>
  BY Zenon DEF WordFires, s_payload_tready_o, PromiseInv
<1>2. /\ n \in Nat /\ n <= 8 /\ m_payload.bytes \in Seq(Nat)
      /\ message.left \in Nat /\ message.left > 0
  BY <1>1, WordLength, LengthTypes DEF OutputInv, HaveMessage
<1>3. ~(~m_payload.last /\ n # BEAT_BYTES)
  BY <1>1 DEF PresentedInv, AXIS_KEEP_W, BEAT_BYTES
<1>4. Completes(m_payload) <=> message.left <= n
  BY WhatCompletes DEF OutputInv
<1>5. res.err = "NONE"
  <2>1. CASE ~Completes(m_payload)
    BY <2>1 DEF BeforeLast, Result
  <2>2. CASE Completes(m_payload) /\ Behind(m_payload) = <<>>
    BY <2>2 DEF BeforeLast, Result
  <2>3. CASE Completes(m_payload) /\ Behind(m_payload) # <<>>
    <3>1. /\ Behind(m_payload) \in Seq(Nat) /\ Len(Behind(m_payload)) = n - message.left
      BY <1>2, <1>4, <2>3, LeavingType DEF Behind
    <3>2. Len(Behind(m_payload)) # 0
      BY <2>3, <3>1, EmptyWord
    <3>3. lengths # <<>>
      BY <1>1, <1>2, <1>4, <2>3, <3>1, <3>2
    <3>4. Head(lengths) \in LongLengths
      BY <3>3, HeadTailProperties DEF PromiseInv
    <3>5. Head(lengths) \in Nat /\ Head(lengths) >= 8
      BY <3>4, MaxNumberType DEF LongLengths, MsgLengths, BEAT_BYTES
    <3>6. ~(Head(lengths) <= Len(Behind(m_payload)))
      BY <1>2, <3>1, <3>5
    <3>7. BeginNext(m_payload)
            = Result(Capture(NewMessage(Head(lengths)), Behind(m_payload)), Tail(lengths),
                     "NONE", FALSE)
      BY <3>3, <3>6, Zenon DEF BeginNext
    <3>8. res = BeginNext(m_payload)
      BY <2>3 DEF BeforeLast
    <3> QED
      BY <3>7, <3>8 DEF Result
  <2> QED
    BY <2>1, <2>2, <2>3
<1>6. WordTaken(m_payload, res)
  BY BeforeLastTakes DEF OutputInv
<1>7. m_payload.last => ~(res.msg.left > 0 \/ res.lens # <<>>)
  <2> SUFFICES ASSUME m_payload.last PROVE res.msg.left = 0 /\ res.lens = <<>>
    OBVIOUS
  <2>1. released_bytes = 0
    BY Zenon DEF PresentedInv
  <2>2. Total(message, lengths) = 0 + n
    BY <2>1 DEF PromiseInv, Total
  <2>3. Total(res.msg, res.lens) + n = Total(message, lengths)
    BY <1>5, <1>6, Zenon DEF WordTaken
  <2>4. /\ res.msg.left \in Nat /\ SumOf(res.lens) \in Nat /\ res.lens \in Seq(MsgLengths)
    BY <1>6, SumOfType DEF WordTaken, ResultType, IsMsg
  <2>5. (res.msg.left + SumOf(res.lens)) + n = 0 + n
    BY <2>2, <2>3, Zenon DEF Total
  <2> HIDE DEF res, n
  <2>6. res.msg.left = 0 /\ SumOf(res.lens) = 0
    BY <1>2, <2>4, <2>5
  <2> QED
    BY <2>4, <2>6, SumOfZero
<1>8. Consumed(m_payload) = res
  <2> DEFINE under == m_payload.last /\ res.err = "NONE"
                        /\ (res.msg.left > 0 \/ res.lens # <<>>)
  <2>1. Consumed(m_payload) = IF under THEN Failed("PAYLOAD_UNDERFLOW", FALSE) ELSE res
    BY Zenon DEF Consumed, BeforeLast
  <2>2. ~under
    BY <1>7, Zenon
  <2> HIDE DEF under, res
  <2> QED
    BY <2>1, <2>2
<1>9. ConsumeWord(m_payload) = Consumed(m_payload)
  BY <1>1, <1>3, Zenon DEF ConsumeWord
<1> QED
  BY <1>5, <1>8, <1>9

HasFields(res) == {"msg", "lens", "err", "drop"} \subseteq DOMAIN res

(* No length gets shorter.                                                 *)
LEMMA LongStay ==
  ASSUME lengths \in Seq(LongLengths), NEW word, NEW len_valid, NEW length,
         len_valid => length \in LongLengths, NEW ready_i,
         ~dropping_payload, DataRealignStep(word, len_valid, length, ready_i)
  PROVE  lengths' \in Seq(LongLengths)
<1> DEFINE fires == WordFires(word, ready_i)
           len_fires == len_valid /\ s_msg_len_ready_o
           res == IF fires THEN ConsumeWord(word) ELSE Nothing
           next == IF res.err # "NONE" THEN res
                   ELSE IF len_fires THEN Accepted(Prefetched(res), length)
                   ELSE Prefetched(res)
<1>1. lengths' = next.lens
  <2>1. Realign(fires, word, len_fires, length, ready_i)
    BY Zenon DEF DataRealignStep, WordFires, DropPayload
  <2> QED
    BY <2>1, Zenon DEF Realign
<1>2. HasFields(res) /\ res.lens \in Seq(LongLengths)
  <2>1. <<>> \in Seq(LongLengths)
    BY EmptySeq
  <2>2. lengths # <<>> => Tail(lengths) \in Seq(LongLengths)
    BY HeadTailProperties
  <2>3. \E msg, err, drop :
          \/ res = Result(msg, lengths, err, drop)
          \/ res = Result(msg, <<>>, err, drop)
          \/ lengths # <<>> /\ res = Result(msg, Tail(lengths), err, drop)
    <3>1. \/ res = Nothing \/ \E err, drop : res = Failed(err, drop)
          \/ res = BeforeLast(word)
      <4>1. \/ ConsumeWord(word) = BeforeLast(word)
            \/ \E err, drop : ConsumeWord(word) = Failed(err, drop)
        BY Zenon DEF ConsumeWord, Consumed, BeforeLast
      <4> QED
        BY <4>1, Zenon
    <3>2. \/ \E msg : BeforeLast(word) = Result(msg, lengths, "NONE", FALSE)
          \/ \E err, drop : BeforeLast(word) = Failed(err, drop)
          \/ lengths # <<>> /\
             \E msg : BeforeLast(word) = Result(msg, Tail(lengths), "NONE", FALSE)
      BY Zenon DEF BeforeLast, BeginNext
    <3> HIDE DEF res
    <3> QED
      BY <3>1, <3>2, Zenon DEF Nothing, Failed
  <2> HIDE DEF res
  <2>4. PICK msg, err, drop :
          \/ res = Result(msg, lengths, err, drop)
          \/ res = Result(msg, <<>>, err, drop)
          \/ lengths # <<>> /\ res = Result(msg, Tail(lengths), err, drop)
    BY <2>3
  <2>5. ASSUME NEW lens, lens \in Seq(LongLengths), res = Result(msg, lens, err, drop)
        PROVE  HasFields(res) /\ res.lens \in Seq(LongLengths)
    <3>1. HasFields(Result(msg, lens, err, drop))
      BY DEF HasFields, Result
    <3>2. Result(msg, lens, err, drop).lens = lens
      BY DEF Result
    <3>3. HasFields(res)
      BY <2>5, <3>1
    <3>4. res.lens = lens
      BY <2>5, <3>2
    <3> QED
      BY <2>5, <3>3, <3>4
  <2> QED
    BY <2>1, <2>2, <2>4, <2>5, Zenon
<1> HIDE DEF res
<1> DEFINE got == Prefetched(res)
<1>3. got.lens \in Seq(LongLengths) /\ {"msg", "lens"} \subseteq DOMAIN got
  <2>1. res.lens # <<>> => Tail(res.lens) \in Seq(LongLengths)
    BY <1>2, HeadTailProperties
  <2> QED
    BY <1>2, <2>1 DEF Prefetched, HasFields
<1> HIDE DEF got
<1>4. len_fires => Accepted(got, length).lens \in Seq(LongLengths)
  <2> SUFFICES ASSUME len_fires PROVE Accepted(got, length).lens \in Seq(LongLengths)
    OBVIOUS
  <2>1. Append(got.lens, length) \in Seq(LongLengths)
    BY <1>3, AppendProperties
  <2> QED
    BY <1>3, <2>1 DEF Accepted
<1> HIDE DEF len_fires
<1>5. next = res \/ next = got \/ (len_fires /\ next = Accepted(got, length))
  BY Zenon DEF got
<1> HIDE DEF next
<1> QED
  BY <1>1, <1>2, <1>3, <1>4, <1>5


(* One clock edge leaves the deframer's part of the promise lower by the   *)
(* bytes taken and higher by the length accepted.                          *)
LEMMA PromiseMoves ==
  ASSUME OutputInv, FoundInv, PhaseInv, GivesUpNothingPromised,
         NEW beat, NEW declared, NEW payload_ready, NEW len_ready,
         MoldDeframeStep(beat, declared, payload_ready, len_ready)
  PROVE  /\ released_bytes' \in Nat /\ Len(m_payload'.bytes) \in Nat
         /\ SentBytes(payload_ready) \in Nat /\ AcceptedLength(len_ready) \in Nat
         /\ released_bytes' + Len(m_payload'.bytes) + SentBytes(payload_ready)
              = released_bytes + Len(m_payload.bytes) + AcceptedLength(len_ready)
<1>1. /\ m_payload.bytes \in Words /\ Len(m_payload.bytes) \in Nat
      /\ released_bytes \in Nat
      /\ ~IsWord(m_payload) => Len(m_payload.bytes) = 0
  BY WordLength, NoWordIsEmpty DEF OutputInv, IsWord
<1>2. SentBytes(payload_ready) \in Nat /\ AcceptedLength(len_ready) \in Nat
  BY <1>1, LengthsMove DEF SentBytes
<1>3. released_bytes' \in Nat /\ Len(m_payload'.bytes) \in Nat
  <2>1. OutputInv'
    BY OutputKeeps
  <2> QED
    BY <2>1, WordLength DEF OutputInv
<1>4. len_fifo = <<>> => AcceptedLength(len_ready) = 0
  BY DEF AcceptedLength, m_msg_len_valid_o
<1>5. CASE cleanup_ready
  <2>1. /\ released_bytes' = 0 /\ m_payload'.bytes = <<>>
    BY <1>5, OutputStage, NoWordIsEmpty DEF NothingBuffered
  <2>2. ~IsWord(m_payload)
    BY <1>5, Zenon DEF cleanup_ready
  <2>3. released_bytes = 0 /\ len_fifo = <<>>
    BY <1>5, Zenon DEF cleanup_ready, GivesUpNothingPromised, PhaseInv
  <2>4. SentBytes(payload_ready) = 0
    BY <1>1, <2>2 DEF SentBytes
  <2> QED
    BY <1>1, <1>2, <1>3, <1>4, <2>1, <2>2, <2>3, <2>4, NoWordIsEmpty
<1>6. CASE ~cleanup_ready /\ dropping
  <2>1. released_bytes = 0 /\ len_fifo = <<>>
    BY <1>6, Zenon DEF GivesUpNothingPromised, PhaseInv
  <2>2. DiscardOutput(payload_ready)
    BY <1>6, OutputStage
  <2>3. released_bytes' = 0 /\ m_payload' = AfterOutput(payload_ready)
    BY <2>2, Zenon DEF DiscardOutput, NothingBuffered
  <2>4. Len(m_payload'.bytes) + SentBytes(payload_ready) = Len(m_payload.bytes)
    <3>1. CASE payload_ready
      <4>1. Len(m_payload'.bytes) = 0
        BY <2>3, <3>1, NoWordIsEmpty DEF AfterOutput
      <4> QED
        BY <1>1, <3>1, <4>1 DEF SentBytes
    <3>2. CASE ~payload_ready
      BY <1>1, <2>3, <3>2 DEF AfterOutput, SentBytes
    <3> QED
      BY <3>1, <3>2
  <2> QED
    BY <1>1, <1>2, <1>3, <1>4, <2>1, <2>3, <2>4
<1>7. CASE ~cleanup_ready /\ ~dropping
  <2>1. MoveOutput(payload_ready, len_ready)
    BY <1>7, OutputStage
  <2> QED
    BY <1>2, <1>3, <2>1, WordsMove
<1> QED
  BY <1>5, <1>6, <1>7

LEMMA PromiseKeeps ==
  ASSUME DataInv, PhaseInv, PresentedInv, PromiseInv,
         GivesUpNothingPromised, NoShortMessage,
         NEW valid \in BOOLEAN, NEW ready \in BOOLEAN, Clock(valid, ready)
  PROVE  PromiseInv'
<1> DEFINE takes == s_payload_tready_o(m_payload, ready)
           more == NewLength(m_msg_len_valid_o, Head(len_fifo))
           sent == WordBytes(m_payload, ready)
           w == Len(m_payload.bytes)   w2 == Len(m_payload'.bytes)
           b == released_bytes         b2 == released_bytes'
           t == Total(message, lengths)
           t2 == Total(message', lengths')
<1>1. OutputInv /\ FoundInv /\ LengthInv /\ m_payload.bytes \in Words
  BY DEF DataInv, OutputInv
<1>2. /\ MoldDeframeStep(m_axis, fc_dgram_len, takes, s_msg_len_ready_o)
      /\ DataRealignStep(m_payload, m_msg_len_valid_o, Head(len_fifo), ready)
  BY Zenon DEF Clock
<1>3. /\ b2 \in Nat /\ w2 \in Nat /\ SentBytes(takes) \in Nat
      /\ AcceptedLength(s_msg_len_ready_o) \in Nat
      /\ b2 + w2 + SentBytes(takes) = b + w + AcceptedLength(s_msg_len_ready_o)
  BY <1>1, <1>2, PromiseMoves
<1>4. SentBytes(takes) = sent
  BY Zenon DEF SentBytes, WordBytes, WordFires, IsWord
<1>5. AcceptedLength(s_msg_len_ready_o) = more
  BY Zenon DEF AcceptedLength, NewLength
<1>6. m_msg_len_valid_o => Head(len_fifo) \in MsgLengths /\ Head(len_fifo) \in LongLengths
  <2> SUFFICES ASSUME m_msg_len_valid_o
               PROVE  Head(len_fifo) \in MsgLengths /\ Head(len_fifo) \in LongLengths
    OBVIOUS
  <2>1. Head(len_fifo) \in MsgLengths
    BY Offered
  <2>2. 1 \in DOMAIN len_fifo /\ Head(len_fifo) = len_fifo[1]
    <3>1. len_fifo \in Seq(MsgLengths) /\ len_fifo # <<>>
      BY <1>1 DEF FoundInv, m_msg_len_valid_o
    <3>2. Len(len_fifo) \in Nat /\ DOMAIN len_fifo = 1 .. Len(len_fifo)
          /\ Len(len_fifo) # 0
      BY <3>1, LenProperties, EmptySeq
    <3> QED
      BY <3>1, <3>2
  <2> QED
    BY <2>1, <2>2 DEF NoShortMessage, LongLengths
<1>7. TakesIt(m_payload, ready)
  BY <1>1, InStep
<1>8. Realigned(m_payload, m_msg_len_valid_o, Head(len_fifo), ready)
  BY <1>1, <1>2, <1>6, <1>7, RealignKeeps DEF PromiseInv
<1>9. lengths' \in Seq(LongLengths)
  BY <1>2, <1>6, LongStay DEF PromiseInv
<1>10. b \in Nat /\ w \in Nat /\ t = b + w /\ t2 \in Nat /\ t2 + sent = t + more
  <2>1. w \in Nat /\ b \in Nat
    BY <1>1, WordLength DEF OutputInv
  <2>2. t = b + w
    BY Zenon DEF Total, PromiseInv
  <2>3. t2 + sent = t + more
    BY <1>8, Zenon DEF Realigned
  <2>4. LengthInv'
    BY <1>1, <1>2, <1>6, RealignKeeps
  <2>5. (message.left)' \in Nat /\ SumOf(lengths)' \in Nat
    BY <2>4, SumOfType DEF LengthInv, IsMsg
  <2>6. t2 \in Nat
    BY <2>5 DEF Total
  <2> QED
    BY <2>1, <2>2, <2>3, <2>6
<1>11. t2 = b2 + w2
  <2> HIDE DEF t, t2, b, b2, w, w2, sent, more, takes
  <2>1. sent \in Nat /\ more \in Nat /\ b2 + w2 + sent = b + w + more
    BY <1>3, <1>4, <1>5
  <2> QED
    BY <1>3, <1>10, <2>1
<1>12. (message.left + SumOf(lengths))' = (released_bytes + Len(m_payload.bytes))'
  BY <1>11, Zenon DEF Total
<1>13. ~dropping_payload' /\ realign_err' = "NONE"
  BY <1>8, Zenon DEF Realigned
<1> QED
  BY <1>9, <1>12, <1>13, Zenon DEF PromiseInv


-----------------------------------------------------------------------------
(* The deframer's own books: they need no assumption about the feed.       *)
DeframerBooks == PhaseInv /\ LastInv /\ OwedInv /\ PresentedInv

LEMMA InitDeframerBooks == IngressInit => DeframerBooks
<1> SUFFICES ASSUME IngressInit PROVE DeframerBooks
  OBVIOUS
<1>1. /\ state = "HEADER" /\ ~dropping /\ len_fifo = <<>> /\ released_bytes = 0
      /\ reservoir = <<>> /\ payload_left = 0 /\ ~payload_generation_done
      /\ desc = NoWord /\ compact = NoWord /\ m_payload = NoWord
  BY Zenon DEF IngressInit, MoldDeframeInit
<1>2. /\ desc.bytes = <<>> /\ compact.bytes = <<>> /\ m_payload.bytes = <<>>
      /\ ~desc.last /\ ~compact.last /\ ~m_payload.last
  BY <1>1, NoWordIsEmpty
<1>3. OutputEmpty
  BY <1>1, <1>2, Zenon DEF OutputEmpty
<1>4. PhaseInv
  <2>1. state \in {"HEADER", "GUARD", "BODY", "DRAIN", "DONE"} /\ state # "DRAIN"
    BY <1>1
  <2> QED
    BY <1>1, <1>3, <2>1, Zenon DEF PhaseInv
<1>5. LastInv
  <2>1. state # "DONE"
    BY <1>1
  <2> QED
    BY <1>1, <1>2, <2>1, Zenon DEF LastInv, LastInFlight
<1>6. OwedInv
  BY <1>1, <1>2, NoWordIsEmpty, SumOfNone DEF OwedInv, Owed, Held
<1>7. PresentedInv
  BY <1>2, Zenon DEF PresentedInv
<1> QED
  BY <1>4, <1>5, <1>6, <1>7 DEF DeframerBooks

LEMMA SameDeframerBooks ==
  ASSUME DeframerBooks, UNCHANGED ingress_vars
  PROVE  DeframerBooks'
<1>1. UNCHANGED <<state, dropping, payload_left, desc, len_fifo>>
  BY DEF ingress_vars, mold_deframe_vars, parser_vars
<1>2. UNCHANGED <<compact, reservoir, released_bytes, payload_generation_done, m_payload>>
  BY DEF ingress_vars, mold_deframe_vars, output_vars
<1>3. PhaseInv' /\ LastInv'
  BY <1>1, <1>2 DEF DeframerBooks, PhaseInv, OutputEmpty, LastInv, LastInFlight
<1>4. OwedInv' /\ PresentedInv'
  BY <1>1, <1>2 DEF DeframerBooks, OwedInv, Owed, Held, PresentedInv
<1> QED
  BY <1>3, <1>4 DEF DeframerBooks

LEMMA StepKeepsDeframerBooks ==
  DataInv /\ DeframerBooks /\ [IngressNext]_ingress_vars => DeframerBooks'
<1>1. ASSUME DataInv, DeframerBooks,
             NEW valid \in BOOLEAN, NEW ready \in BOOLEAN, Clock(valid, ready)
      PROVE  DeframerBooks'
  <2>1. MoldDeframeStep(m_axis, fc_dgram_len, s_payload_tready_o(m_payload, ready),
                        s_msg_len_ready_o)
    BY <1>1, Zenon DEF Clock
  <2>2. OutputInv /\ FoundInv /\ ParserInv
    BY <1>1 DEF DataInv
  <2>3. PhaseInv /\ LastInv /\ OwedInv /\ PresentedInv
    BY <1>1 DEF DeframerBooks
  <2>4. PhaseInv'
    BY <2>1, <2>3, PhaseKeeps
  <2>5. LastInv'
    BY <2>1, <2>2, <2>3, LastKeeps
  <2>6. OwedInv'
    BY <2>1, <2>2, <2>3, OwedKeeps
  <2>7. PresentedInv'
    BY <2>1, <2>2, <2>3, PresentedKeeps
  <2> QED
    BY <2>4, <2>5, <2>6, <2>7 DEF DeframerBooks
<1> QED
  BY <1>1, SameDeframerBooks DEF IngressNext

(* Whatever the frames hold: unless a datagram is being given up, the      *)
(* bytes of the lengths the deframer has found are exactly the bytes it    *)
(* holds and still waits for; a word marked last leaves nothing behind     *)
(* it, and any other word presented is full.                               *)
THEOREM DeframerKeepsItsBooks == IngressSafety => []DeframerBooks
BY InitDeframerBooks, StepKeepsDeframerBooks, DataIsWellFormed, PTL DEF IngressSafety

LEMMA InitPromiseInv == IngressInit => PromiseInv
<1> SUFFICES ASSUME IngressInit PROVE PromiseInv
  OBVIOUS
<1>1. /\ lengths = <<>> /\ message = NoMessage /\ ~dropping_payload
      /\ realign_err = "NONE" /\ released_bytes = 0 /\ m_payload = NoWord
  BY Zenon DEF IngressInit, MoldDeframeInit, DataRealignInit
<1>2. <<>> \in Seq(LongLengths)
  BY EmptySeq
<1>3. message.left + SumOf(lengths) = released_bytes + Len(m_payload.bytes)
  BY <1>1, NoWordIsEmpty, SumOfNone DEF NoMessage
<1> QED
  BY <1>1, <1>2, <1>3, Zenon DEF PromiseInv

LEMMA StepKeepsPromise ==
  /\ DataInv /\ DeframerBooks /\ PromiseInv
  /\ GivesUpNothingPromised /\ NoShortMessage
  /\ [IngressNext]_ingress_vars
  => PromiseInv'
<1>1. ASSUME PromiseInv, UNCHANGED ingress_vars PROVE PromiseInv'
  <2>1. UNCHANGED <<lengths, message, dropping_payload, realign_err>>
    BY <1>1 DEF ingress_vars, data_realign_vars
  <2>2. UNCHANGED <<released_bytes, m_payload>>
    BY <1>1 DEF ingress_vars, mold_deframe_vars, output_vars
  <2> QED
    BY <1>1, <2>1, <2>2 DEF PromiseInv
<1> QED
  BY <1>1, PromiseKeeps DEF IngressNext, DeframerBooks

(* As long as the deframer gives up no datagram of which a length has been *)
(* accepted, and no message is shorter than a word, the lengths            *)
(* data_realign has accepted account for exactly the bytes it may still be *)
(* sent, every buffer has room, and it never finds a word and the lengths  *)
(* at odds.                                                                *)
THEOREM PromisesAreKept ==
  IngressSafety /\ []GivesUpNothingPromised /\ []NoShortMessage => []LengthsCoverBytes
<1>1. PromiseInv /\ BuffersHaveRoom => LengthsCoverBytes
  BY DEF PromiseInv, LengthsCoverBytes
<1> QED
  BY <1>1, InitPromiseInv, StepKeepsPromise, DataIsWellFormed, DeframerKeepsItsBooks,
     NoBufferOverflows, PTL DEF IngressSafety
=============================================================================
