----------------------- MODULE OrderBookPipelineProofs -----------------------
(***************************************************************************)
(* Two results about the pipeline, for any stream of events, hash function,*)
(* table, CAM, prices and entry gap.                                       *)
(*                                                                         *)
(* The answers keep their distance: for that only matters where the tokens *)
(* are, not what was looked up for them, and the proof follows them        *)
(* through the fifteen stages.                                             *)
(*                                                                         *)
(* Everything is of its type: the fields a token has in each stage, what   *)
(* the registers between the stages hold, and what is written back.        *)
(***************************************************************************)
EXTENDS OrderBookPipeline, SequenceTheorems, WellFoundedInduction, TLAPS

(* The stages as one row, the youngest token first.                        *)
Pipe == [p \in 1 .. 15 |-> IF p <= 10 THEN stage[p] ELSE IF p = 11 THEN eval ELSE line[p - 11]]

Full(p) == Pipe[p] # Bubble

(* The token of a stage will be answered, unless it is dropped.            *)
Owes(p) == Full(p) /\ Pipe[p].rep # "DEL"

RowTypes ==
  /\ entry_gap \in Nat
  /\ held # Bubble => "rep" \in DOMAIN held
  /\ \A p \in 1 .. 15 : Full(p) => "rep" \in DOMAIN Pipe[p]

(* Whatever follows a token that will be answered keeps its distance.      *)
Spaced ==
  \A p, q \in 1 .. 15 : q < p /\ Full(q) /\ Owes(p) => p - q >= MIN_ENTRY_GAP

SpacedFromOutput ==
  bbo # NoBbo => \A q \in 1 .. 15 : Full(q) => 16 - q >= MIN_ENTRY_GAP

(* The entry gap counts the empty stages at the entrance.                  *)
GapCounts ==
  /\ entry_gap <= MIN_ENTRY_GAP
  /\ \A p \in 1 .. 15 : p < entry_gap => ~Full(p)

(* The second half of a REPLACE is only behind the first.                  *)
HeldBehind ==
  held # Bubble => \A p \in 1 .. 15 : Owes(p) => p >= MIN_ENTRY_GAP

(* A stall holds nothing back that would be evaluated twice.               *)
StallSpaced ==
  stall => \A p \in 1 .. 10 : Full(p) => 11 - p >= MIN_ENTRY_GAP

GInv ==
  RowTypes /\ Spaced /\ SpacedFromOutput /\ GapCounts /\ HeldBehind /\ StallSpaced

-----------------------------------------------------------------------------
LEMMA GInvImplies == GInv => AnswersSpaced
<1> SUFFICES ASSUME GInv, bbo # NoBbo, NEW i \in 1 .. 4, i > 5 - MIN_ENTRY_GAP
             PROVE  line[i] = Bubble
  BY DEF AnswersSpaced
<1>1. Pipe[11 + i] = line[i] /\ 11 + i \in 1 .. 15
  BY DEF Pipe
<1>2. MIN_ENTRY_GAP \in Nat
  BY PipelineAssumption
<1>3. Full(11 + i) => 16 - (11 + i) >= MIN_ENTRY_GAP
  BY <1>1 DEF GInv, SpacedFromOutput
<1> QED BY <1>1, <1>2, <1>3 DEF Full

(* What a stage does to its token keeps whose half of a REPLACE it is.     *)
Keeps(old, new) ==
  new # Bubble => old # Bubble /\ "rep" \in DOMAIN new /\ new.rep = old.rep

LEMMA WithKeeps ==
  ASSUME NEW t, t # Bubble, "rep" \in DOMAIN t, NEW more
  PROVE  /\ With(t, more) # Bubble => Keeps(t, With(t, more))
         /\ With(t, more).rep = t.rep
         /\ "rep" \in DOMAIN With(t, more)
BY DEF Keeps, With

LEMMA WithUnderKeeps ==
  ASSUME NEW t, t # Bubble, "rep" \in DOMAIN t, NEW more, "rep" \notin DOMAIN more
  PROVE  /\ With(more, t).rep = t.rep
         /\ "rep" \in DOMAIN With(more, t)
BY DEF With

LEMMA StagesKeep ==
  ASSUME NEW t, t # Bubble => "rep" \in DOMAIN t
  PROVE  /\ Keeps(t, Through(ReadBucket, t))
         /\ Keeps(t, Through(Lookup, t))
         /\ Keeps(t, Through(Search, t))
         /\ Keeps(t, Through(ReadEntry, t))
         /\ Keeps(t, Through(IssueRead, t))
         /\ Keeps(t, Through(CaptureLevel, t))
         /\ Keeps(t, Through(WithSide, t))
<1>1. Keeps(t, Through(ReadBucket, t))
  BY WithKeeps DEF Through, ReadBucket, Keeps
<1>2. Keeps(t, Through(Lookup, t))
  <2> SUFFICES ASSUME t # Bubble
               PROVE  Lookup(t).rep = t.rep /\ "rep" \in DOMAIN Lookup(t)
    BY DEF Through, Keeps
  <2> DEFINE patched == [t EXCEPT !.bucket = Patched(t)]
  <2>1. patched.rep = t.rep /\ "rep" \in DOMAIN patched
    OBVIOUS
  <2> HIDE DEF patched
  <2>2. ASSUME NEW more
        PROVE  With(patched, more).rep = patched.rep /\ "rep" \in DOMAIN With(patched, more)
    BY <2>1 DEF With
  <2> QED BY <2>1, <2>2 DEF Lookup, patched
<1>3. Keeps(t, Through(Search, t))
  BY WithKeeps DEF Through, Search, Keeps
<1>4. Keeps(t, Through(ReadEntry, t))
  <2> SUFFICES ASSUME t # Bubble
               PROVE  ReadEntry(t).rep = t.rep /\ "rep" \in DOMAIN ReadEntry(t)
    BY DEF Through, Keeps
  <2>1. \A more : With(t, more).rep = t.rep /\ "rep" \in DOMAIN With(t, more)
    BY DEF With
  <2>2. \A more, found : /\ With(With(t, more), found).rep = t.rep
                         /\ "rep" \in DOMAIN With(With(t, more), found)
    BY <2>1 DEF With
  <2> QED BY <2>1, <2>2 DEF ReadEntry
<1>5. Keeps(t, Through(IssueRead, t))
  BY WithUnderKeeps DEF Through, IssueRead, Keeps
<1>6. Keeps(t, Through(CaptureLevel, t))
  BY WithKeeps DEF Through, CaptureLevel, Keeps
<1>7. Keeps(t, Through(WithSide, t))
  BY WithUnderKeeps DEF Through, WithSide, Keeps
<1> QED BY <1>1, <1>2, <1>3, <1>4, <1>5, <1>6, <1>7

LEMMA LineMoves ==
  ASSUME NEW row, NEW x
  PROVE  /\ (<<x>> \o SubSeq(row, 1, 3))[1] = x
         /\ \A i \in 1 .. 3 : (<<x>> \o SubSeq(row, 1, 3))[i + 1] = row[i]
<1> DEFINE kept == SubSeq(row, 1, 3)
           values == {row[i] : i \in 1 .. 3} \cup {x}
<1>1. \A i \in 1 .. 3 : row[i] \in values
  OBVIOUS
<1>2. <<x>> \in Seq(values) /\ Len(<<x>>) = 1 /\ <<x>>[1] = x
  OBVIOUS
<1> HIDE DEF values
<1>3. kept \in Seq(values) /\ Len(kept) = 3 /\ \A i \in 1 .. 3 : kept[i] = row[i]
  <2>1. /\ kept \in Seq(values)
        /\ Len(kept) = IF 1 <= 3 THEN 3 - 1 + 1 ELSE 0
        /\ \A i \in 1 .. 3 - 1 + 1 : kept[i] = row[1 + i - 1]
    BY <1>1, SubSeqProperties
  <2>2. 1 <= 3 /\ 3 - 1 + 1 = 3 /\ \A i \in 1 .. 3 : 1 + i - 1 = i
    OBVIOUS
  <2>3. \A i \in 1 .. 3 : kept[i] = row[i]
    BY <2>1, <2>2
  <2>4. kept \in Seq(values)
    BY <2>1
  <2>5. Len(kept) = 3
    <3>1. Len(kept) = 3 - 1 + 1
      BY <2>1, <2>2, Zenon
    <3> QED BY <2>2, <3>1
  <2> HIDE DEF kept
  <2> QED BY <2>3, <2>4, <2>5
<1> HIDE DEF kept
<1> DEFINE one == <<x>>
           both == one \o kept
<1> HIDE DEF one
<1>4. \A i \in 1 .. Len(one) + Len(kept) :
        both[i] = IF i <= Len(one) THEN one[i] ELSE kept[i - Len(one)]
  BY <1>2, <1>3, ConcatProperties DEF one
<1> HIDE DEF both
<1>5. both[1] = x
  <2>1. Len(one) = 1 /\ one[1] = x /\ Len(kept) = 3
    BY <1>2, <1>3 DEF one
  <2> QED BY <1>4, <2>1
<1>6. ASSUME NEW i \in 1 .. 3
      PROVE  both[i + 1] = row[i]
  <2>1. Len(one) = 1 /\ Len(kept) = 3
    BY <1>2, <1>3 DEF one
  <2>2. i + 1 \in 1 .. Len(one) + Len(kept) /\ ~(i + 1 <= Len(one)) /\ (i + 1) - Len(one) = i
    BY <2>1
  <2>3. both[i + 1] = kept[i]
    BY <1>4, <2>2
  <2> QED BY <1>3, <2>3
<1> QED BY <1>5, <1>6 DEF both, one, kept

(* The four stages behind the evaluation move on every edge.               *)
LEMMA TailMoves ==
  ASSUME RowTypes, Evaluate, Output
  PROVE  \A p \in 10 .. 14 : Keeps(Pipe[p], Pipe'[p + 1])
<1> DEFINE x == IF eval = Bubble THEN Bubble ELSE [rep |-> eval.rep, is_zero |-> eval.is_zero]
<1>2. line' = <<x>> \o SubSeq(line, 1, 3)
  BY DEF Output
<1> HIDE DEF x
<1>3. line'[1] = x /\ \A i \in 1 .. 3 : line'[i + 1] = line[i]
  BY <1>2, LineMoves
<1>4. Keeps(Pipe[10], Pipe'[11])
  BY DEF Pipe, Keeps, Evaluate, Evaluated
<1>5. Keeps(Pipe[11], Pipe'[12])
  <2>1. Pipe[11] = eval /\ Pipe'[12] = line'[1]
    BY DEF Pipe
  <2>2. x # Bubble => eval # Bubble /\ "rep" \in DOMAIN x /\ x.rep = eval.rep
    BY DEF x
  <2> QED BY <1>3, <2>1, <2>2 DEF Keeps
<1>6. ASSUME NEW p \in 12 .. 14
      PROVE  Keeps(Pipe[p], Pipe'[p + 1])
  <2>1. Pipe[p] = line[p - 11] /\ Pipe'[p + 1] = line'[p - 10]
    BY DEF Pipe
  <2>2. line'[p - 10] = line[p - 11]
    <3>1. p - 11 \in 1 .. 3 /\ (p - 11) + 1 = p - 10
      OBVIOUS
    <3> QED BY <1>3, <3>1
  <2>3. Pipe[p] # Bubble => "rep" \in DOMAIN Pipe[p]
    BY DEF RowTypes, Full
  <2> QED BY <2>1, <2>2, <2>3 DEF Keeps
<1> QED BY <1>4, <1>5, <1>6

(* An edge without a stall moves every token one stage.                    *)
LEMMA RowMoves ==
  ASSUME RowTypes, Evaluate, Output, ~stall, NEW x, MovePipe(x)
  PROVE  /\ Pipe'[1] = x
         /\ \A p \in 1 .. 14 : Keeps(Pipe[p], Pipe'[p + 1])
<1>1. /\ stage'[1] = x
      /\ stage'[2] = Through(ReadBucket, stage[1])
      /\ stage'[3] = Through(Lookup, stage[2])
      /\ stage'[4] = Through(Search, stage[3])
      /\ stage'[5] = Through(ReadEntry, stage[4])
      /\ stage'[6] = Through(IssueRead, stage[5])
      /\ stage'[7] = stage[6]
      /\ stage'[8] = stage[7]
      /\ stage'[9] = Through(CaptureLevel, stage[8])
      /\ stage'[10] = Through(WithSide, stage[9])
  BY DEF MovePipe
<1>2. ASSUME NEW p \in 1 .. 10
      PROVE  /\ Pipe[p] = stage[p] /\ Pipe'[p] = stage'[p]
             /\ stage[p] # Bubble => "rep" \in DOMAIN stage[p]
  BY DEF Pipe, RowTypes, Full
<1>3. /\ Keeps(stage[1], stage'[2]) /\ Keeps(stage[2], stage'[3])
      /\ Keeps(stage[3], stage'[4]) /\ Keeps(stage[4], stage'[5])
      /\ Keeps(stage[5], stage'[6]) /\ Keeps(stage[6], stage'[7])
      /\ Keeps(stage[7], stage'[8]) /\ Keeps(stage[8], stage'[9])
      /\ Keeps(stage[9], stage'[10])
  <2>1. Keeps(stage[1], stage'[2])
    BY <1>1, <1>2, StagesKeep
  <2>2. Keeps(stage[2], stage'[3])
    BY <1>1, <1>2, StagesKeep
  <2>3. Keeps(stage[3], stage'[4])
    BY <1>1, <1>2, StagesKeep
  <2>4. Keeps(stage[4], stage'[5])
    BY <1>1, <1>2, StagesKeep
  <2>5. Keeps(stage[5], stage'[6])
    BY <1>1, <1>2, StagesKeep
  <2>6. Keeps(stage[6], stage'[7]) /\ Keeps(stage[7], stage'[8])
    BY <1>1, <1>2 DEF Keeps
  <2>7. Keeps(stage[8], stage'[9])
    BY <1>1, <1>2, StagesKeep
  <2>8. Keeps(stage[9], stage'[10])
    BY <1>1, <1>2, StagesKeep
  <2> QED BY <2>1, <2>2, <2>3, <2>4, <2>5, <2>6, <2>7, <2>8
<1>4. ASSUME NEW p \in 1 .. 9
      PROVE  Keeps(Pipe[p], Pipe'[p + 1])
  BY <1>2, <1>3
<1>5. \A p \in 10 .. 14 : Keeps(Pipe[p], Pipe'[p + 1])
  BY TailMoves
<1> QED BY <1>1, <1>2, <1>4, <1>5

(* A stalled edge holds ten stages and moves the rest.                     *)
LEMMA RowHeld ==
  ASSUME RowTypes, Evaluate, Output, stall, MovePipe(Bubble)
  PROVE  /\ \A p \in 1 .. 10 : Pipe'[p] = Pipe[p]
         /\ \A p \in 10 .. 14 : Keeps(Pipe[p], Pipe'[p + 1])
<1>1. \A p \in 1 .. 10 : Pipe'[p] = Pipe[p]
  BY DEF MovePipe, Pipe
<1> QED BY <1>1, TailMoves

(* What an edge that moves everything needs of the token that enters: no   *)
(* answer that is owed is closer than the entry gap.                       *)
MayEnter(x) ==
  x # Bubble => /\ "rep" \in DOMAIN x
                /\ \A p \in 1 .. 15 : Owes(p) => p >= MIN_ENTRY_GAP

LEMMA MovedRow ==
  ASSUME NEW x, GInv, Pipeline(x), ~stall, MayEnter(x)
  PROVE  /\ \A p \in 1 .. 15 : Full(p)' => "rep" \in DOMAIN Pipe'[p]
         /\ Spaced' /\ SpacedFromOutput' /\ StallSpaced'
         /\ \A p \in 2 .. 15 : /\ Full(p)' => Full(p - 1)
                               /\ Owes(p)' => Owes(p - 1)
         /\ Full(1)' => Pipe'[1] = x /\ x # Bubble
         /\ Owes(1)' => x.rep # "DEL"
<1> DEFINE gap == MIN_ENTRY_GAP
<1> USE DEF GInv
<1>0. gap \in Nat \ {0}
  BY PipelineAssumption
<1>1. Pipe'[1] = x /\ \A p \in 1 .. 14 : Keeps(Pipe[p], Pipe'[p + 1])
  BY RowMoves DEF Pipeline
<1>2. ASSUME NEW p \in 2 .. 15
      PROVE  /\ Full(p)' => Full(p - 1) /\ "rep" \in DOMAIN Pipe'[p]
             /\ Owes(p)' => Owes(p - 1)
  <2>1. p - 1 \in 1 .. 14 /\ (p - 1) + 1 = p
    OBVIOUS
  <2>2. Keeps(Pipe[p - 1], Pipe'[p])
    BY <1>1, <2>1
  <2> QED BY <2>2 DEF Keeps, Full, Owes
<1>3. /\ Full(1)' => Pipe'[1] = x /\ x # Bubble
      /\ Owes(1)' => x.rep # "DEL"
  BY <1>1 DEF Full, Owes
<1>4. ASSUME NEW p \in 1 .. 15, Full(p)'
      PROVE  "rep" \in DOMAIN Pipe'[p]
  <2>1. p = 1 \/ p \in 2 .. 15
    OBVIOUS
  <2> QED BY <1>1, <1>2, <1>3, <1>4, <2>1 DEF MayEnter
<1>5. ASSUME NEW p \in 2 .. 15, Owes(p)', Full(1)'
      PROVE  p - 1 >= gap
  <2>1. Owes(p - 1) /\ p - 1 \in 1 .. 15
    BY <1>2, <1>5
  <2> QED BY <1>3, <1>5, <2>1 DEF MayEnter
<1>6. Spaced'
  <2> SUFFICES ASSUME NEW p \in 1 .. 15, NEW q \in 1 .. 15, q < p, Full(q)', Owes(p)'
               PROVE  p - q >= gap
    BY DEF Spaced
  <2>1. CASE q = 1
    BY <1>5, <2>1
  <2>2. CASE q # 1
    <3>1. p \in 2 .. 15 /\ q \in 2 .. 15 /\ p - 1 \in 1 .. 15 /\ q - 1 \in 1 .. 15
      BY <2>2
    <3>2. Full(q - 1) /\ Owes(p - 1)
      BY <1>2, <3>1
    <3>3. (p - 1) - (q - 1) >= gap
      BY <3>1, <3>2 DEF Spaced
    <3> QED BY <1>0, <3>1, <3>3
  <2> QED BY <2>1, <2>2
<1>7. SpacedFromOutput'
  <2> SUFFICES ASSUME bbo' # NoBbo, NEW q \in 1 .. 15, Full(q)'
               PROVE  16 - q >= gap
    BY DEF SpacedFromOutput
  <2>1. Pipe[15] = line[4]
    BY DEF Pipe
  <2>2. Owes(15)
    BY <2>1 DEF Pipeline, Output, Answer, Owes, Full
  <2>3. CASE q = 1
    <3>1. 15 >= gap
      BY <1>3, <2>2, <2>3 DEF MayEnter
    <3> QED BY <1>0, <2>3, <3>1
  <2>4. CASE q # 1
    <3>1. q \in 2 .. 15 /\ q - 1 \in 1 .. 15 /\ q - 1 < 15
      BY <2>4
    <3>2. Full(q - 1)
      BY <1>2, <3>1
    <3>3. 15 - (q - 1) >= gap
      BY <2>2, <3>1, <3>2 DEF Spaced
    <3> QED BY <1>0, <3>1, <3>3
  <2> QED BY <2>3, <2>4
<1>8. StallSpaced'
  <2> SUFFICES ASSUME stall', NEW q \in 1 .. 10, Full(q)'
               PROVE  11 - q >= gap
    BY DEF StallSpaced
  <2>1. Pipe[10] = stage[10]
    BY DEF Pipe
  <2>2. Owes(10)
    BY <2>1 DEF Pipeline, Evaluate, Owes, Full
  <2>3. CASE q = 1
    <3>1. 10 >= gap
      BY <1>3, <2>2, <2>3 DEF MayEnter
    <3> QED BY <1>0, <2>3, <3>1
  <2>4. CASE q # 1
    <3>1. q \in 2 .. 15 /\ q - 1 \in 1 .. 15 /\ q - 1 < 10
      BY <2>4
    <3>2. Full(q - 1)
      BY <1>2, <3>1
    <3>3. 10 - (q - 1) >= gap
      BY <2>2, <3>1, <3>2 DEF Spaced
    <3> QED BY <1>0, <3>1, <3>3
  <2> QED BY <2>3, <2>4
<1> QED BY <1>2, <1>3, <1>4, <1>6, <1>7, <1>8

-----------------------------------------------------------------------------
(* The actions, one by one.                                                *)

LEMMA Halves ==
  ASSUME NEW e
  PROVE  /\ "rep" \in DOMAIN First(e)
         /\ Second(e) # Bubble => /\ "rep" \in DOMAIN Second(e)
                                  /\ First(e).rep = "DEL"
BY DEF First, Second, With

LEMMA AcceptKeeps ==
  ASSUME NEW next, GInv, Accept(next)
  PROVE  GInv'
<1> USE DEF GInv
<1>0. MIN_ENTRY_GAP \in Nat \ {0}
  BY PipelineAssumption
<1>1. ASSUME NEW p \in 1 .. 15, Owes(p)
      PROVE  p >= MIN_ENTRY_GAP
  BY <1>0, <1>1 DEF Accept, ready_o, GapCounts, RowTypes, Owes
<1>2. MayEnter(First(offer)) /\ Pipeline(First(offer)) /\ ~stall
  BY <1>1, Halves DEF MayEnter, Accept, ready_o
<1>3. /\ \A p \in 1 .. 15 : Full(p)' => "rep" \in DOMAIN Pipe'[p]
      /\ Spaced' /\ SpacedFromOutput' /\ StallSpaced'
      /\ \A p \in 2 .. 15 : /\ Full(p)' => Full(p - 1)
                            /\ Owes(p)' => Owes(p - 1)
      /\ Owes(1)' => First(offer).rep # "DEL"
  BY <1>2, MovedRow
<1>4. entry_gap' = 1 /\ held' = Second(offer)
  BY DEF Accept
<1>5. RowTypes'
  BY <1>3, <1>4, Halves DEF RowTypes
<1>6. GapCounts'
  BY <1>0, <1>4 DEF GapCounts
<1>7. HeldBehind'
  <2> SUFFICES ASSUME held' # Bubble, NEW p \in 1 .. 15, Owes(p)'
               PROVE  p >= MIN_ENTRY_GAP
    BY DEF HeldBehind
  <2>1. p # 1
    BY <1>3, <1>4, Halves
  <2>2. p \in 2 .. 15 /\ p - 1 \in 1 .. 15
    BY <2>1
  <2>3. p - 1 >= MIN_ENTRY_GAP
    BY <1>1, <1>3, <2>2
  <2> QED BY <1>0, <2>2, <2>3
<1> QED BY <1>3, <1>5, <1>6, <1>7

LEMMA EnterReplacementKeeps ==
  ASSUME GInv, EnterReplacement
  PROVE  GInv'
<1> USE DEF GInv
<1>0. MIN_ENTRY_GAP \in Nat \ {0}
  BY PipelineAssumption
<1>1. MayEnter(held) /\ Pipeline(held) /\ ~stall
  BY DEF MayEnter, EnterReplacement, HeldBehind, RowTypes
<1>2. /\ \A p \in 1 .. 15 : Full(p)' => "rep" \in DOMAIN Pipe'[p]
      /\ Spaced' /\ SpacedFromOutput' /\ StallSpaced'
  BY <1>1, MovedRow
<1>3. entry_gap' = 1 /\ held' = Bubble
  BY DEF EnterReplacement
<1>4. RowTypes'
  BY <1>2, <1>3 DEF RowTypes
<1>5. GapCounts' /\ HeldBehind'
  BY <1>0, <1>3 DEF GapCounts, HeldBehind
<1> QED BY <1>2, <1>4, <1>5

LEMMA EnterNothingKeeps ==
  ASSUME GInv, EnterNothing
  PROVE  GInv'
<1> USE DEF GInv
<1>0. MIN_ENTRY_GAP \in Nat \ {0} /\ entry_gap \in Nat
  BY PipelineAssumption DEF RowTypes
<1>1. MayEnter(Bubble) /\ Pipeline(Bubble) /\ ~stall
  BY DEF MayEnter, EnterNothing
<1>2. /\ \A p \in 1 .. 15 : Full(p)' => "rep" \in DOMAIN Pipe'[p]
      /\ Spaced' /\ SpacedFromOutput' /\ StallSpaced'
      /\ \A p \in 2 .. 15 : Full(p)' => Full(p - 1)
      /\ ~Full(1)'
  BY <1>1, MovedRow
<1>3. entry_gap' = GapCount /\ held' = Bubble
  BY DEF EnterNothing
<1>4. entry_gap' \in Nat /\ entry_gap' <= MIN_ENTRY_GAP /\ entry_gap' <= entry_gap + 1
  BY <1>0, <1>3 DEF GapCount, GapCounts
<1>5. RowTypes'
  BY <1>2, <1>3, <1>4 DEF RowTypes
<1>6. GapCounts'
  <2> SUFFICES ASSUME NEW p \in 1 .. 15, p < entry_gap'
               PROVE  ~Full(p)'
    BY <1>4 DEF GapCounts
  <2>1. CASE p = 1
    BY <1>2, <2>1
  <2>2. CASE p # 1
    <3>1. p \in 2 .. 15 /\ p - 1 \in 1 .. 15 /\ p - 1 < entry_gap
      BY <1>0, <1>4, <2>2
    <3> QED BY <1>2, <3>1 DEF GapCounts
  <2> QED BY <2>1, <2>2
<1>7. HeldBehind'
  BY <1>3 DEF HeldBehind
<1> QED BY <1>2, <1>5, <1>6, <1>7

LEMMA StalledKeeps ==
  ASSUME GInv, Stalled
  PROVE  GInv'
<1> USE DEF GInv
<1> DEFINE gap == MIN_ENTRY_GAP
<1>0. gap \in Nat \ {0}
  BY PipelineAssumption
<1>1. /\ \A p \in 1 .. 10 : Pipe'[p] = Pipe[p]
      /\ \A p \in 10 .. 14 : Keeps(Pipe[p], Pipe'[p + 1])
  BY RowHeld DEF Stalled, Pipeline
<1>2. stall /\ Pipeline(Bubble) /\ entry_gap' = entry_gap /\ held' = held
  BY DEF Stalled, admission
<1>3. ASSUME NEW p \in 1 .. 10
      PROVE  /\ Full(p)' <=> Full(p)
             /\ Owes(p)' <=> Owes(p)
             /\ Full(p)' => "rep" \in DOMAIN Pipe'[p]
  BY <1>1 DEF Full, Owes, RowTypes
<1>4. ASSUME NEW p \in 11 .. 15
      PROVE  /\ p - 1 \in 10 .. 14
             /\ Full(p)' => Full(p - 1) /\ "rep" \in DOMAIN Pipe'[p]
             /\ Owes(p)' => Owes(p - 1)
  <2>1. p - 1 \in 10 .. 14 /\ (p - 1) + 1 = p
    OBVIOUS
  <2>2. Keeps(Pipe[p - 1], Pipe'[p])
    BY <1>1, <2>1
  <2> QED BY <2>1, <2>2 DEF Keeps, Full, Owes
<1>5. \A p \in 1 .. 15 : p \in 1 .. 10 \/ p \in 11 .. 15
  OBVIOUS
<1>6. RowTypes'
  <2>1. \A p \in 1 .. 15 : Full(p)' => "rep" \in DOMAIN Pipe'[p]
    BY <1>3, <1>4, <1>5
  <2> QED BY <1>2, <2>1 DEF RowTypes
<1>7. gap > 1 => ~Full(10)
  <2> SUFFICES ASSUME Full(10), gap > 1
               PROVE  FALSE
    OBVIOUS
  <2>1. 11 - 10 >= gap
    BY <1>2 DEF StallSpaced
  <2> QED BY <1>0, <2>1
<1>8. Spaced'
  <2> SUFFICES ASSUME NEW p \in 1 .. 15, NEW q \in 1 .. 15, q < p, Full(q)', Owes(p)'
               PROVE  p - q >= gap
    BY DEF Spaced
  <2>1. CASE gap = 1
    BY <2>1
  <2>2. CASE p \in 1 .. 10
    <3>1. q \in 1 .. 10
      BY <2>2
    <3> QED BY <1>3, <2>2, <3>1 DEF Spaced
  <2>3. CASE gap > 1 /\ p \in 11 .. 15
    <3>1. Owes(p - 1) /\ p - 1 \in 10 .. 14
      BY <1>4, <2>3
    <3>2. p - 1 # 10
      BY <1>7, <2>3, <3>1 DEF Owes
    <3>3. CASE q \in 1 .. 10
      <4>1. q < p - 1 /\ p - 1 \in 1 .. 15 /\ Full(q)
        BY <1>3, <2>3, <3>1, <3>2, <3>3
      <4>2. (p - 1) - q >= gap
        BY <3>1, <4>1 DEF Spaced
      <4> QED BY <1>0, <4>2
    <3>4. CASE q \in 11 .. 15
      <4>1. Full(q - 1) /\ q - 1 \in 1 .. 15 /\ p - 1 \in 1 .. 15 /\ q - 1 < p - 1
        BY <1>4, <3>1, <3>4
      <4>2. (p - 1) - (q - 1) >= gap
        BY <3>1, <4>1 DEF Spaced
      <4> QED BY <1>0, <4>2
    <3> QED BY <1>5, <3>3, <3>4
  <2> QED BY <1>0, <1>5, <2>1, <2>2, <2>3
<1>9. SpacedFromOutput'
  <2> SUFFICES ASSUME bbo' # NoBbo, NEW q \in 1 .. 15, Full(q)'
               PROVE  16 - q >= gap
    BY DEF SpacedFromOutput
  <2>1. Pipe[15] = line[4]
    BY DEF Pipe
  <2>2. Owes(15)
    BY <1>2, <2>1 DEF Pipeline, Output, Answer, Owes, Full
  <2>3. CASE q \in 1 .. 10
    <3>1. q < 15 /\ Full(q)
      BY <1>3, <2>3
    <3>2. 15 - q >= gap
      BY <2>2, <3>1 DEF Spaced
    <3> QED BY <1>0, <3>2
  <2>4. CASE q \in 11 .. 15
    <3>1. Full(q - 1) /\ q - 1 \in 1 .. 15 /\ q - 1 < 15
      BY <1>4, <2>4
    <3>2. 15 - (q - 1) >= gap
      BY <2>2, <3>1 DEF Spaced
    <3> QED BY <1>0, <3>2
  <2> QED BY <1>5, <2>3, <2>4
<1>10. GapCounts'
  <2> SUFFICES ASSUME NEW p \in 1 .. 15, p < entry_gap
               PROVE  ~Full(p)'
    BY <1>2 DEF GapCounts
  <2>1. CASE p \in 1 .. 10
    BY <1>3, <2>1 DEF GapCounts
  <2>2. CASE p \in 11 .. 15
    <3>1. p - 1 \in 1 .. 15 /\ p - 1 < entry_gap
      BY <2>2 DEF RowTypes
    <3> QED BY <1>4, <2>2, <3>1 DEF GapCounts
  <2> QED BY <1>5, <2>1, <2>2
<1>11. HeldBehind'
  <2> SUFFICES ASSUME held # Bubble, NEW p \in 1 .. 15, Owes(p)'
               PROVE  p >= gap
    BY <1>2 DEF HeldBehind
  <2>1. CASE p \in 1 .. 10
    BY <1>3, <2>1 DEF HeldBehind
  <2>2. CASE p \in 11 .. 15
    <3>1. Owes(p - 1) /\ p - 1 \in 1 .. 15
      BY <1>4, <2>2
    <3>2. p - 1 >= gap
      BY <3>1 DEF HeldBehind
    <3> QED BY <1>0, <3>2
  <2> QED BY <1>5, <2>1, <2>2
<1>12. StallSpaced'
  <2>1. CASE gap = 1
    BY <2>1 DEF StallSpaced
  <2>2. CASE gap > 1
    <3>1. stage[10] = Bubble
      BY <1>7, <2>2 DEF Full, Pipe
    <3> QED BY <1>2, <3>1 DEF StallSpaced, Pipeline, Evaluate
  <2> QED BY <1>0, <2>1, <2>2
<1> QED BY <1>6, <1>8, <1>9, <1>10, <1>11, <1>12

LEMMA GInvInit == Init => GInv
<1> SUFFICES ASSUME Init PROVE GInv
  OBVIOUS
<1>1. ASSUME NEW p \in 1 .. 15
      PROVE  ~Full(p)
  <2>1. \A i \in 1 .. 4 : line[i] = Bubble
    BY DEF Init
  <2>2. CASE p <= 11
    BY <2>2 DEF Init, Full, Pipe
  <2>3. CASE p > 11
    BY <2>1, <2>3 DEF Full, Pipe
  <2> QED BY <2>2, <2>3
<1>2. entry_gap = MIN_ENTRY_GAP /\ held = Bubble /\ bbo = NoBbo /\ ~stall
  BY DEF Init
<1>3. MIN_ENTRY_GAP \in Nat
  BY PipelineAssumption
<1> QED BY <1>1, <1>2, <1>3 DEF GInv, RowTypes, Spaced, SpacedFromOutput, GapCounts,
                                HeldBehind, StallSpaced, Owes

LEMMA GInvStutters == ASSUME GInv, UNCHANGED vars PROVE GInv'
BY DEF GInv, RowTypes, Spaced, SpacedFromOutput, GapCounts, HeldBehind, StallSpaced,
       Owes, Full, Pipe, vars, source, admission, storage, bboregs

(* Answers leave the pipeline at least MIN_ENTRY_GAP cycles apart, for any *)
(* entry gap and any stream: ready_o and the split of a REPLACE space the  *)
(* tokens at the entrance (order_book_v4.sv), no stage brings two closer,  *)
(* and a stall never holds back a token within the gap behind the one      *)
(* that stalls.                                                            *)
THEOREM AnswersKeepApart == Spec => []AnswersSpaced
<1>1. ASSUME GInv, [Next]_vars
      PROVE  GInv'
  <2>1. ASSUME NEW next, Accept(next) PROVE GInv'
    BY <1>1, <2>1, AcceptKeeps
  <2>2. CASE EnterReplacement
    BY <1>1, <2>2, EnterReplacementKeeps
  <2>3. CASE EnterNothing
    BY <1>1, <2>3, EnterNothingKeeps
  <2>4. CASE Stalled
    BY <1>1, <2>4, StalledKeeps
  <2>5. CASE UNCHANGED vars
    BY <1>1, <2>5, GInvStutters
  <2> QED BY <1>1, <2>1, <2>2, <2>3, <2>4, <2>5 DEF Next
<1> QED BY <1>1, GInvInit, GInvImplies, PTL DEF Spec

-----------------------------------------------------------------------------
(* What the tokens carry.  Arithmetic of the indices first.                *)
LEMMA ModRange ==
  ASSUME NEW a \in Int, NEW d \in Nat \ {0}
  PROVE  a % d \in 0 .. d - 1
OBVIOUS

LEMMA DivRange ==
  ASSUME NEW a \in Nat, NEW d \in Nat \ {0}
  PROVE  /\ a \div d \in Nat
         /\ d * (a \div d) <= a
         /\ a < d * (a \div d) + d
OBVIOUS

LEMMA TimesMonotonic ==
  ASSUME NEW a \in Nat, NEW b \in Nat, a <= b, NEW d \in Nat
  PROVE  d * a <= d * b
OBVIOUS

LEMMA DivMonotonic ==
  ASSUME NEW a \in Nat, NEW b \in Nat, a <= b, NEW d \in Nat \ {0}
  PROVE  a \div d <= b \div d
<1> DEFINE p == a \div d
           q == b \div d
<1>1. p \in Nat /\ d * p <= a
  BY DivRange
<1>2. q \in Nat /\ b < d * q + d
  BY DivRange
<1> HIDE DEF p, q
<1>3. CASE p > q
  <2>1. q + 1 <= p /\ q + 1 \in Nat
    BY <1>1, <1>2, <1>3
  <2>2. d * (q + 1) <= d * p
    BY <1>1, <2>1, TimesMonotonic
  <2>3. d * (q + 1) = d * q + d /\ d * q \in Nat /\ d * p \in Nat
    BY <1>1, <1>2
  <2> QED BY <1>1, <1>2, <2>2, <2>3
<1> QED BY <1>1, <1>2, <1>3 DEF p, q

(* A set of numbers has a least one; up to a bound it has a largest one.   *)
LEMMA Extremes ==
  ASSUME NEW top \in Nat, NEW set, set \subseteq 0 .. top, set # {}, NEW side
  PROVE  Best(side, set) \in set
<1> DEFINE NatLess == {pair \in Nat \X Nat : pair[1] < pair[2]}
<1>1. IsWellFoundedOn(NatLess, Nat)
  <2>1. NatLess = OpToRel(<, Nat)
    BY DEF OpToRel
  <2> QED BY <2>1, NatLessThanWellFounded
<1>2. ASSUME NEW some, some \subseteq Nat, some # {}
      PROVE  \E least \in some : \A n \in some : least <= n
  <2>1. PICK least \in some : \A n \in some : ~(<<n, least>> \in NatLess)
    <3> HIDE DEF NatLess
    <3> QED BY <1>1, <1>2, WFMin
  <2>2. ASSUME NEW n \in some PROVE least <= n
    <3>1. n \in Nat /\ least \in Nat
      BY <1>2
    <3>2. n < least => <<n, least>> \in NatLess
      BY <3>1
    <3> QED BY <2>1, <3>1, <3>2
  <2> QED BY <2>2
<1> HIDE DEF NatLess
<1>3. \E p \in set : \A q \in set : p <= q
  <2>1. set \subseteq Nat
    OBVIOUS
  <2> QED BY <1>2, <2>1
<1>4. \E p \in set : \A q \in set : q <= p
  <2> DEFINE mirrored == {top - p : p \in set}
  <2>1. mirrored \subseteq Nat /\ mirrored # {}
    <3>1. ASSUME NEW p \in set PROVE top - p \in Nat
      OBVIOUS
    <3>2. PICK p \in set : TRUE
      OBVIOUS
    <3>3. top - p \in mirrored
      OBVIOUS
    <3> QED BY <3>1, <3>3
  <2>2. PICK least \in mirrored : \A n \in mirrored : least <= n
    <3> HIDE DEF mirrored
    <3> QED BY <1>2, <2>1
  <2>3. PICK p \in set : least = top - p
    OBVIOUS
  <2>4. ASSUME NEW q \in set PROVE q <= p
    <3>1. top - p <= top - q
      BY <2>2, <2>3
    <3>2. p \in Nat /\ q \in Nat
      OBVIOUS
    <3> QED BY <3>1, <3>2
  <2> QED BY <2>4
<1> QED BY <1>3, <1>4 DEF Best

LEMMA LowestOfSet ==
  ASSUME NEW top \in Nat, NEW set, set \subseteq 0 .. top, NEW default
  PROVE  /\ set = {} => Lowest(set, default) = default
         /\ set # {} => Lowest(set, default) \in set
BY Extremes DEF Lowest

(* One bit of the join of some indices; none is set beyond the bound.      *)
LEMMA JoinedBit ==
  ASSUME NEW b \in Nat \ {0}, NEW top \in Nat \ {0}, NEW set, set \subseteq 0 .. top - 1,
         top <= b
  PROVE  ~\E i \in set : (i \div b) % 2 = 1
<1> SUFFICES ASSUME NEW i \in set PROVE (i \div b) % 2 # 1
  OBVIOUS
<1> DEFINE q == i \div b
<1>1. i \in Nat /\ i < b
  OBVIOUS
<1>2. q \in Nat /\ b * q <= i
  BY <1>1, DivRange
<1> HIDE DEF q
<1>3. q = 0
  <2> SUFFICES ASSUME q # 0 PROVE FALSE
    OBVIOUS
  <2>1. 1 <= q /\ b * 1 <= b * q
    BY <1>2, TimesMonotonic
  <2>2. b * q \in Nat /\ b * 1 = b
    BY <1>2
  <2> QED BY <1>1, <1>2, <2>1, <2>2
<1>4. q % 2 # 1
  BY <1>3
<1> QED BY <1>4 DEF q

-----------------------------------------------------------------------------
Slots      == 0 .. SLOTS - 1
CamIndices == 0 .. CAM_DEPTH - 1
Rows       == 0 .. Row(DEPTH - 1)
Entries    == Entry \cup {NoEntry}
EntryData  == Entry \cup {Blank}
Buckets    == [Slots -> Entries]
Words      == SUBSET Indices
Levels     == 0 .. SHARES_MOD - 1
Hashes     == {Hash[r] : r \in Refs}

(* An entry of the CAM that is not behind a tombstone is an order.         *)
CamEntries ==
  {data \in [entry : EntryData, tombstone : BOOLEAN] : data.tombstone \/ data.entry \in Entry}

LEMMA Ranges ==
  /\ 0 \in Slots /\ 0 \in CamIndices /\ 0 \in Indices /\ 0 \in Levels /\ DEPTH - 1 \in Indices
  /\ Indices \subseteq Nat /\ Levels \subseteq Nat
  /\ SLOTS - 1 \in Nat /\ CAM_DEPTH - 1 \in Nat /\ DEPTH - 1 \in Nat /\ Row(DEPTH - 1) \in Nat
  /\ Rows = 0 .. Row(DEPTH - 1)
<1>1. /\ SLOTS \in Nat \ {0} /\ CAM_DEPTH \in Nat \ {0} /\ DEPTH \in Nat \ {0}
      /\ SHARES_MOD \in Nat \ {0} /\ CHUNK \in Nat \ {0}
  BY PipelineAssumption
<1>2. DEPTH - 1 \in Nat
  BY <1>1
<1>3. Row(DEPTH - 1) \in Nat
  BY <1>1, <1>2, DivRange DEF Row
<1> QED BY <1>1, <1>2, <1>3 DEF Slots, CamIndices, Indices, Levels, Rows

(* Matches joined bit by bit make an index of the CAM.                     *)
LEMMA JoinedTypes ==
  ASSUME NEW set, set \subseteq CamIndices
  PROVE  Joined(set) \in CamIndices
<1> DEFINE bit(b) == IF \E i \in set : (i \div b) % 2 = 1 THEN b ELSE 0
<1>1. CAM_DEPTH \in {1, 2, 4, 8, 16, 32, 64}
  BY PipelineAssumption
<1>2. Joined(set) = bit(1) + bit(2) + bit(4) + bit(8) + bit(16) + bit(32)
  BY DEF Joined
<1>3. ASSUME NEW b \in {1, 2, 4, 8, 16, 32}
      PROVE  bit(b) \in {0, b} /\ (CAM_DEPTH <= b => bit(b) = 0)
  <2>1. bit(b) \in {0, b}
    OBVIOUS
  <2>2. ASSUME CAM_DEPTH <= b PROVE bit(b) = 0
    <3>1. b \in Nat \ {0} /\ CAM_DEPTH \in Nat \ {0}
      BY <1>1
    <3>2. set \subseteq 0 .. CAM_DEPTH - 1
      BY DEF CamIndices
    <3>3. ~\E i \in set : (i \div b) % 2 = 1
      BY <2>2, <3>1, <3>2, JoinedBit
    <3> QED BY <3>3
  <2> QED BY <2>1, <2>2
<1> HIDE DEF bit
<1>4. bit(1) \in {0, 1} /\ (CAM_DEPTH <= 1 => bit(1) = 0)
  BY <1>3
<1>5. bit(2) \in {0, 2} /\ (CAM_DEPTH <= 2 => bit(2) = 0)
  BY <1>3
<1>6. bit(4) \in {0, 4} /\ (CAM_DEPTH <= 4 => bit(4) = 0)
  BY <1>3
<1>7. bit(8) \in {0, 8} /\ (CAM_DEPTH <= 8 => bit(8) = 0)
  BY <1>3
<1>8. bit(16) \in {0, 16} /\ (CAM_DEPTH <= 16 => bit(16) = 0)
  BY <1>3
<1>9. bit(32) \in {0, 32} /\ (CAM_DEPTH <= 32 => bit(32) = 0)
  BY <1>3
<1>10. bit(1) + bit(2) + bit(4) + bit(8) + bit(16) + bit(32) \in 0 .. CAM_DEPTH - 1
  BY <1>1, <1>4, <1>5, <1>6, <1>7, <1>8, <1>9
<1> QED BY <1>2, <1>10 DEF CamIndices

LEMMA IdxInRange ==
  ASSUME NEW price \in Prices \cup {0}, base_price \in BasePrices
  PROVE  Idx(price) \in Indices
<1>1. price \in Nat /\ base_price \in Nat /\ DEPTH \in Nat \ {0}
  BY PipelineAssumption
<1>2. price - base_price \in Int
  BY <1>1
<1> QED BY <1>1, <1>2, ModRange DEF Idx, Indices

LEMMA RowInRange ==
  ASSUME NEW idx \in Indices
  PROVE  Row(idx) \in Rows
<1>1. idx \in Nat /\ DEPTH - 1 \in Nat /\ idx <= DEPTH - 1 /\ CHUNK \in Nat \ {0}
  BY Ranges, PipelineAssumption DEF Indices
<1>2. Row(idx) \in Nat /\ Row(DEPTH - 1) \in Nat
  BY <1>1, DivRange DEF Row
<1>3. Row(idx) <= Row(DEPTH - 1)
  BY <1>1, DivMonotonic DEF Row
<1> QED BY <1>2, <1>3 DEF Rows

(* The first index of a row is one.                                        *)
LEMMA RowStarts ==
  ASSUME NEW row \in Rows
  PROVE  row * CHUNK \in Indices
<1> DEFINE last == Row(DEPTH - 1)
<1>1. DEPTH - 1 \in Nat /\ CHUNK \in Nat \ {0} /\ last \in Nat /\ row \in Nat /\ row <= last
  BY Ranges, PipelineAssumption DEF Rows
<1>2. CHUNK * last <= DEPTH - 1
  BY <1>1, DivRange DEF Row
<1> HIDE DEF last
<1>3. CHUNK * row <= CHUNK * last
  BY <1>1, TimesMonotonic
<1>4. CHUNK * row \in Nat /\ CHUNK * last \in Nat /\ row * CHUNK = CHUNK * row
  BY <1>1
<1> QED BY <1>1, <1>2, <1>3, <1>4 DEF Indices

-----------------------------------------------------------------------------
(* A field of a token and where its value is.                              *)
Has(t, field, values) == field \in DOMAIN t /\ t[field] \in values
Lacks(t, fields)      == DOMAIN t \cap fields = {}

LEMMA WithHas ==
  ASSUME NEW t, NEW more, NEW field, NEW values
  PROVE  /\ Has(t, field, values) => Has(With(t, more), field, values)
         /\ field \notin DOMAIN t /\ Has(more, field, values)
              => Has(With(t, more), field, values)
         /\ field \in DOMAIN t => With(t, more)[field] = t[field]
         /\ field \notin DOMAIN t /\ field \in DOMAIN more
              => With(t, more)[field] = more[field]
         /\ DOMAIN With(t, more) = DOMAIN t \cup DOMAIN more
BY DEF Has, With

(* What was on the input.                                                  *)
EventFields(t) ==
  /\ Has(t, "op", {"ADD", "REDUCE", "DELETE"})
  /\ Has(t, "ref", Refs)
  /\ Has(t, "rep", {"NONE", "DEL", "ADD"})
  /\ t.op = "ADD" => Has(t, "price", Prices) /\ Has(t, "shares", 1 .. SHARES_MAX)
  /\ t.op = "ADD" /\ t.rep # "ADD" => Has(t, "side", Sides)
  /\ t.op = "REDUCE" => Has(t, "shares", Shares)
  /\ t.rep = "DEL" => t.op = "DELETE"

LEMMA WithEventFields ==
  ASSUME NEW t, EventFields(t), NEW more
  PROVE  EventFields(With(t, more))
<1>1. With(t, more).op = t.op /\ With(t, more).rep = t.rep
  BY DEF EventFields, Has, With
<1>2. \A field, values : Has(t, field, values) => Has(With(t, more), field, values)
  BY WithHas
<1> QED BY <1>1, <1>2, Zenon DEF EventFields

LEMMA UnderEventFields ==
  ASSUME NEW t, EventFields(t), NEW more,
         DOMAIN more \cap {"op", "ref", "rep", "price", "shares", "side"} = {}
  PROVE  EventFields(With(more, t))
<1>1. ASSUME NEW field \in {"op", "ref", "rep", "price", "shares", "side"}, NEW values,
             Has(t, field, values)
      PROVE  Has(With(more, t), field, values)
  BY <1>1, WithHas DEF Has
<1>2. With(more, t).op = t.op /\ With(more, t).rep = t.rep
  BY DEF EventFields, Has, With
<1> QED BY <1>1, <1>2, Zenon DEF EventFields

-----------------------------------------------------------------------------
(* What is looked up, stage by stage; a field is added once.               *)
FromIssue  == {"shares_read", "word_read", "book"}
FromEntry  == {"is_cam", "cam_idx", "entry", "tombstone"} \cup FromIssue
FromSearch == {"slot", "hash_match", "free_slot"} \cup FromEntry
FromLookup == {"idx", "cam_hit", "cam_match", "cam_free"} \cup FromSearch
FromRead   == {"bucket"} \cup FromLookup

Entered(t) == EventFields(t) /\ Lacks(t, FromRead)

BucketRead(t) ==
  EventFields(t) /\ Has(t, "bucket", Buckets) /\ Lacks(t, FromLookup)

LookedUp(t) ==
  /\ EventFields(t) /\ Has(t, "bucket", Buckets)
  /\ Has(t, "idx", Indices) /\ Has(t, "cam_hit", BOOLEAN)
  /\ Has(t, "cam_match", CamIndices) /\ Has(t, "cam_free", CamIndices)
  /\ Lacks(t, FromSearch)

Searched(t) ==
  /\ EventFields(t) /\ Has(t, "bucket", Buckets)
  /\ Has(t, "idx", Indices) /\ Has(t, "cam_hit", BOOLEAN)
  /\ Has(t, "cam_match", CamIndices) /\ Has(t, "cam_free", CamIndices)
  /\ Has(t, "slot", Slots) /\ Has(t, "hash_match", BOOLEAN) /\ Has(t, "free_slot", BOOLEAN)
  /\ t.op # "ADD" /\ t.hash_match => t.bucket[t.slot] \in Entry
  /\ t.op # "ADD" => t.hash_match \/ t.cam_hit
  /\ Lacks(t, FromEntry)

Found(t) ==
  /\ EventFields(t) /\ Has(t, "bucket", Buckets) /\ Has(t, "idx", Indices)
  /\ Has(t, "slot", Slots) /\ Has(t, "is_cam", BOOLEAN) /\ Has(t, "cam_idx", CamIndices)
  /\ t.op # "ADD" => Has(t, "entry", EntryData) /\ Has(t, "tombstone", BOOLEAN)

Placed(t) == Found(t) /\ Lacks(t, FromIssue)

Issued(t) ==
  /\ Found(t)
  /\ Has(t, "shares_read", [Sides -> Levels]) /\ Has(t, "word_read", [Sides -> Words])

Reading(t) == Issued(t) /\ Lacks(t, {"book"})

Captured(t) == Issued(t) /\ Has(t, "book", Nat)

Indexed(t) == Has(t, "idx", Indices)

(* The registers between the stages.                                       *)
CamWrites == [idx : CamIndices, data : CamEntries]
Updates ==
  [in_table : BOOLEAN, hash : Hashes, slot : Slots, entry : Entries, side : Sides,
   idx : Indices, shares : Levels]

StorageTypes ==
  /\ base_price \in BasePrices
  /\ table \in [Hashes -> Buckets]
  /\ cam \in [CamIndices -> CamEntries]
  /\ cam_q # NoWrite => cam_q \in CamWrites
  /\ level \in [Sides -> [Indices -> Levels]]
  /\ bits \in [Sides -> Words]
  /\ enc \in [Sides -> SUBSET Rows]
  /\ prev_cw # NoWrite => prev_cw.word \in Words
  /\ writes \in [1 .. 9 -> Updates \cup {NoWrite}]
  /\ rep_side \in Sides

-----------------------------------------------------------------------------
LEMMA ReadBucketTypes ==
  ASSUME StorageTypes, NEW t, Entered(t)
  PROVE  BucketRead(ReadBucket(t))
<1> DEFINE more == [bucket |-> table[Hash[t.ref]]]
<1>1. t.ref \in Refs
  BY DEF Entered, EventFields, Has
<1>2. table[Hash[t.ref]] \in Buckets
  BY <1>1 DEF StorageTypes, Hashes
<1>3. Has(more, "bucket", Buckets) /\ DOMAIN more = {"bucket"}
  BY <1>2 DEF Has
<1>4. "bucket" \notin DOMAIN t /\ DOMAIN t \cap FromLookup = {}
  BY DEF Entered, Lacks, FromRead
<1>5. "bucket" \notin FromLookup
  BY DEF FromLookup, FromSearch, FromEntry, FromIssue
<1> HIDE DEF more
<1>6. EventFields(With(t, more)) /\ Has(With(t, more), "bucket", Buckets)
  BY <1>3, <1>4, WithHas, WithEventFields DEF Entered
<1>7. DOMAIN With(t, more) = DOMAIN t \cup {"bucket"}
  BY <1>3, WithHas
<1>8. Lacks(With(t, more), FromLookup)
  BY <1>4, <1>5, <1>7 DEF Lacks
<1> QED BY <1>6, <1>8 DEF BucketRead, ReadBucket, more

LEMMA PatchedTypes ==
  ASSUME StorageTypes, NEW t, BucketRead(t)
  PROVE  Patched(t) \in Buckets
<1> SUFFICES ASSUME NEW slot \in Slots PROVE Patched(t)[slot] \in Entries
  BY DEF Patched, Buckets, Slots
<1> DEFINE hits == {k \in 1 .. 9 : /\ writes[k] # NoWrite
                                   /\ writes[k].in_table
                                   /\ writes[k].hash = Hash[t.ref]
                                   /\ writes[k].slot = slot}
<1>1. Patched(t)[slot] =
        IF hits = {} THEN t.bucket[slot] ELSE writes[Lowest(hits, 1)].entry
  BY DEF Patched, Slots
<1>2. CASE hits = {}
  <2>1. t.bucket \in Buckets
    BY DEF BucketRead, Has
  <2> QED BY <1>1, <1>2, <2>1 DEF Buckets
<1>3. CASE hits # {}
  <2>1. hits \subseteq 0 .. 9
    OBVIOUS
  <2>2. \A k \in hits : k \in 1 .. 9 /\ writes[k] # NoWrite
    OBVIOUS
  <2> HIDE DEF hits
  <2>3. Lowest(hits, 1) \in hits
    BY <1>3, <2>1, LowestOfSet
  <2>4. writes[Lowest(hits, 1)] \in Updates
    BY <2>2, <2>3 DEF StorageTypes
  <2>5. writes[Lowest(hits, 1)].entry \in Entries
    BY <2>4 DEF Updates
  <2> QED BY <1>1, <1>3, <2>5
<1> QED BY <1>2, <1>3

LEMMA LookupTypes ==
  ASSUME StorageTypes, NEW t, BucketRead(t)
  PROVE  LookedUp(Lookup(t))
<1> DEFINE patched == [t EXCEPT !.bucket = Patched(t)]
           more == [idx |-> IF t.op = "ADD" THEN Idx(t.price) ELSE 0,
                    cam_hit |-> CamMatches(t.ref) # {},
                    cam_match |-> Joined(CamMatches(t.ref)),
                    cam_free |-> Lowest(CamFree, 0)]
<1>1. EventFields(t) /\ Has(t, "bucket", Buckets) /\ Lacks(t, FromLookup)
  BY DEF BucketRead
<1>2. /\ DOMAIN patched = DOMAIN t
      /\ \A field \in DOMAIN t : field # "bucket" => patched[field] = t[field]
      /\ Has(patched, "bucket", Buckets)
  BY <1>1, PatchedTypes DEF Has
<1> HIDE DEF patched
<1>3. EventFields(patched)
  <2>1. patched.op = t.op /\ patched.rep = t.rep
    BY <1>1, <1>2 DEF EventFields, Has
  <2>2. \A field, values : field # "bucket" /\ Has(t, field, values) => Has(patched, field, values)
    BY <1>2 DEF Has
  <2> QED BY <1>1, <2>1, <2>2 DEF EventFields
<1>4. /\ Has(more, "idx", Indices) /\ Has(more, "cam_hit", BOOLEAN)
      /\ Has(more, "cam_match", CamIndices) /\ Has(more, "cam_free", CamIndices)
      /\ DOMAIN more = {"idx", "cam_hit", "cam_match", "cam_free"}
  <2>1. (IF t.op = "ADD" THEN Idx(t.price) ELSE 0) \in Indices
    <3>1. CASE t.op = "ADD"
      <4>1. t.price \in Prices /\ base_price \in BasePrices
        BY <1>1, <3>1 DEF EventFields, Has, StorageTypes
      <4> QED BY <3>1, <4>1, IdxInRange
    <3>2. CASE t.op # "ADD"
      BY <3>2, Ranges
    <3> QED BY <3>1, <3>2
  <2>2. Joined(CamMatches(t.ref)) \in CamIndices
    <3>1. CamMatches(t.ref) \subseteq CamIndices
      BY DEF CamMatches, CamIndices
    <3> QED BY <3>1, JoinedTypes
  <2>3. Lowest(CamFree, 0) \in CamIndices
    <3>1. CamFree \subseteq 0 .. CAM_DEPTH - 1
      BY DEF CamFree
    <3> QED BY <3>1, Ranges, LowestOfSet DEF CamIndices
  <2> QED BY <2>1, <2>2, <2>3 DEF Has
<1> HIDE DEF more
<1>5. DOMAIN patched \cap FromLookup = {}
  BY <1>1, <1>2 DEF Lacks
<1>6. {"idx", "cam_hit", "cam_match", "cam_free"} \cap DOMAIN patched = {}
      /\ DOMAIN patched \cap FromSearch = {}
  BY <1>5 DEF FromLookup
<1>7. DOMAIN With(patched, more) = DOMAIN patched \cup {"idx", "cam_hit", "cam_match", "cam_free"}
  BY <1>4, WithHas
<1>8. {"idx", "cam_hit", "cam_match", "cam_free"} \cap FromSearch = {}
  BY DEF FromSearch, FromEntry, FromIssue
<1>9. Lacks(With(patched, more), FromSearch)
  BY <1>6, <1>7, <1>8 DEF Lacks
<1>10. EventFields(With(patched, more)) /\ Has(With(patched, more), "bucket", Buckets)
  BY <1>2, <1>3, WithEventFields, WithHas
<1>11. /\ Has(With(patched, more), "idx", Indices)
       /\ Has(With(patched, more), "cam_hit", BOOLEAN)
       /\ Has(With(patched, more), "cam_match", CamIndices)
       /\ Has(With(patched, more), "cam_free", CamIndices)
  BY <1>4, <1>6, WithHas
<1> QED BY <1>9, <1>10, <1>11 DEF LookedUp, Lookup, patched, more

LEMMA SearchTypes ==
  ASSUME NEW t, LookedUp(t), Search(t) # Bubble
  PROVE  Searched(Search(t))
<1> DEFINE match == {slot \in 0 .. SLOTS - 1 : Holds(t.bucket[slot], t.ref)}
           free == {slot \in 0 .. SLOTS - 1 : t.bucket[slot] = NoEntry}
           chosen == Lowest(IF t.op = "ADD" THEN free ELSE match, 0)
           more == [slot |-> chosen, hash_match |-> match # {}, free_slot |-> free # {}]
           found == With(t, more)
<1>1. Search(t) = found /\ (t.op # "ADD" => match # {} \/ t.cam_hit)
  BY DEF Search
<1>2. t.bucket \in Buckets
  BY DEF LookedUp, Has
<1>3. match \subseteq 0 .. SLOTS - 1 /\ free \subseteq 0 .. SLOTS - 1
  OBVIOUS
<1>4. \A slot \in match : t.bucket[slot] \in Entry
  BY <1>2 DEF Holds, Buckets, Slots, Entries
<1> HIDE DEF match, free
<1>5. chosen \in Slots /\ (t.op # "ADD" /\ match # {} => chosen \in match)
  <2>1. CASE t.op = "ADD"
    BY <1>3, <2>1, Ranges, LowestOfSet DEF Slots
  <2>2. CASE t.op # "ADD"
    <3>1. chosen = Lowest(match, 0)
      BY <2>2
    <3>2. match = {} => chosen = 0
      BY <1>3, <3>1, Ranges, LowestOfSet
    <3>3. match # {} => chosen \in match
      BY <1>3, <3>1, Ranges, LowestOfSet
    <3> HIDE DEF chosen
    <3> QED BY <1>3, <3>2, <3>3, Ranges DEF Slots
  <2> QED BY <2>1, <2>2
<1> HIDE DEF chosen
<1>6. /\ Has(more, "slot", Slots) /\ Has(more, "hash_match", BOOLEAN)
      /\ Has(more, "free_slot", BOOLEAN)
      /\ DOMAIN more = {"slot", "hash_match", "free_slot"}
      /\ more.slot = chosen /\ more.hash_match = (match # {})
  BY <1>5 DEF Has
<1> HIDE DEF more
<1>7. {"slot", "hash_match", "free_slot"} \cap DOMAIN t = {} /\ DOMAIN t \cap FromEntry = {}
  BY DEF LookedUp, Lacks, FromSearch
<1>8. DOMAIN found = DOMAIN t \cup {"slot", "hash_match", "free_slot"}
  BY <1>6, WithHas
<1>9. {"slot", "hash_match", "free_slot"} \cap FromEntry = {}
  BY DEF FromEntry, FromIssue
<1>10. Lacks(found, FromEntry)
  BY <1>7, <1>8, <1>9 DEF Lacks
<1>11. /\ EventFields(found) /\ Has(found, "bucket", Buckets) /\ Has(found, "idx", Indices)
       /\ Has(found, "cam_hit", BOOLEAN) /\ Has(found, "cam_match", CamIndices) /\ Has(found, "cam_free", CamIndices)
  BY WithEventFields, WithHas DEF LookedUp
<1>12. /\ Has(found, "slot", Slots) /\ Has(found, "hash_match", BOOLEAN)
       /\ Has(found, "free_slot", BOOLEAN)
  BY <1>6, <1>7, WithHas
<1>13. found.slot = chosen /\ found.hash_match = (match # {})
       /\ found.op = t.op /\ found.bucket = t.bucket /\ found.cam_hit = t.cam_hit
  BY <1>6, <1>7 DEF LookedUp, EventFields, Has, With
<1>14. found.op # "ADD" /\ found.hash_match => found.bucket[found.slot] \in Entry
  BY <1>4, <1>5, <1>13
<1>15. found.op # "ADD" => found.hash_match \/ found.cam_hit
  BY <1>1, <1>13
<1> HIDE DEF found
<1> QED BY <1>1, <1>10, <1>11, <1>12, <1>14, <1>15 DEF Searched

LEMMA ReadEntryTypes ==
  ASSUME StorageTypes, NEW t, Searched(t)
  PROVE  Placed(ReadEntry(t))
<1> DEFINE hit == ~t.hash_match /\ t.cam_hit
           fields == {"is_cam", "cam_idx", "entry", "tombstone"}
<1>1. fields \cap DOMAIN t = {} /\ DOMAIN t \cap FromIssue = {} /\ fields \cap FromIssue = {}
  BY DEF Searched, Lacks, FromEntry, FromIssue
<1>2. /\ t.op \in {"ADD", "REDUCE", "DELETE"} /\ "op" \in DOMAIN t
      /\ EventFields(t)
      /\ Has(t, "bucket", Buckets) /\ Has(t, "idx", Indices) /\ Has(t, "slot", Slots)
  BY DEF Searched, EventFields, Has
<1>3. t.free_slot \in BOOLEAN /\ hit \in BOOLEAN
      /\ t.cam_free \in CamIndices /\ t.cam_match \in CamIndices
  BY DEF Searched, Has
<1>4. CASE t.op = "ADD"
  <2> DEFINE more == [is_cam |-> hit \/ ~t.free_slot, cam_idx |-> t.cam_free]
             placed == With(t, more)
  <2>1. ReadEntry(t) = placed
    BY <1>4 DEF ReadEntry
  <2>2. /\ Has(more, "is_cam", BOOLEAN) /\ Has(more, "cam_idx", CamIndices)
        /\ DOMAIN more = {"is_cam", "cam_idx"}
    BY <1>3 DEF Has
  <2> HIDE DEF more
  <2>3. Has(placed, "is_cam", BOOLEAN) /\ Has(placed, "cam_idx", CamIndices)
    BY <1>1, <2>2, WithHas
  <2>4. /\ placed.op = "ADD" /\ EventFields(placed)
        /\ Has(placed, "bucket", Buckets) /\ Has(placed, "idx", Indices)
        /\ Has(placed, "slot", Slots)
    BY <1>2, <1>4, WithEventFields, WithHas
  <2>5. DOMAIN placed = DOMAIN t \cup {"is_cam", "cam_idx"}
    BY <2>2, WithHas
  <2> HIDE DEF placed
  <2>6. Lacks(placed, FromIssue)
    BY <1>1, <2>5 DEF Lacks
  <2> QED BY <2>1, <2>3, <2>4, <2>6 DEF Placed, Found
<1>5. CASE t.op # "ADD"
  <2> DEFINE found == IF hit THEN cam[t.cam_match]
                      ELSE [entry |-> t.bucket[t.slot], tombstone |-> FALSE]
             more == [is_cam |-> hit, cam_idx |-> t.cam_match]
             looked == With(t, more)
             placed == With(looked, found)
  <2>1. ReadEntry(t) = placed
    BY <1>5 DEF ReadEntry
  <2>2. /\ Has(found, "entry", EntryData) /\ Has(found, "tombstone", BOOLEAN)
        /\ DOMAIN found = {"entry", "tombstone"}
    <3>1. CASE hit
      <4>1. cam[t.cam_match] \in CamEntries
        BY <1>3 DEF StorageTypes
      <4> QED BY <3>1, <4>1 DEF CamEntries, Has
    <3>2. CASE ~hit
      <4>1. t.bucket[t.slot] \in EntryData
        BY <1>5, <3>2 DEF Searched, EntryData
      <4> QED BY <3>2, <4>1 DEF Has
    <3> QED BY <3>1, <3>2
  <2>3. /\ Has(more, "is_cam", BOOLEAN) /\ Has(more, "cam_idx", CamIndices)
        /\ DOMAIN more = {"is_cam", "cam_idx"}
    BY <1>3 DEF Has
  <2> HIDE DEF found, more
  <2>4. /\ Has(looked, "is_cam", BOOLEAN) /\ Has(looked, "cam_idx", CamIndices)
        /\ EventFields(looked)
        /\ Has(looked, "bucket", Buckets) /\ Has(looked, "idx", Indices)
        /\ Has(looked, "slot", Slots)
    BY <1>1, <1>2, <2>3, WithEventFields, WithHas
  <2>5. DOMAIN looked = DOMAIN t \cup {"is_cam", "cam_idx"}
    BY <2>3, WithHas
  <2> HIDE DEF looked
  <2>6. "entry" \notin DOMAIN looked /\ "tombstone" \notin DOMAIN looked
    BY <1>1, <2>5
  <2>7. Has(placed, "entry", EntryData) /\ Has(placed, "tombstone", BOOLEAN)
    BY <2>2, <2>6, WithHas
  <2>8. /\ EventFields(placed)
        /\ Has(placed, "bucket", Buckets) /\ Has(placed, "idx", Indices)
        /\ Has(placed, "slot", Slots)
        /\ Has(placed, "is_cam", BOOLEAN) /\ Has(placed, "cam_idx", CamIndices)
    BY <2>4, WithEventFields, WithHas
  <2>9. DOMAIN placed = DOMAIN t \cup fields
    <3>1. DOMAIN placed = DOMAIN looked \cup DOMAIN found
      BY DEF With
    <3>2. DOMAIN found = {"entry", "tombstone"}
      BY <2>2
    <3> HIDE DEF placed
    <3> QED BY <2>5, <3>1, <3>2
  <2> HIDE DEF placed
  <2>10. Lacks(placed, FromIssue)
    BY <1>1, <2>9 DEF Lacks
  <2> QED BY <2>1, <2>7, <2>8, <2>10 DEF Placed, Found
<1> QED BY <1>4, <1>5

LEMMA SharesAreNumbers ==
  /\ Shares \subseteq Nat /\ 1 .. SHARES_MAX \subseteq Nat
  /\ \A entry \in Entry : entry.shares \in 1 .. SHARES_MAX /\ entry.shares \in Nat
BY LimitOrdersAssumption DEF Shares, Entry

(* What is read of the CAM can be worked with, be it an order or not.      *)
LEMMA DataFields ==
  ASSUME NEW data \in EntryData
  PROVE  data.side \in Sides /\ data.price \in Prices \cup {0} /\ data.shares \in Nat
<1>1. CASE data \in Entry
  BY <1>1, SharesAreNumbers DEF Entry
<1>2. CASE data = Blank
  BY <1>2 DEF Blank, Sides
<1> QED BY <1>1, <1>2 DEF EntryData

LEMMA WordTypes ==
  ASSUME StorageTypes, NEW side \in Sides, NEW row
  PROVE  Word(side, row) \in Words
BY DEF Word, Words, StorageTypes

LEMMA IssueReadTypes ==
  ASSUME StorageTypes, NEW t, Placed(t)
  PROVE  Reading(IssueRead(t))
<1> DEFINE idx == IF t.op = "ADD" THEN t.idx ELSE Idx(t.entry.price)
           more == [idx |-> idx,
                    shares_read |-> [side \in Sides |-> level[side][idx]],
                    word_read |-> [side \in Sides |-> Word(side, Row(idx))]]
           issued == With(more, t)
<1>1. Found(t) /\ DOMAIN t \cap FromIssue = {}
  BY DEF Placed, Lacks
<1>2. idx \in Indices
  <2>1. CASE t.op = "ADD"
    BY <1>1, <2>1 DEF Found, Has
  <2>2. CASE t.op # "ADD"
    <3>1. t.entry.price \in Prices \cup {0} /\ base_price \in BasePrices
      BY <1>1, <2>2, DataFields DEF Found, Has, StorageTypes
    <3> QED BY <2>2, <3>1, IdxInRange
  <2> QED BY <2>1, <2>2
<1>3. issued = IssueRead(t)
  BY DEF IssueRead
<1> HIDE DEF idx
<1>4. [side \in Sides |-> level[side][idx]] \in [Sides -> Levels]
  BY <1>2 DEF StorageTypes
<1>5. [side \in Sides |-> Word(side, Row(idx))] \in [Sides -> Words]
  BY WordTypes
<1>6. /\ Has(more, "idx", Indices) /\ Has(more, "shares_read", [Sides -> Levels])
      /\ Has(more, "word_read", [Sides -> Words])
      /\ DOMAIN more = {"idx", "shares_read", "word_read"}
  BY <1>2, <1>4, <1>5 DEF Has
<1> HIDE DEF more
<1>7. /\ Has(issued, "idx", Indices) /\ Has(issued, "shares_read", [Sides -> Levels])
      /\ Has(issued, "word_read", [Sides -> Words])
      /\ DOMAIN issued = DOMAIN t \cup {"idx", "shares_read", "word_read"}
  BY <1>6, WithHas
<1>8. EventFields(issued)
  BY <1>1, <1>6, UnderEventFields DEF Found
<1>9. ASSUME NEW field \in {"bucket", "slot", "is_cam", "cam_idx", "entry", "tombstone"}, NEW values,
             Has(t, field, values)
      PROVE  Has(issued, field, values)
  BY <1>6, <1>9, WithHas DEF Has
<1>10. issued.op = t.op
  BY <1>1, <1>6 DEF Found, EventFields, Has, With
<1>11. Lacks(issued, {"book"})
  BY <1>1, <1>7 DEF Lacks, FromIssue
<1> HIDE DEF issued
<1>12. Found(issued)
  BY <1>1, <1>7, <1>8, <1>9, <1>10 DEF Found
<1> QED BY <1>3, <1>7, <1>11, <1>12 DEF Reading, Issued

-----------------------------------------------------------------------------
(* What stage 9 computes.                                                  *)
LEMMA TokenSideTypes ==
  ASSUME rep_side \in Sides, NEW t, Found(t)
  PROVE  TokenSide(t) \in Sides
<1>1. CASE t.op # "ADD"
  <2>1. t.entry.side \in Sides
    BY <1>1, DataFields DEF Found, Has
  <2> QED BY <1>1, <2>1 DEF TokenSide
<1>2. CASE t.op = "ADD" /\ t.rep = "ADD"
  BY <1>2 DEF TokenSide
<1>3. CASE t.op = "ADD" /\ t.rep # "ADD"
  <2>1. t.side \in Sides
    BY <1>3 DEF Found, EventFields, Has
  <2> QED BY <1>3, <2>1 DEF TokenSide
<1> QED BY <1>1, <1>2, <1>3

LEMMA NewLevelTypes ==
  ASSUME NEW t, Captured(t)
  PROVE  NewLevel(t) \in Levels
<1>1. t.book \in Nat /\ SHARES_MOD \in Nat \ {0}
  BY PipelineAssumption DEF Captured, Has
<1> DEFINE raw == CASE t.op = "ADD"    -> t.book + t.shares
                    [] t.op = "DELETE" -> t.book - t.entry.shares
                    [] t.op = "REDUCE" -> t.book - t.shares
<1>2. raw \in Int
  <2>1. t.op \in {"ADD", "REDUCE", "DELETE"}
    BY DEF Captured, Issued, Found, EventFields, Has
  <2>2. CASE t.op = "ADD"
    <3>1. t.shares \in Nat
      BY <2>2, SharesAreNumbers DEF Captured, Issued, Found, EventFields, Has
    <3> QED BY <1>1, <2>2, <3>1
  <2>3. CASE t.op = "DELETE"
    <3>1. t.entry.shares \in Nat
      BY <2>3, DataFields DEF Captured, Issued, Found, Has
    <3> QED BY <1>1, <2>3, <3>1
  <2>4. CASE t.op = "REDUCE"
    <3>1. t.shares \in Nat
      BY <2>4, SharesAreNumbers DEF Captured, Issued, Found, EventFields, Has
    <3> QED BY <1>1, <2>4, <3>1
  <2> QED BY <2>1, <2>2, <2>3, <2>4
<1>3. NewLevel(t) = raw % SHARES_MOD
  BY DEF NewLevel
<1> HIDE DEF raw
<1> QED BY <1>1, <1>2, <1>3, ModRange DEF Levels

LEMMA NewEntryTypes ==
  ASSUME rep_side \in Sides, NEW t, Captured(t)
  PROVE  NewEntry(t) \in Entries
<1>1. Found(t) /\ t.ref \in Refs /\ TokenSide(t) \in Sides
  BY TokenSideTypes DEF Captured, Issued, Found, EventFields, Has
<1>2. CASE t.op = "ADD"
  <2>1. t.price \in Prices /\ t.shares \in 1 .. SHARES_MAX
    BY <1>1, <1>2 DEF Found, EventFields, Has
  <2>2. NewEntry(t) = [ref |-> t.ref, side |-> TokenSide(t), price |-> t.price,
                       shares |-> t.shares]
    BY <1>2 DEF NewEntry
  <2> QED BY <1>1, <2>1, <2>2 DEF Entries, Entry
<1>3. CASE t.op = "REDUCE" /\ t.shares < t.entry.shares
  <2>1. t.entry \in Entry /\ t.shares \in Nat
    <3>1. t.entry \in EntryData /\ t.shares \in Nat
      BY <1>1, <1>3, SharesAreNumbers DEF Found, EventFields, Has
    <3>2. t.entry # Blank
      BY <1>3, <3>1 DEF Blank
    <3> QED BY <3>1, <3>2 DEF EntryData
  <2>2. t.entry.shares \in 1 .. SHARES_MAX /\ SHARES_MAX \in Nat
    BY <2>1, SharesAreNumbers, LimitOrdersAssumption
  <2>3. t.entry.shares - t.shares \in 1 .. SHARES_MAX
    BY <1>3, <2>1, <2>2
  <2>4. NewEntry(t) = [t.entry EXCEPT !.shares = t.entry.shares - t.shares]
    BY <1>3, <2>1 DEF NewEntry
  <2>5. NewEntry(t) \in Entry
    BY <2>1, <2>3, <2>4 DEF Entry
  <2> QED BY <2>5 DEF Entries
<1>4. CASE t.op # "ADD" /\ ~(t.op = "REDUCE" /\ t.shares < t.entry.shares)
  BY <1>4 DEF NewEntry, Entries
<1> QED BY <1>2, <1>3, <1>4

(* What is written to the CAM is an order or lies behind a tombstone.      *)
LEMMA CamDataTypes ==
  ASSUME rep_side \in Sides, NEW t, Captured(t)
  PROVE  CamData(t) \in CamEntries
<1>1. Found(t) /\ NewEntry(t) \in Entries
  BY NewEntryTypes DEF Captured, Issued
<1>2. CASE NewEntry(t) = NoEntry
  <2>1. t.op # "ADD"
    <3> SUFFICES ASSUME t.op = "ADD" PROVE FALSE
      OBVIOUS
    <3>1. NewEntry(t) \in Entry
      <4>1. t.price \in Prices /\ t.shares \in 1 .. SHARES_MAX /\ t.ref \in Refs
            /\ TokenSide(t) \in Sides
        BY <1>1, TokenSideTypes DEF Found, EventFields, Has
      <4>2. NewEntry(t) = [ref |-> t.ref, side |-> TokenSide(t), price |-> t.price,
                           shares |-> t.shares]
        BY DEF NewEntry
      <4> QED BY <4>1, <4>2 DEF Entry
    <3> QED BY <1>2, <3>1, PipelineAssumption
  <2>2. t.entry \in EntryData
    BY <1>1, <2>1 DEF Found, Has
  <2>3. CamData(t) = [entry |-> t.entry, tombstone |-> TRUE]
    BY <1>2 DEF CamData
  <2> QED BY <2>2, <2>3 DEF CamEntries
<1>3. CASE NewEntry(t) # NoEntry
  <2> DEFINE ended == t.op # "ADD" /\ t.tombstone
  <2>1. NewEntry(t) \in Entry
    BY <1>1, <1>3 DEF Entries
  <2>2. ended \in BOOLEAN
    BY Zenon
  <2>3. CamData(t) = [entry |-> NewEntry(t), tombstone |-> ended]
    BY <1>3 DEF CamData
  <2> HIDE DEF ended
  <2> QED BY <2>1, <2>2, <2>3 DEF CamEntries, EntryData
<1> QED BY <1>2, <1>3

LEMMA CaptureLevelTypes ==
  ASSUME StorageTypes, NEW t, Reading(t), stage[9] # Bubble => Captured(stage[9])
  PROVE  Captured(CaptureLevel(t))
<1> DEFINE side == TokenSide(t)
           hits == {k \in 1 .. 5 : /\ writes[k] # NoWrite
                                   /\ writes[k].side = side
                                   /\ writes[k].idx = t.idx}
           next == stage[9]
           book == IF next # Bubble /\ TokenSide(next) = side /\ next.idx = t.idx
                   THEN NewLevel(next)
                   ELSE IF hits # {} THEN writes[Lowest(hits, 1)].shares
                   ELSE t.shares_read[side]
           more == [book |-> book]
<1>1. CaptureLevel(t) = With(t, more)
  BY DEF CaptureLevel
<1>2. Levels \subseteq Nat
  BY Ranges
<1>3. next # Bubble => NewLevel(next) \in Nat
  BY <1>2, NewLevelTypes
<1>4. t.shares_read[side] \in Nat
  <2>1. side \in Sides
    BY TokenSideTypes DEF StorageTypes, Reading, Issued
  <2>2. t.shares_read \in [Sides -> Levels]
    BY DEF Reading, Issued, Has
  <2> QED BY <1>2, <2>1, <2>2
<1>5. hits # {} => writes[Lowest(hits, 1)].shares \in Nat
  <2>1. hits \subseteq 0 .. 5 /\ \A k \in hits : k \in 1 .. 9 /\ writes[k] # NoWrite
    OBVIOUS
  <2> HIDE DEF hits
  <2>2. hits # {} => Lowest(hits, 1) \in hits
    BY <2>1, LowestOfSet
  <2>3. hits # {} => writes[Lowest(hits, 1)] \in Updates
    BY <2>1, <2>2 DEF StorageTypes
  <2> QED BY <1>2, <2>3 DEF Updates
<1> HIDE DEF hits, side, next
<1>6. book \in Nat
  BY <1>3, <1>4, <1>5
<1>7. Has(more, "book", Nat)
  BY <1>6 DEF Has
<1> HIDE DEF more
<1>8. Has(With(t, more), "book", Nat)
  BY <1>7, WithHas DEF Reading, Lacks
<1>9. \A field, values : Has(t, field, values) => Has(With(t, more), field, values)
  BY WithHas
<1>10. EventFields(With(t, more)) /\ With(t, more).op = t.op
  <2>1. EventFields(t)
    BY DEF Reading, Issued, Found
  <2>2. With(t, more).op = t.op
    BY <2>1 DEF EventFields, Has, With
  <2> QED BY <2>1, <2>2, WithEventFields
<1>11. Found(With(t, more))
  BY <1>9, <1>10, Zenon DEF Reading, Issued, Found
<1>12. Issued(With(t, more))
  BY <1>9, <1>11 DEF Reading, Issued
<1> QED BY <1>1, <1>8, <1>12 DEF Captured

LEMMA WithSideTypes ==
  ASSUME NEW t, Captured(t)
  PROVE  Indexed(WithSide(t))
<1>1. Has(t, "idx", Indices)
  BY DEF Captured, Issued, Found
<1>2. DOMAIN [side |-> TokenSide(t)] = {"side"}
  OBVIOUS
<1>3. Has(With([side |-> TokenSide(t)], t), "idx", Indices)
  BY <1>1, <1>2, WithHas DEF Has
<1> QED BY <1>1, <1>3 DEF WithSide, Indexed

-----------------------------------------------------------------------------
(* A shift register takes one in and drops the last.                       *)
LEMMA ShiftTypes ==
  ASSUME NEW n \in Nat \ {0}, NEW S, NEW row \in [1 .. n -> S], NEW x \in S
  PROVE  <<x>> \o SubSeq(row, 1, n - 1) \in [1 .. n -> S]
<1> DEFINE one == <<x>>
           kept == SubSeq(row, 1, n - 1)
           both == one \o kept
<1>1. one \in Seq(S) /\ Len(one) = 1
  OBVIOUS
<1>2. row \in Seq(S) /\ Len(row) = n
  OBVIOUS
<1>3. kept \in Seq(S) /\ Len(kept) = n - 1
  <2>1. \A i \in 1 .. n - 1 : row[i] \in S
    OBVIOUS
  <2>2. /\ kept \in Seq(S)
        /\ Len(kept) = IF 1 <= n - 1 THEN n - 1 - 1 + 1 ELSE 0
    BY <2>1, SubSeqProperties
  <2> HIDE DEF kept
  <2>3. CASE 1 <= n - 1
    BY <2>2, <2>3
  <2>4. CASE ~(1 <= n - 1)
    BY <2>2, <2>4
  <2> QED BY <2>2, <2>3, <2>4
<1> HIDE DEF one, kept
<1>4. both \in Seq(S) /\ Len(both) = Len(one) + Len(kept)
  BY <1>1, <1>3, ConcatProperties
<1> HIDE DEF both
<1>5. Len(both) = n
  BY <1>1, <1>3, <1>4
<1>6. both \in [1 .. n -> S]
  BY <1>4, <1>5
<1> QED BY <1>6 DEF both, one, kept

-----------------------------------------------------------------------------
TokenTypes ==
  /\ stage[1] # Bubble => Entered(stage[1])
  /\ stage[2] # Bubble => BucketRead(stage[2])
  /\ stage[3] # Bubble => LookedUp(stage[3])
  /\ stage[4] # Bubble => Searched(stage[4])
  /\ stage[5] # Bubble => Placed(stage[5])
  /\ stage[6] # Bubble => Reading(stage[6])
  /\ stage[7] # Bubble => Reading(stage[7])
  /\ stage[8] # Bubble => Reading(stage[8])
  /\ stage[9] # Bubble => Captured(stage[9])
  /\ stage[10] # Bubble => Indexed(stage[10])
  /\ DOMAIN stage = 1 .. 10

EvaluatedTypes(e) ==
  /\ e.best \in [Sides -> Indices]
  /\ e.search_side \in Sides
  /\ e.row \in Rows
  /\ e.word \in Words

BestTypes ==
  /\ best \in [Sides -> Indices]
  /\ eval # Bubble => EvaluatedTypes(eval)
  /\ {stall, stall_q} \subseteq BOOLEAN

LEMMA TokensMove ==
  ASSUME StorageTypes, TokenTypes, NEW x, MovePipe(x),
         ~stall /\ x # Bubble => Entered(x)
  PROVE  TokenTypes'
<1>1. CASE stall
  <2>1. stage' = stage
    BY <1>1 DEF MovePipe
  <2> QED BY <2>1 DEF TokenTypes
<1>2. CASE ~stall
  <2>1. /\ stage'[1] = x
        /\ stage'[2] = Through(ReadBucket, stage[1])
        /\ stage'[3] = Through(Lookup, stage[2])
        /\ stage'[4] = Through(Search, stage[3])
        /\ stage'[5] = Through(ReadEntry, stage[4])
        /\ stage'[6] = Through(IssueRead, stage[5])
        /\ stage'[7] = stage[6]
        /\ stage'[8] = stage[7]
        /\ stage'[9] = Through(CaptureLevel, stage[8])
        /\ stage'[10] = Through(WithSide, stage[9])
        /\ DOMAIN stage' = 1 .. 10
    BY <1>2 DEF MovePipe
  <2>2. stage'[1] # Bubble => Entered(stage'[1])
    BY <1>2, <2>1
  <2>3. stage'[2] # Bubble => BucketRead(stage'[2])
    BY <2>1, ReadBucketTypes DEF Through, TokenTypes
  <2>4. stage'[3] # Bubble => LookedUp(stage'[3])
    BY <2>1, LookupTypes DEF Through, TokenTypes
  <2>5. stage'[4] # Bubble => Searched(stage'[4])
    BY <2>1, SearchTypes DEF Through, TokenTypes
  <2>6. stage'[5] # Bubble => Placed(stage'[5])
    BY <2>1, ReadEntryTypes DEF Through, TokenTypes
  <2>7. stage'[6] # Bubble => Reading(stage'[6])
    BY <2>1, IssueReadTypes DEF Through, TokenTypes
  <2>8. stage'[9] # Bubble => Captured(stage'[9])
    BY <2>1, CaptureLevelTypes DEF Through, TokenTypes
  <2>9. stage'[10] # Bubble => Indexed(stage'[10])
    BY <2>1, WithSideTypes DEF Through, TokenTypes
  <2>10. /\ stage'[7] # Bubble => Reading(stage'[7])
         /\ stage'[8] # Bubble => Reading(stage'[8])
    BY <2>1 DEF TokenTypes
  <2> QED BY <2>1, <2>2, <2>3, <2>4, <2>5, <2>6, <2>7, <2>8, <2>9, <2>10 DEF TokenTypes
<1> QED BY <1>1, <1>2

(* The fields stage 9 writes with.                                         *)
LEMMA WriterTypes ==
  ASSUME StorageTypes, TokenTypes, stage[9] # Bubble
  PROVE  LET t == stage[9] IN
         /\ t.ref \in Refs /\ Hash[t.ref] \in Hashes
         /\ t.slot \in Slots /\ t.idx \in Indices
         /\ t.is_cam \in BOOLEAN /\ t.cam_idx \in CamIndices
         /\ t.bucket \in Buckets /\ t.word_read \in [Sides -> Words]
         /\ TokenSide(t) \in Sides /\ NewLevel(t) \in Levels /\ NewEntry(t) \in Entries
         /\ CamData(t) \in CamEntries
<1> DEFINE t == stage[9]
<1>1. Captured(t) /\ Found(t)
  BY DEF TokenTypes, Captured, Issued
<1>2. t.ref \in Refs /\ Hash[t.ref] \in Hashes
  BY <1>1 DEF Found, EventFields, Has, Hashes
<1>3. /\ t.slot \in Slots /\ t.idx \in Indices
      /\ t.is_cam \in BOOLEAN /\ t.cam_idx \in CamIndices
      /\ t.bucket \in Buckets
  BY <1>1 DEF Found, Has
<1>4. t.word_read \in [Sides -> Words]
  BY <1>1 DEF Captured, Issued, Has
<1>5. TokenSide(t) \in Sides /\ NewLevel(t) \in Levels /\ NewEntry(t) \in Entries
      /\ CamData(t) \in CamEntries
  BY <1>1, TokenSideTypes, NewLevelTypes, NewEntryTypes, CamDataTypes DEF StorageTypes
<1> QED BY <1>2, <1>3, <1>4, <1>5

LEMMA StoresKeepTypes ==
  ASSUME StorageTypes, TokenTypes, WriteStores
  PROVE  /\ (table \in [Hashes -> Buckets])'
         /\ (cam \in [CamIndices -> CamEntries])'
         /\ (cam_q # NoWrite => cam_q \in CamWrites)'
         /\ (level \in [Sides -> [Indices -> Levels]])'
<1> DEFINE t == stage[9]
           live == t # Bubble /\ ~stall
<1>1. table' \in [Hashes -> Buckets]
  <2>1. table' = IF live /\ ~t.is_cam THEN [table EXCEPT ![Hash[t.ref]] = BucketOut(t)] ELSE table
    BY DEF WriteStores
  <2>2. ASSUME t # Bubble PROVE BucketOut(t) \in Buckets
    <3> DEFINE ahead == writes[1]
               kept == IF ahead # NoWrite /\ ahead.in_table /\ ahead.hash = Hash[t.ref]
                       THEN [t.bucket EXCEPT ![ahead.slot] = ahead.entry]
                       ELSE t.bucket
    <3>1. t.bucket \in Buckets /\ NewEntry(t) \in Entries
      BY <2>2, WriterTypes
    <3>2. ahead # NoWrite => ahead.slot \in Slots /\ ahead.entry \in Entries
      <4>1. ahead # NoWrite => ahead \in Updates
        BY DEF StorageTypes
      <4> QED BY <4>1 DEF Updates
    <3>3. BucketOut(t) = [kept EXCEPT ![t.slot] = NewEntry(t)]
      BY DEF BucketOut
    <3> HIDE DEF t, ahead
    <3>4. kept \in Buckets
      <4>1. CASE ahead # NoWrite /\ ahead.in_table /\ ahead.hash = Hash[t.ref]
        BY <3>1, <3>2, <4>1 DEF Buckets
      <4>2. CASE ~(ahead # NoWrite /\ ahead.in_table /\ ahead.hash = Hash[t.ref])
        BY <3>1, <4>2
      <4> QED BY <4>1, <4>2
    <3> HIDE DEF kept
    <3> QED BY <3>1, <3>3, <3>4 DEF Buckets
  <2>3. CASE live /\ ~t.is_cam
    <3>1. BucketOut(t) \in Buckets
      BY <2>2, <2>3
    <3>2. table' = [table EXCEPT ![Hash[t.ref]] = BucketOut(t)]
      BY <2>1, <2>3
    <3> QED BY <3>1, <3>2 DEF StorageTypes
  <2>4. CASE ~(live /\ ~t.is_cam)
    BY <2>1, <2>4 DEF StorageTypes
  <2> QED BY <2>3, <2>4
<1>2. cam' \in [CamIndices -> CamEntries]
  <2>1. CASE cam_q = NoWrite
    BY <2>1 DEF WriteStores, StorageTypes
  <2>2. CASE cam_q # NoWrite
    <3>1. cam_q.data \in CamEntries
      BY <2>2 DEF StorageTypes, CamWrites
    <3>2. cam' = [cam EXCEPT ![cam_q.idx] = cam_q.data]
      BY <2>2 DEF WriteStores
    <3> QED BY <3>1, <3>2 DEF StorageTypes
  <2> QED BY <2>1, <2>2
<1>3. cam_q' # NoWrite => cam_q' \in CamWrites
  <2>1. CASE t # Bubble /\ t.is_cam
    <3>1. t.cam_idx \in CamIndices /\ CamData(t) \in CamEntries
      BY <2>1, WriterTypes
    <3>2. cam_q' = [idx |-> t.cam_idx, data |-> CamData(t)]
      BY <2>1 DEF WriteStores
    <3> QED BY <3>1, <3>2 DEF CamWrites
  <2>2. CASE ~(t # Bubble /\ t.is_cam)
    <3>1. cam_q' = NoWrite
      BY <2>2 DEF WriteStores
    <3> QED BY <3>1
  <2> QED BY <2>1, <2>2
<1>4. level' \in [Sides -> [Indices -> Levels]]
  <2>1. CASE live
    <3>1. NewLevel(t) \in Levels
      BY <2>1, WriterTypes
    <3>2. level' = [level EXCEPT ![TokenSide(t)][t.idx] = NewLevel(t)]
      BY <2>1 DEF WriteStores
    <3> HIDE DEF t
    <3> QED BY <3>1, <3>2 DEF StorageTypes
  <2>2. CASE ~live
    <3>1. level' = level
      BY <2>2 DEF WriteStores
    <3> QED BY <3>1 DEF StorageTypes
  <2> QED BY <2>1, <2>2
<1> QED BY <1>1, <1>2, <1>3, <1>4

LEMMA OccupancyKeepsTypes ==
  ASSUME StorageTypes, TokenTypes, WriteOccupancy
  PROVE  /\ (bits \in [Sides -> Words])'
         /\ (enc \in [Sides -> SUBSET Rows])'
         /\ (prev_cw # NoWrite => prev_cw.word \in Words)'
<1> DEFINE t == stage[9]
           side == TokenSide(t)
           row == Row(t.idx)
<1>1. CASE WritesWord(t)
  <2>1. /\ bits' = [bits EXCEPT ![side] = (@ \ Word(side, row)) \cup NewWord(t)]
        /\ prev_cw' = [side |-> side, row |-> row, word |-> NewWord(t)]
        /\ enc' = [enc EXCEPT ![side] =
             IF t.op = "ADD" THEN @ \cup {row}
             ELSE IF EffWord(t) = {t.idx} THEN @ \ {row} ELSE @]
    BY <1>1 DEF WriteOccupancy
  <2>2. t # Bubble
    BY <1>1 DEF WritesWord
  <2>3. side \in Sides /\ t.idx \in Indices /\ t.word_read \in [Sides -> Words]
    BY <2>2, WriterTypes
  <2>4. row \in Rows
    BY <2>3, RowInRange
  <2>5. EffWord(t) \in Words
    <3>1. t.word_read[side] \in Words
      BY <2>3
    <3> QED BY <3>1 DEF EffWord, StorageTypes
  <2>6. NewWord(t) \in Words
    BY <2>3, <2>5 DEF NewWord, Words
  <2> HIDE DEF t, side, row
  <2>7. bits' \in [Sides -> Words]
    <3>1. (bits[side] \ Word(side, row)) \cup NewWord(t) \in Words
      BY <2>3, <2>6 DEF StorageTypes, Words
    <3>2. bits' = [bits EXCEPT ![side] = (bits[side] \ Word(side, row)) \cup NewWord(t)]
      BY <2>1
    <3> QED BY <3>1, <3>2 DEF StorageTypes
  <2>8. enc' \in [Sides -> SUBSET Rows]
    <3> DEFINE rows == IF t.op = "ADD" THEN enc[side] \cup {row}
                       ELSE IF EffWord(t) = {t.idx} THEN enc[side] \ {row} ELSE enc[side]
    <3>1. rows \in SUBSET Rows
      BY <2>3, <2>4 DEF StorageTypes
    <3>2. enc' = [enc EXCEPT ![side] = rows]
      BY <2>1
    <3> HIDE DEF rows
    <3> QED BY <3>1, <3>2 DEF StorageTypes
  <2>9. prev_cw'.word = NewWord(t)
    BY <2>1
  <2> QED BY <2>6, <2>7, <2>8, <2>9
<1>2. CASE ~WritesWord(t)
  BY <1>2 DEF WriteOccupancy, StorageTypes
<1> QED BY <1>1, <1>2

LEMMA RecordKeepsTypes ==
  ASSUME StorageTypes, TokenTypes, RecordWrite
  PROVE  writes' \in [1 .. 9 -> Updates \cup {NoWrite}]
<1> DEFINE t == stage[9]
           record == IF t = Bubble THEN NoWrite
                     ELSE [in_table |-> ~t.is_cam, hash |-> Hash[t.ref], slot |-> t.slot,
                           entry |-> NewEntry(t), side |-> TokenSide(t),
                           idx |-> t.idx, shares |-> NewLevel(t)]
           S == Updates \cup {NoWrite}
<1>1. writes' = IF stall THEN writes ELSE <<record>> \o SubSeq(writes, 1, 8)
  BY DEF RecordWrite
<1>2. record \in S
  <2>1. CASE t = Bubble
    BY <2>1
  <2>2. CASE t # Bubble
    <3>1. /\ Hash[t.ref] \in Hashes /\ t.slot \in Slots /\ t.idx \in Indices
          /\ TokenSide(t) \in Sides /\ NewLevel(t) \in Levels /\ NewEntry(t) \in Entries
          /\ (~t.is_cam) \in BOOLEAN
      BY <2>2, WriterTypes
    <3> HIDE DEF t
    <3> QED BY <2>2, <3>1 DEF Updates
  <2> QED BY <2>1, <2>2
<1>3. writes \in [1 .. 9 -> S]
  BY DEF StorageTypes
<1> HIDE DEF record, S
<1>4. <<record>> \o SubSeq(writes, 1, 8) \in [1 .. 9 -> S]
  <2>1. \A n \in Nat \ {0} : \A row \in [1 .. n -> S] :
          <<record>> \o SubSeq(row, 1, n - 1) \in [1 .. n -> S]
    BY <1>2, ShiftTypes
  <2>2. PICK n \in Nat \ {0} : n = 9
    OBVIOUS
  <2>3. n - 1 = 8 /\ writes \in [1 .. n -> S]
    BY <1>3, <2>2
  <2>4. <<record>> \o SubSeq(writes, 1, n - 1) \in [1 .. n -> S]
    BY <2>1, <2>3
  <2> QED BY <2>2, <2>3, <2>4
<1>5. writes' \in [1 .. 9 -> S]
  BY <1>1, <1>3, <1>4
<1> QED BY <1>5 DEF S

LEMMA StorageMoves ==
  ASSUME StorageTypes, TokenTypes, NEW x, Pipeline(x), BaseBus
  PROVE  StorageTypes'
<1>1. base_price' \in BasePrices
  BY PipelineAssumption DEF BaseBus
<1>2. rep_side' \in Sides
  <2>1. CASE ~stall /\ stage[5] # Bubble /\ stage[5].rep = "DEL"
    <3>1. Found(stage[5]) /\ stage[5].op = "DELETE"
      BY <2>1 DEF TokenTypes, Placed, Found, EventFields
    <3>2. stage[5].entry.side \in Sides
      BY <3>1, DataFields DEF Found, Has
    <3>3. rep_side' = stage[5].entry.side
      BY <2>1 DEF Pipeline, RecordReplacedSide
    <3> QED BY <3>2, <3>3
  <2>2. CASE ~(~stall /\ stage[5] # Bubble /\ stage[5].rep = "DEL")
    BY <2>2 DEF Pipeline, RecordReplacedSide, StorageTypes
  <2> QED BY <2>1, <2>2
<1>3. WriteStores /\ WriteOccupancy /\ RecordWrite
  BY DEF Pipeline
<1>4. /\ (table \in [Hashes -> Buckets])'
      /\ (cam \in [CamIndices -> CamEntries])'
      /\ (cam_q # NoWrite => cam_q \in CamWrites)'
      /\ (level \in [Sides -> [Indices -> Levels]])'
  BY <1>3, StoresKeepTypes
<1>5. /\ (bits \in [Sides -> Words])'
      /\ (enc \in [Sides -> SUBSET Rows])'
      /\ (prev_cw # NoWrite => prev_cw.word \in Words)'
  BY <1>3, OccupancyKeepsTypes
<1>6. (writes \in [1 .. 9 -> Updates \cup {NoWrite}])'
  BY <1>3, RecordKeepsTypes
<1> QED BY <1>1, <1>2, <1>4, <1>5, <1>6 DEF StorageTypes

-----------------------------------------------------------------------------
(* The best prices.                                                        *)
LEMMA ResolvedTypes ==
  ASSUME NEW e, EvaluatedTypes(e), NEW side \in Sides
  PROVE  Resolved(e, side) \in Indices
<1>1. e.best[side] \in Indices
  BY DEF EvaluatedTypes
<1>2. Sentinel(side) \in Indices
  BY Ranges DEF Sentinel
<1>3. e.row * CHUNK \in Indices
  BY RowStarts DEF EvaluatedTypes
<1>4. e.word # {} => Best(side, e.word) \in Indices
  <2>1. e.word \subseteq 0 .. DEPTH - 1
    BY DEF EvaluatedTypes, Words, Indices
  <2>2. DEPTH - 1 \in Nat
    BY Ranges
  <2> QED BY <2>1, <2>2, Extremes DEF Indices
<1> QED BY <1>1, <1>2, <1>3, <1>4 DEF Resolved

LEMMA EffBestTypes ==
  ASSUME BestTypes, NEW side \in Sides
  PROVE  EffBest(side) \in Indices
BY ResolvedTypes DEF EffBest, BestTypes

LEMMA EvaluateTypes ==
  ASSUME StorageTypes, BestTypes, NEW t, Indexed(t)
  PROVE  EvaluatedTypes(Evaluated(t))
<1> DEFINE search_side == IF "SELL" \in DepletedSide(t) THEN "SELL" ELSE "BUY"
           row == IF enc[search_side] = {} THEN 0 ELSE Best(search_side, enc[search_side])
           tops == [side \in Sides |->
                     IF t.op = "ADD" /\ t.side = side /\ Better(side, t.idx, EffBest(side))
                     THEN t.idx ELSE EffBest(side)]
<1>1. /\ Evaluated(t).best = tops
      /\ Evaluated(t).search_side = search_side
      /\ Evaluated(t).row = row
      /\ Evaluated(t).word = Word(search_side, row)
  BY DEF Evaluated
<1>2. search_side \in Sides
  BY DEF Sides
<1> HIDE DEF search_side
<1>3. tops \in [Sides -> Indices]
  <2>1. t.idx \in Indices
    BY DEF Indexed, Has
  <2> QED BY <2>1, EffBestTypes
<1>4. row \in Rows
  <2>1. enc[search_side] \subseteq 0 .. Row(DEPTH - 1)
    BY <1>2 DEF StorageTypes, Rows
  <2>2. Row(DEPTH - 1) \in Nat
    BY Ranges
  <2>3. enc[search_side] # {} => Best(search_side, enc[search_side]) \in enc[search_side]
    BY <2>1, <2>2, Extremes
  <2>4. 0 \in 0 .. Row(DEPTH - 1)
    BY <2>2
  <2> QED BY <2>1, <2>3, <2>4 DEF Rows
<1>5. Word(search_side, row) \in Words
  BY <1>2, WordTypes
<1> HIDE DEF tops, row
<1> QED BY <1>1, <1>2, <1>3, <1>4, <1>5 DEF EvaluatedTypes

LEMMA BestMoves ==
  ASSUME StorageTypes, TokenTypes, BestTypes, NEW x, Pipeline(x)
  PROVE  BestTypes'
<1> DEFINE t == stage[10]
<1>1. best' \in [Sides -> Indices]
  <2>1. CASE eval # Bubble
    <3>1. best' = [side \in Sides |-> Resolved(eval, side)]
      BY <2>1 DEF Pipeline, Resolve, next_best
    <3>2. EvaluatedTypes(eval)
      BY <2>1 DEF BestTypes
    <3> QED BY <3>1, <3>2, ResolvedTypes
  <2>2. CASE eval = Bubble
    BY <2>2 DEF Pipeline, Resolve, BestTypes
  <2> QED BY <2>1, <2>2
<1>2. eval' # Bubble => EvaluatedTypes(eval')
  <2>1. CASE t = Bubble
    BY <2>1 DEF Pipeline, Evaluate
  <2>2. CASE t # Bubble
    <3>1. eval' = Evaluated(t)
      BY <2>2 DEF Pipeline, Evaluate
    <3>2. Indexed(t)
      BY <2>2 DEF TokenTypes
    <3> QED BY <3>1, <3>2, EvaluateTypes
  <2> QED BY <2>1, <2>2
<1>3. {stall', stall_q'} \subseteq BOOLEAN
  <2>1. stall' = /\ t # Bubble
                 /\ ~stall_q
                 /\ t.rep # "DEL"
                 /\ RepAddNeedsRead(t) \/ DepletedSide(t) # {}
    BY DEF Pipeline, Evaluate
  <2>2. stall' \in BOOLEAN
    BY <2>1, Zenon
  <2>3. stall_q' \in BOOLEAN
    BY DEF Pipeline, Evaluate, BestTypes
  <2> QED BY <2>2, <2>3
<1>4. (eval # Bubble => EvaluatedTypes(eval))'
  BY <1>2 DEF EvaluatedTypes
<1> QED BY <1>1, <1>3, <1>4 DEF BestTypes

-----------------------------------------------------------------------------
(* The source and the admission logic.                                     *)

(* No order enters a book with no shares, as in every feed that            *)
(* golden/stimulus.py draws (lines 414 and 488).                           *)
OrdersHaveShares ==
  \A e \in Events : e.op \in {"ADD", "REPLACE"} => e.shares # 0

Tables == [Refs -> Order \cup {NoOrder}]

AdmissionTypes ==
  /\ stream \in DOMAIN Streams
  /\ offer \in Streams[stream].events \cup {NoEvent}
  /\ offer # NoEvent => Legal(ledger, offer)
  /\ idle \in Nat
  /\ sent \in 1 .. Streams[stream].length
  /\ entry_gap \in 1 .. MIN_ENTRY_GAP
  /\ busy \in [1 .. BUSY_DEPTH -> SUBSET Hashes]
  /\ held # Bubble => Entered(held)
  /\ ledger \in Tables

LEMMA StreamTypes ==
  ASSUME NEW name \in DOMAIN Streams
  PROVE  /\ Streams[name].events \subseteq Events
         /\ Streams[name].length \in Nat \ {0}
         /\ Streams[name].waits \subseteq Nat
BY PipelineAssumption DEF StreamRecords

LEMMA EventTypes ==
  ASSUME NEW e \in Events
  PROVE  /\ e.op \in {"ADD", "REDUCE", "DELETE", "REPLACE"} /\ e.ref \in Refs
         /\ e.op = "ADD" => e \in [op : {"ADD"}, ref : Refs, side : Sides, price : Prices,
                                   shares : Shares]
         /\ e.op = "REDUCE" => e \in [op : {"REDUCE"}, ref : Refs, shares : Shares]
         /\ e.op = "DELETE" => e \in [op : {"DELETE"}, ref : Refs]
         /\ e.op = "REPLACE" => e \in [op : {"REPLACE"}, ref : Refs, new_ref : Refs,
                                       price : Prices, shares : Shares]
<1>1. e \in EventRecords
  BY EventsAssumption
<1> QED BY <1>1 DEF EventRecords

(* A legal event takes a table of orders to a table of orders.             *)
LEMMA LegalKeepsTable ==
  ASSUME NEW tab \in Tables, NEW e \in Events, Legal(tab, e)
  PROVE  Apply(tab, e) \in Tables
<1>1. e.op \in {"ADD", "REDUCE", "DELETE", "REPLACE"} /\ e.ref \in Refs
  BY EventTypes
<1>2. ASSUME Live(tab, e.ref) PROVE tab[e.ref] \in Order
  BY <1>1, <1>2 DEF Live, Tables
<1>3. CASE ~Known(tab, e)
  BY <1>3 DEF Apply
<1>4. CASE Known(tab, e) /\ e.op = "ADD"
  <2>1. e \in [op : {"ADD"}, ref : Refs, side : Sides, price : Prices, shares : Shares]
    BY <1>4, EventTypes
  <2>2. NewOrder(tab, e) \in Order
    BY <1>4, <2>1 DEF NewOrder, Order
  <2>3. Apply(tab, e) = [tab EXCEPT ![e.ref] = NewOrder(tab, e)]
    BY <1>4 DEF Apply
  <2> QED BY <2>2, <2>3 DEF Tables
<1>5. CASE Known(tab, e) /\ e.op = "REDUCE"
  <2>1. e.shares \in Shares
    BY <1>5, EventTypes
  <2>2. tab[e.ref] \in Order /\ e.shares <= tab[e.ref].shares
    BY <1>2, <1>5 DEF Known, Legal
  <2>3. tab[e.ref].shares - e.shares \in Shares
    <3>1. tab[e.ref].shares \in Shares
      BY <2>2 DEF Order
    <3> QED BY <2>1, <2>2, <3>1, LimitOrdersAssumption DEF Shares
  <2>4. [tab[e.ref] EXCEPT !.shares = tab[e.ref].shares - e.shares] \in Order
    BY <2>2, <2>3 DEF Order
  <2>5. AfterReduce(tab[e.ref], e.shares) \in Order \cup {NoOrder}
    BY <2>4 DEF AfterReduce
  <2>6. Apply(tab, e) = [tab EXCEPT ![e.ref] = AfterReduce(tab[e.ref], e.shares)]
    BY <1>5 DEF Apply
  <2> QED BY <2>5, <2>6 DEF Tables
<1>6. CASE Known(tab, e) /\ e.op = "DELETE"
  <2>1. Apply(tab, e) = [tab EXCEPT ![e.ref] = NoOrder]
    BY <1>6 DEF Apply
  <2> QED BY <2>1 DEF Tables
<1>7. CASE Known(tab, e) /\ e.op = "REPLACE"
  <2>1. e.price \in Prices /\ e.shares \in Shares
    BY <1>7, EventTypes
  <2>2. tab[e.ref].side \in Sides
    BY <1>2, <1>7 DEF Known, Order
  <2>3. NewOrder(tab, e) \in Order
    BY <1>7, <2>1, <2>2 DEF NewOrder, Order
  <2>4. Apply(tab, e) = [tab EXCEPT ![e.ref] = NoOrder, ![e.new_ref] = NewOrder(tab, e)]
    BY <1>7 DEF Apply
  <2> QED BY <2>3, <2>4 DEF Tables
<1> QED BY <1>1, <1>3, <1>4, <1>5, <1>6, <1>7

(* Both halves of an event carry the fields of one that has just entered.  *)
LEMMA HalvesEnter ==
  ASSUME OrdersHaveShares, NEW e \in Events
  PROVE  /\ Entered(First(e))
         /\ Second(e) # Bubble => Entered(Second(e))
<1> USE DEF FromRead, FromLookup, FromSearch, FromEntry, FromIssue
<1>1. e.op \in {"ADD", "REDUCE", "DELETE", "REPLACE"} /\ e.ref \in Refs
  BY EventTypes
<1>2. ASSUME e.op \in {"ADD", "REPLACE"} PROVE e.shares \in 1 .. SHARES_MAX
  <2>1. e.shares \in Shares /\ e.shares # 0
    BY <1>2, EventTypes DEF OrdersHaveShares
  <2> QED BY <2>1, LimitOrdersAssumption DEF Shares
<1>3. CASE e.op = "ADD"
  <2>1. e \in [op : {"ADD"}, ref : Refs, side : Sides, price : Prices, shares : Shares]
    BY <1>3, EventTypes
  <2>2. First(e) = With(e, [rep |-> "NONE"]) /\ Second(e) = Bubble
    BY <1>3 DEF First, Second
  <2>3. DOMAIN e = {"op", "ref", "side", "price", "shares"}
    BY <2>1
  <2>4. DOMAIN First(e) = {"op", "ref", "side", "price", "shares", "rep"}
    BY <2>2, <2>3 DEF With
  <2>5. /\ First(e).op = "ADD" /\ First(e).ref = e.ref /\ First(e).side = e.side
        /\ First(e).price = e.price /\ First(e).shares = e.shares /\ First(e).rep = "NONE"
    BY <1>3, <2>2, <2>3 DEF With
  <2>6. e.side \in Sides /\ e.price \in Prices /\ e.shares \in 1 .. SHARES_MAX
    BY <1>2, <1>3, <2>1
  <2>7. EventFields(First(e))
    BY <1>1, <2>4, <2>5, <2>6 DEF EventFields, Has
  <2> QED BY <2>2, <2>4, <2>7 DEF Entered, Lacks
<1>4. CASE e.op = "REDUCE"
  <2>1. e \in [op : {"REDUCE"}, ref : Refs, shares : Shares]
    BY <1>4, EventTypes
  <2>2. First(e) = With(e, [rep |-> "NONE"]) /\ Second(e) = Bubble
    BY <1>4 DEF First, Second
  <2>3. DOMAIN e = {"op", "ref", "shares"}
    BY <2>1
  <2>4. DOMAIN First(e) = {"op", "ref", "shares", "rep"}
    BY <2>2, <2>3 DEF With
  <2>5. /\ First(e).op = "REDUCE" /\ First(e).ref = e.ref
        /\ First(e).shares = e.shares /\ First(e).rep = "NONE"
    BY <1>4, <2>2, <2>3 DEF With
  <2>6. EventFields(First(e))
    BY <1>1, <2>1, <2>4, <2>5 DEF EventFields, Has
  <2> QED BY <2>2, <2>4, <2>6 DEF Entered, Lacks
<1>5. CASE e.op = "DELETE"
  <2>1. e \in [op : {"DELETE"}, ref : Refs]
    BY <1>5, EventTypes
  <2>2. First(e) = With(e, [rep |-> "NONE"]) /\ Second(e) = Bubble
    BY <1>5 DEF First, Second
  <2>3. DOMAIN e = {"op", "ref"}
    BY <2>1
  <2>4. DOMAIN First(e) = {"op", "ref", "rep"}
    BY <2>2, <2>3 DEF With
  <2>5. First(e).op = "DELETE" /\ First(e).ref = e.ref /\ First(e).rep = "NONE"
    BY <1>5, <2>2, <2>3 DEF With
  <2>6. EventFields(First(e))
    BY <1>1, <2>4, <2>5 DEF EventFields, Has
  <2> QED BY <2>2, <2>4, <2>6 DEF Entered, Lacks
<1>6. CASE e.op = "REPLACE"
  <2>1. e \in [op : {"REPLACE"}, ref : Refs, new_ref : Refs, price : Prices, shares : Shares]
    BY <1>6, EventTypes
  <2>2. /\ First(e) = [op |-> "DELETE", ref |-> e.ref, rep |-> "DEL"]
        /\ Second(e) = [op |-> "ADD", ref |-> e.new_ref, price |-> e.price,
                        shares |-> e.shares, rep |-> "ADD"]
    BY <1>6 DEF First, Second
  <2>3. e.new_ref \in Refs /\ e.price \in Prices /\ e.shares \in 1 .. SHARES_MAX
    BY <1>2, <1>6, <2>1
  <2>4. Entered([op |-> "DELETE", ref |-> e.ref, rep |-> "DEL"])
    BY <1>1 DEF Entered, EventFields, Has, Lacks
  <2>5. Entered([op |-> "ADD", ref |-> e.new_ref, price |-> e.price,
                 shares |-> e.shares, rep |-> "ADD"])
    BY <2>3 DEF Entered, EventFields, Has, Lacks
  <2> QED BY <2>2, <2>4, <2>5
<1> QED BY <1>1, <1>3, <1>4, <1>5, <1>6

-----------------------------------------------------------------------------
PInv == AdmissionTypes /\ StorageTypes /\ TokenTypes /\ BestTypes

LEMMA PInvImplies == PInv => TypeOK
<1> SUFFICES ASSUME PInv PROVE TypeOK
  OBVIOUS
<1>1. /\ stream \in DOMAIN Streams
      /\ offer \in Streams[stream].events \cup {NoEvent}
      /\ idle \in Nat
      /\ sent \in 1 .. Streams[stream].length
      /\ entry_gap \in 1 .. MIN_ENTRY_GAP
      /\ busy \in [1 .. BUSY_DEPTH -> SUBSET {Hash[r] : r \in Refs}]
      /\ ledger \in [Refs -> Order \cup {NoOrder}]
  BY DEF PInv, AdmissionTypes, Hashes, Tables
<1>2. /\ base_price \in BasePrices
      /\ level \in [Sides -> [Indices -> 0 .. SHARES_MOD - 1]]
      /\ bits \in [Sides -> SUBSET Indices]
      /\ enc \in [Sides -> SUBSET (0 .. Row(DEPTH - 1))]
  BY DEF PInv, StorageTypes, Levels, Words, Rows
<1>3. \A h \in DOMAIN table, slot \in 0 .. SLOTS - 1 : table[h][slot] \in Entry \cup {NoEntry}
  BY DEF PInv, StorageTypes, Buckets, Slots, Entries
<1>4. \A i \in 0 .. CAM_DEPTH - 1 :
        /\ cam[i] \in [entry : Entry \cup {Blank}, tombstone : BOOLEAN]
        /\ CamOrder(i) \in Entry \cup {NoEntry}
  <2> SUFFICES ASSUME NEW i \in 0 .. CAM_DEPTH - 1
               PROVE  /\ cam[i] \in [entry : Entry \cup {Blank}, tombstone : BOOLEAN]
                      /\ CamOrder(i) \in Entry \cup {NoEntry}
    OBVIOUS
  <2>1. cam[i] \in CamEntries
    BY DEF PInv, StorageTypes, CamIndices
  <2> QED BY <2>1 DEF CamEntries, EntryData, CamOrder
<1>5. DOMAIN stage = 1 .. 10
  BY DEF PInv, TokenTypes
<1>6. best \in [Sides -> Indices] /\ {stall, stall_q} \subseteq BOOLEAN
  BY DEF PInv, BestTypes
<1> QED BY <1>1, <1>2, <1>3, <1>4, <1>5, <1>6 DEF TypeOK

LEMMA PInvInit == Init => PInv
<1> SUFFICES ASSUME Init PROVE PInv
  OBVIOUS
<1>1. AdmissionTypes
  <2>1. stream \in DOMAIN Streams /\ Streams[stream].length \in Nat \ {0}
    BY StreamTypes DEF Init
  <2>2. /\ offer \in Streams[stream].events /\ Legal(NoOrders, offer) /\ ledger = NoOrders
        /\ idle = 0 /\ sent = 1 /\ held = Bubble
    BY DEF Init
  <2>3. entry_gap \in 1 .. MIN_ENTRY_GAP
    BY PipelineAssumption DEF Init
  <2>4. busy \in [1 .. BUSY_DEPTH -> SUBSET Hashes]
    BY DEF Init
  <2>5. ledger \in Tables
    BY <2>2 DEF NoOrders, Tables
  <2>6. sent \in 1 .. Streams[stream].length
    BY <2>1, <2>2
  <2> QED BY <2>1, <2>2, <2>3, <2>4, <2>5, <2>6 DEF AdmissionTypes
<1>2. StorageTypes
  <2>1. base_price \in BasePrices /\ rep_side \in Sides /\ cam_q = NoWrite /\ prev_cw = NoWrite
    BY PipelineAssumption DEF Init, Sides
  <2>2. table \in [Hashes -> Buckets] /\ cam \in [CamIndices -> CamEntries]
    BY DEF Init, Hashes, Buckets, Slots, Entries, CamIndices, CamEntries, EntryData
  <2>3. level \in [Sides -> [Indices -> Levels]]
    BY Ranges DEF Init
  <2>4. bits \in [Sides -> Words] /\ enc \in [Sides -> SUBSET Rows]
    BY DEF Init, Words
  <2>5. writes \in [1 .. 9 -> Updates \cup {NoWrite}]
    BY DEF Init
  <2> QED BY <2>1, <2>2, <2>3, <2>4, <2>5 DEF StorageTypes
<1>3. TokenTypes
  BY DEF Init, TokenTypes
<1>4. BestTypes
  BY Ranges DEF Init, BestTypes, Sentinel
<1> QED BY <1>1, <1>2, <1>3, <1>4 DEF PInv

LEMMA PipelineMoves ==
  ASSUME PInv, NEW x, Pipeline(x), BaseBus, ~stall /\ x # Bubble => Entered(x)
  PROVE  StorageTypes' /\ TokenTypes' /\ BestTypes'
<1>1. StorageTypes /\ TokenTypes /\ BestTypes
  BY DEF PInv
<1>2. MovePipe(x)
  BY DEF Pipeline
<1> QED BY <1>1, <1>2, StorageMoves, TokensMove, BestMoves

LEMMA BusyTypes ==
  ASSUME AdmissionTypes, NEW hashes \in SUBSET Hashes, BusyShift(hashes)
  PROVE  busy' \in [1 .. BUSY_DEPTH -> SUBSET Hashes]
<1>1. BUSY_DEPTH \in Nat \ {0}
  BY PipelineAssumption
<1>2. busy \in [1 .. BUSY_DEPTH -> SUBSET Hashes]
  BY DEF AdmissionTypes
<1>3. <<hashes>> \o SubSeq(busy, 1, BUSY_DEPTH - 1) \in [1 .. BUSY_DEPTH -> SUBSET Hashes]
  BY <1>1, <1>2, ShiftTypes
<1> QED BY <1>3 DEF BusyShift

(* The idle count of an edge on which the source is not taken.             *)
LEMMA IdleTypes ==
  ASSUME NEW n \in Nat
  PROVE  (IF n > 0 THEN n - 1 ELSE 0) \in Nat
OBVIOUS

LEMMA AcceptTypes ==
  ASSUME OrdersHaveShares, PInv,
         NEW next \in Streams[stream].events \cup {NoEvent}, Accept(next)
  PROVE  PInv'
<1>1. AdmissionTypes
  BY DEF PInv
<1>2. /\ Streams[stream].events \subseteq Events
      /\ Streams[stream].length \in Nat \ {0}
      /\ Streams[stream].waits \subseteq Nat
  BY <1>1, StreamTypes DEF AdmissionTypes
<1>3. offer \in Events /\ Legal(ledger, offer)
  BY <1>1, <1>2 DEF Accept, valid_i, AdmissionTypes
<1>4. Entered(First(offer)) /\ (Second(offer) # Bubble => Entered(Second(offer)))
  BY <1>3, HalvesEnter
<1>5. StorageTypes' /\ TokenTypes' /\ BestTypes'
  BY <1>4, PipelineMoves DEF Accept
<1>6. ledger' \in Tables
  BY <1>1, <1>3, LegalKeepsTable DEF Accept, AdmissionTypes
<1>7. busy' \in [1 .. BUSY_DEPTH -> SUBSET Hashes]
  <2>1. {Hash[offer.ref]} \in SUBSET Hashes
    BY <1>3, EventTypes DEF Hashes
  <2> QED BY <1>1, <2>1, BusyTypes DEF Accept
<1>8. /\ idle' \in Nat
      /\ sent' \in 1 .. Streams[stream].length
      /\ offer' # NoEvent => Legal(ledger', offer')
  <2>1. sent \in 1 .. Streams[stream].length
    BY <1>1 DEF AdmissionTypes
  <2>2. CASE next = NoEvent
    BY <2>1, <2>2 DEF Accept
  <2>3. CASE next # NoEvent
    <3>1. /\ sent < Streams[stream].length
          /\ Legal(ledger', next)
          /\ idle' \in Streams[stream].waits
          /\ sent' = sent + 1 /\ offer' = next
      BY <2>3 DEF Accept
    <3>2. sent + 1 \in 1 .. Streams[stream].length
      BY <1>2, <2>1, <3>1
    <3> QED BY <1>2, <3>1, <3>2
  <2> QED BY <2>2, <2>3
<1>9. entry_gap' \in 1 .. MIN_ENTRY_GAP
  BY PipelineAssumption DEF Accept
<1>10. /\ stream' = stream /\ offer' = next /\ held' = Second(offer)
  BY DEF Accept
<1>11. AdmissionTypes'
  <2>1. stream' \in DOMAIN Streams /\ offer' \in Streams[stream'].events \cup {NoEvent}
        /\ sent' \in 1 .. Streams[stream'].length
    BY <1>1, <1>8, <1>10 DEF AdmissionTypes
  <2>2. held' # Bubble => Entered(held')
    BY <1>4, <1>10
  <2> QED BY <1>6, <1>7, <1>8, <1>9, <2>1, <2>2 DEF AdmissionTypes
<1> QED BY <1>5, <1>11 DEF PInv

LEMMA EnterReplacementTypes ==
  ASSUME PInv, EnterReplacement
  PROVE  PInv'
<1>1. AdmissionTypes
  BY DEF PInv
<1>2. Entered(held)
  BY <1>1 DEF AdmissionTypes, EnterReplacement
<1>3. StorageTypes' /\ TokenTypes' /\ BestTypes'
  BY <1>2, PipelineMoves DEF EnterReplacement
<1>4. busy' \in [1 .. BUSY_DEPTH -> SUBSET Hashes]
  <2>1. {Hash[held.ref]} \in SUBSET Hashes
    BY <1>2 DEF Entered, EventFields, Has, Hashes
  <2> QED BY <1>1, <2>1, BusyTypes DEF EnterReplacement
<1>5. AdmissionTypes'
  <2>1. idle' \in Nat
    BY <1>1, IdleTypes DEF EnterReplacement, AdmissionTypes
  <2>2. entry_gap' \in 1 .. MIN_ENTRY_GAP
    BY PipelineAssumption DEF EnterReplacement
  <2>3. held' = Bubble /\ UNCHANGED <<stream, offer, sent, ledger>>
    BY DEF EnterReplacement
  <2> QED BY <1>1, <1>4, <2>1, <2>2, <2>3 DEF AdmissionTypes
<1> QED BY <1>3, <1>5 DEF PInv

LEMMA EnterNothingTypes ==
  ASSUME PInv, EnterNothing
  PROVE  PInv'
<1>1. AdmissionTypes
  BY DEF PInv
<1>2. StorageTypes' /\ TokenTypes' /\ BestTypes'
  BY PipelineMoves DEF EnterNothing
<1>3. busy' \in [1 .. BUSY_DEPTH -> SUBSET Hashes]
  BY <1>1, BusyTypes DEF EnterNothing
<1>4. AdmissionTypes'
  <2>1. idle' \in Nat
    BY <1>1, IdleTypes DEF EnterNothing, AdmissionTypes
  <2>2. entry_gap' \in 1 .. MIN_ENTRY_GAP
    <3>1. entry_gap \in 1 .. MIN_ENTRY_GAP /\ MIN_ENTRY_GAP \in Nat \ {0}
      BY <1>1, PipelineAssumption DEF AdmissionTypes
    <3> QED BY <3>1 DEF EnterNothing, GapCount
  <2>3. UNCHANGED <<stream, offer, sent, ledger, held>>
    BY DEF EnterNothing
  <2> QED BY <1>1, <1>3, <2>1, <2>2, <2>3 DEF AdmissionTypes
<1> QED BY <1>2, <1>4 DEF PInv

LEMMA StalledTypes ==
  ASSUME PInv, Stalled
  PROVE  PInv'
<1>1. StorageTypes' /\ TokenTypes' /\ BestTypes'
  BY PipelineMoves DEF Stalled
<1>2. UNCHANGED <<source, admission>>
  BY DEF Stalled
<1>3. AdmissionTypes'
  BY <1>2 DEF PInv, AdmissionTypes, source, admission
<1> QED BY <1>1, <1>3 DEF PInv

LEMMA PInvStutters == ASSUME PInv, UNCHANGED vars PROVE PInv'
<1>1. UNCHANGED <<source, base_price, admission, stage, storage, bboregs>>
  BY DEF vars
<1>2. AdmissionTypes'
  BY <1>1 DEF PInv, AdmissionTypes, source, admission
<1>3. StorageTypes'
  BY <1>1 DEF PInv, StorageTypes, storage
<1>4. TokenTypes'
  BY <1>1 DEF PInv, TokenTypes
<1>5. BestTypes'
  BY <1>1 DEF PInv, BestTypes, bboregs
<1> QED BY <1>2, <1>3, <1>4, <1>5 DEF PInv

(* Every entry, level, occupancy word and best price of the pipeline is of *)
(* its type in every state, for any hash function, sizes of the stores and *)
(* interleaving of tokens, although each value passes through forwarding   *)
(* from other stages on its way: no token reads or writes outside a store  *)
(* (ob_idx_search.sv, ob_idx_req.sv, ob_update_write.sv), and a reduction  *)
(* never leaves an order with no shares.  It does not matter that an entry *)
(* of the CAM is read a stage after it was matched, when it may hold       *)
(* another order or one that has ended, nor that two matches make a third. *)
(* What it takes for granted is that no order enters without shares.       *)
THEOREM PipelineTypes ==
  OrdersHaveShares /\ Spec => []TypeOK
<1> SUFFICES ASSUME OrdersHaveShares
             PROVE  Spec => []TypeOK
  OBVIOUS
<1>1. ASSUME PInv, [Next]_vars
      PROVE  PInv'
  <2>1. ASSUME NEW next \in Streams[stream].events \cup {NoEvent}, Accept(next)
        PROVE  PInv'
    BY <1>1, <2>1, AcceptTypes
  <2>2. CASE EnterReplacement
    BY <1>1, <2>2, EnterReplacementTypes
  <2>3. CASE EnterNothing
    BY <1>1, <2>3, EnterNothingTypes
  <2>4. CASE Stalled
    BY <1>1, <2>4, StalledTypes
  <2>5. CASE UNCHANGED vars
    BY <1>1, <2>5, PInvStutters
  <2> QED BY <1>1, <2>1, <2>2, <2>3, <2>4, <2>5 DEF Next
<1> QED BY <1>1, PInvInit, PInvImplies, PTL DEF Spec
=============================================================================
