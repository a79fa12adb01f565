----------------------------- MODULE BboMuxProofs -----------------------------
(***************************************************************************)
(* Proofs about the output side of order_book_top.sv, for any number of    *)
(* books, any FIFO depth from two and any spacing above the number of      *)
(* books.                                                                  *)
(*                                                                         *)
(* Why the FIFOs cannot fill: an answer that is owed has an age, the edges *)
(* since its book gave it, and its book's turn is Distance edges away.     *)
(* Both move by one per edge in opposite directions, so their sum never    *)
(* grows past STOCKS, and the next answer comes later than that.           *)
(***************************************************************************)
EXTENDS BboMux, TLAPS

(* Edges until it is the turn of book s.                                   *)
Distance(s) == IF s >= count THEN s - count ELSE s - count + STOCKS

(* A book that has just answered owes nothing older.                       *)
InputIsFresh == \A s \in Stocks : bbo_in[s] # NoBbo <=> since[s] = 0

OwedIsYoung ==
  \A s \in Stocks : owed[s] # <<>> => since[s] >= 1 /\ since[s] + Distance(s) <= STOCKS

IInv == TypeOK /\ InputIsFresh /\ OwedIsYoung /\ FifoHoldsWhatIsOwed

-----------------------------------------------------------------------------
(* A pointer that moves on is a pointer, and another one.                  *)
LEMMA SuccIsAnother ==
  ASSUME NEW p \in Pointers
  PROVE  Succ(p) \in Pointers /\ Succ(p) # p
BY BboMuxAssumption DEF Succ, Pointers

(* The turn goes to a book, one edge nearer to every other book.           *)
LEMMA TurnComesNearer ==
  ASSUME TypeOK, count' = NextTurn, NEW s \in Stocks
  PROVE  /\ NextTurn \in Stocks
         /\ Distance(s) \in 0 .. STOCKS - 1
         /\ Distance(s) = 0 <=> s = count
         /\ s # count => Distance(s)' = Distance(s) - 1
BY BboMuxAssumption DEF TypeOK, NextTurn, Stocks, Distance

(* What an edge does to a book's age and input.                            *)
LEMMA AgesByOne ==
  ASSUME TypeOK, Books, NEW s \in Stocks
  PROVE  /\ bbo_in'[s] \in Bbos \cup {NoBbo}
         /\ since'[s] \in 0 .. SPACING
         /\ bbo_in'[s] # NoBbo <=> since'[s] = 0
         /\ since'[s] # 0 => /\ since[s] < SPACING => since'[s] = since[s] + 1
                             /\ since[s] = SPACING => since'[s] = SPACING
         /\ since'[s] = 0 => since[s] + 1 >= SPACING
BY BboMuxAssumption DEF TypeOK, Books, Stocks

-----------------------------------------------------------------------------
LEMMA InitHolds == Init => IInv
<1> SUFFICES ASSUME Init PROVE IInv
  OBVIOUS
<1> USE BboMuxAssumption
<1>1. TypeOK
  BY DEF Init, TypeOK, Stocks, Pointers
<1>2. InputIsFresh
  BY DEF Init, InputIsFresh, Stocks
<1>3. OwedIsYoung /\ FifoHoldsWhatIsOwed
  BY DEF Init, OwedIsYoung, FifoHoldsWhatIsOwed, empty
<1> QED
  BY <1>1, <1>2, <1>3 DEF IInv

(* What is left, followed by what is written, when one of them is empty.   *)
LEMMA OneAnswerAtMost ==
  ASSUME NEW rest, NEW s \in Stocks, TypeOK,
         rest = <<>> \/ \E x \in Bbos : rest = <<x>>,
         bbo_in[s] # NoBbo => rest = <<>>
  PROVE  rest \o Written(s) = IF bbo_in[s] # NoBbo THEN <<bbo_in[s]>> ELSE rest
<1>1. bbo_in[s] # NoBbo => bbo_in[s] \in Bbos
  BY DEF TypeOK
<1>2. rest \in Seq(Bbos)
  <2>1. \A x \in Bbos : <<x>> \in Seq(Bbos)
    OBVIOUS
  <2>2. <<>> \in Seq(Bbos)
    OBVIOUS
  <2> QED
    BY <2>1, <2>2
<1>3. CASE bbo_in[s] = NoBbo
  <2>1. rest \o <<>> = rest
    BY <1>2
  <2> QED
    BY <1>3, <2>1 DEF Written
<1>4. CASE bbo_in[s] # NoBbo
  <2>1. <<>> \o <<bbo_in[s]>> = <<bbo_in[s]>>
    BY <1>1, <1>4
  <2> QED
    BY <1>4, <2>1 DEF Written
<1> QED
  BY <1>3, <1>4

(* An edge on one book, in terms of what its FIFO held before: the answer  *)
(* that was owed leaves if it is the book's turn, the answer in the book's *)
(* output register becomes the one that is owed, and never both stay.      *)
LEMMA OneBook ==
  ASSUME IInv, Next, NEW s \in Stocks
  PROVE  /\ owed'[s] = IF bbo_in[s] # NoBbo THEN <<bbo_in[s]>>
                       ELSE IF s = count THEN <<>> ELSE owed[s]
         /\ bbo_in[s] # NoBbo => owed[s] = <<>>
         /\ rd_ptr'[s] = IF s = count /\ ~empty(s) THEN Succ(rd_ptr[s]) ELSE rd_ptr[s]
         /\ wr_ptr'[s] = IF bbo_in[s] # NoBbo THEN Succ(wr_ptr[s]) ELSE wr_ptr[s]
         /\ fifo'[s] = IF bbo_in[s] # NoBbo THEN [fifo[s] EXCEPT ![wr_ptr[s]] = bbo_in[s]]
                       ELSE fifo[s]
         /\ Books /\ count' = NextTurn
<1> USE BboMuxAssumption
<1>1. TypeOK /\ InputIsFresh /\ OwedIsYoung /\ FifoHoldsWhatIsOwed
  BY DEF IInv
<1>2. bbo_in[s] # NoBbo => owed[s] = <<>>
  BY <1>1 DEF TypeOK, InputIsFresh, OwedIsYoung
<1>4. owed[s] = <<>> \/ \E x \in Bbos : owed[s] = <<x>>
  <2>1. rd_ptr[s] \in Pointers /\ owed[s] \in Seq(Bbos)
    BY <1>1 DEF TypeOK
  <2>2. CASE empty(s)
    BY <1>1, <2>2 DEF FifoHoldsWhatIsOwed
  <2>3. CASE ~empty(s)
    <3>1. owed[s] = <<fifo[s][rd_ptr[s]]>>
      BY <1>1, <2>3 DEF FifoHoldsWhatIsOwed
    <3>2. fifo[s][rd_ptr[s]] \in Bbos
      BY <2>1, <3>1
    <3> QED
      BY <3>1, <3>2
  <2> QED
    BY <2>2, <2>3
<1>5. empty(s) <=> owed[s] = <<>>
  BY <1>1 DEF FifoHoldsWhatIsOwed
<1>6. Books /\ Write /\ count' = NextTurn
  BY DEF Next, Publish, Pass
<1>7. /\ wr_ptr'[s] = IF bbo_in[s] # NoBbo THEN Succ(wr_ptr[s]) ELSE wr_ptr[s]
      /\ fifo'[s] = IF bbo_in[s] # NoBbo THEN [fifo[s] EXCEPT ![wr_ptr[s]] = bbo_in[s]]
                    ELSE fifo[s]
  BY <1>6 DEF Write
<1>8. CASE Publish
  <2>1. /\ ~empty(count)
        /\ rd_ptr'[s] = IF s = count THEN Succ(rd_ptr[s]) ELSE rd_ptr[s]
        /\ owed'[s] = (IF s = count /\ owed[s] # <<>> THEN Tail(owed[s]) ELSE owed[s])
                        \o Written(s)
    BY <1>1, <1>8 DEF Publish, TypeOK
  <2>2. s = count => owed[s] # <<>>
    BY <1>5, <2>1
  <2> DEFINE rest == IF s = count /\ owed[s] # <<>> THEN Tail(owed[s]) ELSE owed[s]
  <2>3. rest = IF s = count THEN <<>> ELSE owed[s]
    <3>1. \A x \in Bbos : Tail(<<x>>) = <<>>
      OBVIOUS
    <3> QED
      BY <1>4, <2>2, <3>1
  <2>4. owed'[s] = rest \o Written(s)
    BY <2>1
  <2> HIDE DEF rest
  <2>5. rest \o Written(s) = IF bbo_in[s] # NoBbo THEN <<bbo_in[s]>> ELSE rest
    BY <1>1, <1>2, <1>4, <2>3, OneAnswerAtMost
  <2>6. owed'[s] = IF bbo_in[s] # NoBbo THEN <<bbo_in[s]>>
                   ELSE IF s = count THEN <<>> ELSE owed[s]
    BY <2>3, <2>4, <2>5
  <2> QED
    BY <1>2, <1>6, <1>7, <2>1, <2>6
<1>9. CASE Pass
  <2>1. empty(count) /\ rd_ptr' = rd_ptr /\ owed'[s] = owed[s] \o Written(s)
    BY <1>9 DEF Pass
  <2>2. s = count => owed[s] = <<>>
    BY <1>5, <2>1
  <2>3. owed'[s] = IF bbo_in[s] # NoBbo THEN <<bbo_in[s]>>
                   ELSE IF s = count THEN <<>> ELSE owed[s]
    BY <1>1, <1>2, <1>4, <2>1, <2>2, OneAnswerAtMost
  <2> QED
    BY <1>2, <1>6, <1>7, <2>1, <2>3
<1> QED
  BY <1>8, <1>9 DEF Next

LEMMA StepKeepsTypes == IInv /\ Next => TypeOK'
<1> SUFFICES ASSUME IInv, Next PROVE TypeOK'
  OBVIOUS
<1> USE BboMuxAssumption
<1>1. TypeOK /\ FifoHoldsWhatIsOwed
  BY DEF IInv
<1>2. Books /\ Write /\ count' = NextTurn
  BY DEF Next, Publish, Pass
<1>3. bbo_in' \in [Stocks -> Bbos \cup {NoBbo}]
  BY <1>2 DEF Books
<1>4. since' \in [Stocks -> 0 .. SPACING]
  BY <1>1, <1>2 DEF Books, TypeOK
<1>5. fifo' \in [Stocks -> [Pointers -> Bbos \cup {NoBbo}]]
  BY <1>1, <1>2 DEF Write, TypeOK
<1>6. wr_ptr' \in [Stocks -> Pointers]
  BY <1>1, <1>2, SuccIsAnother DEF Write, TypeOK
<1>7. rd_ptr' \in [Stocks -> Pointers]
  <2>1. CASE Pass
    BY <1>1, <2>1 DEF Pass, TypeOK
  <2>2. CASE Publish
    <3>1. count \in Stocks /\ rd_ptr \in [Stocks -> Pointers]
      BY <1>1 DEF TypeOK
    <3>2. Succ(rd_ptr[count]) \in Pointers
      BY <3>1, SuccIsAnother
    <3> QED
      BY <2>2, <3>1, <3>2 DEF Publish
  <2> QED
    BY <2>1, <2>2 DEF Next
<1>8. count' \in Stocks
  BY <1>1, <1>2 DEF NextTurn, TypeOK, Stocks
<1>9. out' \in Published \cup {NoBbo}
  <2>1. CASE Pass
    BY <2>1 DEF Pass
  <2>2. CASE Publish
    <3>1. /\ owed[count] = <<fifo[count][rd_ptr[count]]>>
          /\ owed[count] \in Seq(Bbos)
          /\ count \in Stocks
      BY <1>1, <2>2 DEF Publish, FifoHoldsWhatIsOwed, TypeOK
    <3>2. fifo[count][rd_ptr[count]] \in Bbos
      BY <3>1
    <3> QED
      BY <2>2, <3>1, <3>2 DEF Publish, Published
  <2> QED
    BY <2>1, <2>2 DEF Next
<1>10. owed' \in [Stocks -> Seq(Bbos)]
  <2>1. \A s \in Stocks : owed'[s] \in Seq(Bbos)
    <3> SUFFICES ASSUME NEW s \in Stocks PROVE owed'[s] \in Seq(Bbos)
      OBVIOUS
    <3>1. owed[s] \in Seq(Bbos) /\ bbo_in[s] \in Bbos \cup {NoBbo}
      BY <1>1 DEF TypeOK
    <3>2. owed'[s] = IF bbo_in[s] # NoBbo THEN <<bbo_in[s]>>
                     ELSE IF s = count THEN <<>> ELSE owed[s]
      BY OneBook
    <3> QED
      BY <3>1, <3>2
  <2>2. owed' = [s \in Stocks |-> owed'[s]]
    BY DEF Next, Publish, Pass
  <2> QED
    BY <2>1, <2>2
<1> QED
  BY <1>3, <1>4, <1>5, <1>6, <1>7, <1>8, <1>9, <1>10 DEF TypeOK

LEMMA StepKeepsAges == IInv /\ Next => InputIsFresh' /\ OwedIsYoung'
<1> SUFFICES ASSUME IInv, Next, NEW s \in Stocks
             PROVE  /\ bbo_in'[s] # NoBbo <=> since'[s] = 0
                    /\ owed'[s] # <<>> =>
                         since'[s] >= 1 /\ since'[s] + Distance(s)' <= STOCKS
  BY DEF InputIsFresh, OwedIsYoung
<1> USE BboMuxAssumption
<1>1. TypeOK /\ InputIsFresh /\ OwedIsYoung
  BY DEF IInv
<1>2. Books /\ count' = NextTurn
  BY OneBook
<1>3. bbo_in'[s] # NoBbo <=> since'[s] = 0
  BY <1>1, <1>2, AgesByOne
<1>4. /\ Distance(s) \in 0 .. STOCKS - 1
      /\ s # count => Distance(s)' = Distance(s) - 1 /\ Distance(s) >= 1
      /\ Distance(s)' \in 0 .. STOCKS - 1
  <2>1. count \in Stocks /\ count' \in Stocks
    BY <1>1, <1>2, TurnComesNearer DEF TypeOK
  <2> QED
    BY <1>1, <1>2, <2>1, TurnComesNearer DEF Distance, Stocks
<1>5. since[s] \in 0 .. SPACING
  BY <1>1 DEF TypeOK
<1>6. ASSUME owed'[s] # <<>>
      PROVE  since'[s] >= 1 /\ since'[s] + Distance(s)' <= STOCKS
  <2>1. CASE bbo_in[s] # NoBbo
    <3>1. since[s] = 0
      BY <1>1, <2>1 DEF InputIsFresh
    <3>2. since'[s] = 1
      BY <1>1, <1>2, <1>5, <3>1, AgesByOne
    <3> QED
      BY <1>4, <3>2
  <2>2. CASE bbo_in[s] = NoBbo
    <3>1. s # count /\ owed[s] # <<>>
      BY <1>6, <2>2, OneBook
    <3>2. since[s] >= 1 /\ since[s] + Distance(s) <= STOCKS
      BY <1>1, <3>1 DEF OwedIsYoung
    <3>3. since'[s] = since[s] + 1
      BY <1>1, <1>2, <1>4, <1>5, <3>1, <3>2, AgesByOne
    <3> QED
      BY <1>4, <1>5, <3>1, <3>2, <3>3
  <2> QED
    BY <2>1, <2>2
<1> QED
  BY <1>3, <1>6

LEMMA StepKeepsFifo == IInv /\ Next => FifoHoldsWhatIsOwed'
<1> SUFFICES ASSUME IInv, Next, NEW s \in Stocks
             PROVE  IF empty(s)' THEN owed'[s] = <<>>
                    ELSE /\ owed'[s] = <<fifo'[s][rd_ptr'[s]]>>
                         /\ wr_ptr'[s] = Succ(rd_ptr'[s])
  BY DEF FifoHoldsWhatIsOwed, Succ
<1>1. /\ wr_ptr[s] \in Pointers
      /\ rd_ptr[s] \in Pointers
      /\ fifo[s] \in [Pointers -> Bbos \cup {NoBbo}]
  BY DEF IInv, TypeOK
<1>2. IF empty(s) THEN owed[s] = <<>>
      ELSE owed[s] = <<fifo[s][rd_ptr[s]]>> /\ wr_ptr[s] = Succ(rd_ptr[s])
  BY DEF IInv, FifoHoldsWhatIsOwed
<1>3. Succ(rd_ptr[s]) # rd_ptr[s]
  BY <1>1, SuccIsAnother
<1>4. CASE bbo_in[s] # NoBbo
  <2>0. owed[s] = <<>>
    BY <1>4, OneBook
  <2>1. owed[s] = <<>> /\ empty(s)
    BY <1>2, <2>0
  <2>2. /\ owed'[s] = <<bbo_in[s]>>
        /\ rd_ptr'[s] = rd_ptr[s]
        /\ wr_ptr'[s] = Succ(wr_ptr[s])
        /\ fifo'[s] = [fifo[s] EXCEPT ![wr_ptr[s]] = bbo_in[s]]
    BY <1>4, <2>1, OneBook
  <2>3. wr_ptr[s] = rd_ptr[s]
    BY <2>1 DEF empty
  <2>4. fifo'[s][rd_ptr'[s]] = bbo_in[s]
    BY <1>1, <2>2, <2>3
  <2> QED
    BY <1>3, <2>2, <2>3, <2>4 DEF empty
<1>5. CASE bbo_in[s] = NoBbo
  <2>1. fifo'[s] = fifo[s] /\ wr_ptr'[s] = wr_ptr[s]
    BY <1>5, OneBook
  <2>2. CASE s = count
    <3>1. owed'[s] = <<>>
      BY <1>5, <2>2, OneBook
    <3>2. wr_ptr'[s] = rd_ptr'[s]
      BY <1>2, <2>1, <2>2, OneBook DEF empty
    <3> QED
      BY <3>1, <3>2 DEF empty
  <2>3. CASE s # count
    <3>1. owed'[s] = owed[s] /\ rd_ptr'[s] = rd_ptr[s]
      BY <1>5, <2>3, OneBook
    <3> QED
      BY <1>2, <2>1, <3>1 DEF empty
  <2> QED
    BY <2>2, <2>3
<1> QED
  BY <1>4, <1>5

LEMMA Inductive == IInv /\ [Next]_vars => IInv'
<1> SUFFICES ASSUME IInv, [Next]_vars PROVE IInv'
  OBVIOUS
<1>1. CASE Next
  BY <1>1, StepKeepsTypes, StepKeepsAges, StepKeepsFifo DEF IInv
<1>2. CASE UNCHANGED vars
  BY <1>2 DEF vars, IInv, TypeOK, InputIsFresh, OwedIsYoung, Distance,
              FifoHoldsWhatIsOwed, empty
<1> QED
  BY <1>1, <1>2

LEMMA AlwaysIInv == Spec => []IInv
<1>1. Init => IInv
  BY InitHolds
<1>2. IInv /\ [Next]_vars => IInv'
  BY Inductive
<1> QED
  BY <1>1, <1>2, PTL DEF Spec

-----------------------------------------------------------------------------
(* The pointers, ages and registers of order_book_top.sv keep their types. *)
THEOREM TypeCorrect == Spec => []TypeOK
<1>1. IInv => TypeOK
  BY DEF IInv
<1> QED
  BY <1>1, AlwaysIInv, PTL

(* No output FIFO ever holds more than one answer (order_book_top.sv:89),  *)
(* whatever its depth: nothing is overwritten or read twice.               *)
THEOREM FifosNeverFill == Spec => []FifoHoldsWhatIsOwed
<1>1. IInv => FifoHoldsWhatIsOwed
  BY DEF IInv
<1> QED
  BY <1>1, AlwaysIInv, PTL

(* Every answer leaves within one round of the counter                     *)
(* (order_book_top.sv:217-243).                                            *)
THEOREM OneRoundIsEnough == Spec => []ServedWithinARound
<1>1. IInv => ServedWithinARound
  <2> SUFFICES ASSUME IInv, NEW s \in Stocks, since[s] > STOCKS
               PROVE  owed[s] = <<>>
    BY DEF ServedWithinARound
  <2>1. count \in Stocks /\ since[s] \in 0 .. SPACING
    BY DEF IInv, TypeOK
  <2>2. Distance(s) >= 0
    BY <2>1, BboMuxAssumption DEF Distance, Stocks
  <2> QED
    BY <2>1, <2>2, BboMuxAssumption DEF IInv, OwedIsYoung, Distance, Stocks
<1> QED
  BY <1>1, AlwaysIInv, PTL

(* Each answer that is published is the oldest one its book is owed.       *)
THEOREM OldestFirst == Spec => PublishesOldest
<1>1. IInv /\ [Next]_vars =>
        [out' # NoBbo => /\ owed[out'.stock_id] # <<>>
                         /\ out'.bbo = Head(owed[out'.stock_id])]_vars
  <2> SUFFICES ASSUME IInv, Next, out' # NoBbo
               PROVE  /\ owed[out'.stock_id] # <<>>
                      /\ out'.bbo = Head(owed[out'.stock_id])
    OBVIOUS
  <2>1. Publish
    BY DEF Next, Pass
  <2>2. /\ out'.stock_id = count
        /\ out'.bbo = fifo[count][rd_ptr[count]]
        /\ ~empty(count)
    BY <2>1 DEF Publish
  <2>3. owed[count] = <<fifo[count][rd_ptr[count]]>>
    BY <2>2 DEF IInv, TypeOK, FifoHoldsWhatIsOwed
  <2> QED
    BY <2>2, <2>3
<1> QED
  BY <1>1, AlwaysIInv, PTL DEF Spec, PublishesOldest
=============================================================================
