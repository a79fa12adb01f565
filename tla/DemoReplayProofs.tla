--------------------------- MODULE DemoReplayProofs ---------------------------
(***************************************************************************)
(* Proofs about one or more replays of a capture on a board, for any       *)
(* capture and oracle, any prices and window, a counter of any width, a    *)
(* board that shows wrong answers, and time-outs anywhere.                 *)
(***************************************************************************)
EXTENDS DemoReplay, FiniteSetTheorems, WellFoundedInduction, SequenceTheorems, TLAPS

Tables == [Refs -> Order \cup {NoOrder}]
Mirrors == [Refs -> Shares \cup {NoOrder}]

(* What the mirror of a book should hold.                                  *)
MirrorOf(table) == [r \in Refs |-> IF Live(table, r) THEN table[r].shares ELSE NoOrder]

BookMessages == {m \in Messages : m.type \in BookTypes}

BoardTypes ==
  /\ file \in Seq(Messages)
  /\ source_messages \in Nat
  /\ wire \in Seq(BookMessages)
  /\ board \in [Symbols -> Tables]
  /\ rep_side \in [Symbols -> Sides]

Mirrored == active_orders = [s \in Symbols |-> MirrorOf(board[s])]

(* Between two messages nothing that is still on the wire will complete.   *)
AtRest ==
  /\ Mirrored
  /\ \A i \in 1 .. Len(wire) : ~Completes(wire[i])

(* One packet is waited for: it is the last of the wire, and the only one  *)
(* that will complete.                                                     *)
Pending ==
  /\ counter = counter_before
  /\ Mirrored
  /\ Len(wire) > 0
  /\ wire[Len(wire)] = plan
  /\ Completes(plan)
  /\ \A i \in 1 .. Len(wire) - 1 : ~Completes(wire[i])

(* The board has taken it: the mirror is one message behind.               *)
Completed ==
  /\ counter = completed_counter
  /\ wire = <<>>
  /\ shown.stock = plan.stock
  /\ [active_orders EXCEPT ![plan.stock] = Committed(plan, @)] =
       [s \in Symbols |-> MirrorOf(board[s])]

Synchronised ==
  phase = "replay" =>
    /\ pc \in {"setup", "read", "poll", "bid", "ask"}
    /\ pc = "setup" => active_orders = [s \in Symbols |-> [r \in Refs |-> NoOrder]]
    /\ pc = "read" => AtRest
    /\ pc \in {"poll", "bid", "ask"} => plan \in BookMessages
    /\ pc = "poll" => Pending \/ Completed
    /\ pc \in {"bid", "ask"} => Completed
    /\ pc = "ask" => bid_half.stock = plan.stock

MInv == BoardTypes /\ Synchronised /\ CounterNeverSurprises

-----------------------------------------------------------------------------
(* The messages.                                                           *)

LEMMA MessageFields ==
  ASSUME NEW m \in Messages
  PROVE  /\ m.type \in {"R"} \cup BookTypes => m.stock \in Symbols
         /\ m.type \in BookTypes => m.ref \in Refs
         /\ m.type \in {"A", "X", "U"} => m.shares \in Shares
         /\ m.type \in PricedTypes => m.price \in Prices /\ Cents(m.price) \in Prices
         /\ m.type = "A" => m.side \in Sides
         /\ m.type = "U" => m.new_ref \in Refs
BY ReplayAssumption DEF MessageRecords, BookTypes, PricedTypes

(* What a message makes of a table, and of the mirror of that table.       *)
LEMMA AppliedToTable ==
  ASSUME NEW m \in BookMessages, NEW table \in Tables, NEW side \in Sides,
         m.type \in {"X", "D"} => Live(table, m.ref)
  PROVE  /\ Applied(table, m, Cents(PriceOf(m)), side) \in Tables
         /\ MirrorOf(Applied(table, m, Cents(PriceOf(m)), side)) =
              Committed(m, MirrorOf(table))
<1> DEFINE price == Cents(PriceOf(m))
<1>1. /\ m.ref \in Refs
      /\ m.type \in {"A", "X", "U"} => m.shares \in Shares
      /\ m.type \in PricedTypes => price \in Prices
      /\ m.type = "A" => m.side \in Sides
      /\ m.type = "U" => m.new_ref \in Refs
  BY MessageFields DEF BookMessages, PriceOf
<1>2. m.type \in BookTypes /\ NoOrder \notin Order
  BY LimitOrdersAssumption DEF BookMessages
<1> HIDE DEF price
<1>3. CASE m.type = "A"
  <2>1. [side |-> m.side, price |-> price, shares |-> m.shares] \in Order
    BY <1>1, <1>3 DEF Order, PricedTypes
  <2>2. Applied(table, m, price, side) =
          [table EXCEPT ![m.ref] = [side |-> m.side, price |-> price, shares |-> m.shares]]
    BY <1>3 DEF Applied
  <2>3. Committed(m, MirrorOf(table)) = [MirrorOf(table) EXCEPT ![m.ref] = m.shares]
    BY <1>3 DEF Committed
  <2> QED BY <1>1, <1>2, <2>1, <2>2, <2>3 DEF MirrorOf, Live, Tables, price
<1>4. CASE m.type = "D"
  <2>1. Applied(table, m, price, side) = [table EXCEPT ![m.ref] = NoOrder]
    BY <1>4 DEF Applied
  <2>2. Committed(m, MirrorOf(table)) = [MirrorOf(table) EXCEPT ![m.ref] = NoOrder]
    BY <1>4 DEF Committed
  <2> QED BY <1>1, <1>2, <2>1, <2>2 DEF MirrorOf, Live, Tables, price
<1>5. CASE m.type = "X"
  <2> DEFINE old == table[m.ref]
             left == Reduced(old, m.shares)
  <2>1. old \in Order
    BY <1>1, <1>5 DEF Live, Tables
  <2>2. /\ left \in Order \cup {NoOrder}
        /\ (IF left # NoOrder THEN left.shares ELSE NoOrder) =
             IF old.shares - m.shares <= 0 THEN NoOrder ELSE old.shares - m.shares
    BY <1>1, <1>2, <1>5, <2>1, LimitOrdersAssumption DEF Reduced, Order, Shares
  <2>3. Applied(table, m, price, side) = [table EXCEPT ![m.ref] = left]
    BY <1>5 DEF Applied
  <2>4. /\ Committed(m, MirrorOf(table)) =
             [MirrorOf(table) EXCEPT ![m.ref] =
                IF @ - m.shares <= 0 THEN NoOrder ELSE @ - m.shares]
        /\ MirrorOf(table)[m.ref] = old.shares
    BY <1>1, <1>2, <1>5, <2>1 DEF Committed, MirrorOf, Live
  <2> HIDE DEF left
  <2> QED BY <1>1, <2>2, <2>3, <2>4 DEF MirrorOf, Live, Tables, price
<1>6. CASE m.type = "U"
  <2> DEFINE new == [side |-> side, price |-> price, shares |-> m.shares]
  <2>1. new \in Order /\ new.shares = m.shares
    BY <1>1, <1>6 DEF Order, PricedTypes
  <2>2. Applied(table, m, price, side) =
          [table EXCEPT ![m.ref] = NoOrder, ![m.new_ref] = new]
    BY <1>6 DEF Applied
  <2>3. Committed(m, MirrorOf(table)) =
          [MirrorOf(table) EXCEPT ![m.ref] = NoOrder, ![m.new_ref] = m.shares]
    BY <1>6 DEF Committed
  <2> HIDE DEF new
  <2> QED BY <1>1, <1>2, <1>6, <2>1, <2>2, <2>3 DEF MirrorOf, Live, Tables, price
<1> QED BY <1>2, <1>3, <1>4, <1>5, <1>6 DEF BookTypes

-----------------------------------------------------------------------------
(* The board.                                                              *)

LEMMA WorkKeepsTypes ==
  ASSUME BoardTypes, NEW m \in BookMessages, NEW bbo, Completes(m), Work(m, bbo)
  PROVE  /\ board' \in [Symbols -> Tables]
         /\ rep_side' \in [Symbols -> Sides]
         /\ m.stock \in Symbols
         /\ [s \in Symbols |-> MirrorOf(board'[s])] =
              [[s \in Symbols |-> MirrorOf(board[s])]
                 EXCEPT ![m.stock] = Committed(m, @)]
<1> DEFINE s == m.stock
           table == board[s]
           side == IF m.type = "U" /\ Live(table, m.ref) THEN table[m.ref].side
                   ELSE rep_side[s]
           after == Applied(table, m, Cents(PriceOf(m)), side)
<1>1. s \in Symbols /\ m.ref \in Refs
  BY MessageFields DEF BookMessages
<1>2. table \in Tables /\ rep_side[s] \in Sides
  BY <1>1 DEF BoardTypes
<1>3. side \in Sides
  BY <1>1, <1>2 DEF Tables, Live, Order
<1>4. m.type \in {"X", "D"} => Live(table, m.ref)
  BY DEF Completes
<1> HIDE DEF side, table
<1>5. after \in Tables /\ MirrorOf(after) = Committed(m, MirrorOf(table))
  BY <1>2, <1>3, <1>4, AppliedToTable
<1>6. /\ board' = [board EXCEPT ![s] = after]
      /\ rep_side' = [rep_side EXCEPT ![s] = IF m.type = "U" THEN side ELSE @]
  BY DEF Work, AfterOnBoard, side, table
<1> HIDE DEF after
<1>7. board' \in [Symbols -> Tables] /\ rep_side' \in [Symbols -> Sides]
  BY <1>1, <1>2, <1>3, <1>5, <1>6 DEF BoardTypes
<1>8. [r \in Symbols |-> MirrorOf(board'[r])] =
        [[r \in Symbols |-> MirrorOf(board[r])] EXCEPT ![s] = Committed(m, @)]
  BY <1>1, <1>5, <1>6 DEF BoardTypes, table
<1> QED BY <1>1, <1>7, <1>8

(* A packet is worked off with some answer, or it changes nothing.         *)
LEMMA BoardTakesOne ==
  ASSUME BoardTypes, Board \/ FaultyBoard
  PROVE  /\ wire # <<>> /\ Head(wire) \in BookMessages
         /\ wire' = Tail(wire) /\ wire' \in Seq(BookMessages)
         /\ Len(wire) > 0 /\ Len(wire') = Len(wire) - 1
         /\ Head(wire) = wire[1]
         /\ \A i \in 1 .. Len(wire') : wire'[i] = wire[i + 1]
         /\ \/ Completes(Head(wire)) /\ \E bbo : Work(Head(wire), bbo)
            \/ ~Completes(Head(wire)) /\ UNCHANGED <<board, rep_side, counter, shown>>
         /\ UNCHANGED <<scenario, phase, generator, program>>
<1>1. wire # <<>> /\ wire' = Tail(wire) /\ UNCHANGED <<scenario, phase, generator, program>>
  BY DEF Board, FaultyBoard
<1>2. \/ Completes(Head(wire)) /\ \E bbo : Work(Head(wire), bbo)
      \/ ~Completes(Head(wire)) /\ UNCHANGED <<board, rep_side, counter, shown>>
  <2>1. CASE Board
    <3>1. CASE Completes(Head(wire))
      <4>1. Work(Head(wire), Registers(BboOf(AfterOnBoard(Head(wire)))))
        BY <2>1, <3>1 DEF Board
      <4> QED BY <3>1, <4>1
    <3>2. CASE ~Completes(Head(wire))
      BY <2>1, <3>2 DEF Board
    <3> QED BY <3>1, <3>2
  <2>2. CASE FaultyBoard
    BY <2>2 DEF FaultyBoard
  <2> QED BY <2>1, <2>2
<1> HIDE DEF Completes, Work
<1>3. /\ Head(wire) \in BookMessages /\ wire' \in Seq(BookMessages)
      /\ Len(wire) > 0 /\ Len(wire') = Len(wire) - 1
      /\ Head(wire) = wire[1]
      /\ \A i \in 1 .. Len(wire') : wire'[i] = wire[i + 1]
  BY <1>1 DEF BoardTypes
<1> QED BY <1>1, <1>2, <1>3

LEMMA MInvBoard ==
  ASSUME MInv, Board \/ FaultyBoard PROVE MInv'
<1> USE DEF MInv
<1>1. /\ Head(wire) \in BookMessages
      /\ wire' \in Seq(BookMessages)
      /\ Len(wire) \in Nat /\ Len(wire) > 0 /\ Len(wire') = Len(wire) - 1
      /\ Head(wire) = wire[1]
      /\ \A i \in 1 .. Len(wire') : wire'[i] = wire[i + 1]
      /\ UNCHANGED <<scenario, phase, generator, program>>
  BY BoardTakesOne, LenProperties DEF BoardTypes
<1>2. CASE ~Completes(Head(wire)) /\ UNCHANGED <<board, rep_side, counter, shown>>
  <2>1. BoardTypes'
    BY <1>1, <1>2 DEF BoardTypes, generator, program
  <2>2. \A m : Completes(m)' <=> Completes(m)
    BY <1>2 DEF Completes
  <2>3. AtRest => AtRest'
    BY <1>1, <1>2, <2>2 DEF AtRest, Mirrored, program
  <2>4. Pending => Pending'
    <3> SUFFICES ASSUME Pending PROVE Pending'
      OBVIOUS
    <3>1. Len(wire) > 1
      BY <1>1, <1>2 DEF Pending
    <3>2. wire'[Len(wire')] = plan' /\ Len(wire') > 0
      BY <1>1, <3>1 DEF Pending, program
    <3>3. \A i \in 1 .. Len(wire') - 1 : ~Completes(wire'[i])
      BY <1>1 DEF Pending
    <3>4. (\A i \in 1 .. Len(wire) - 1 : ~Completes(wire[i]))'
      BY <1>2, <3>3 DEF Completes
    <3>5. Completes(plan)'
      BY <1>1, <2>2 DEF Pending, program
    <3> QED BY <1>1, <1>2, <3>2, <3>4, <3>5 DEF Pending, Mirrored, program
  <2>5. ~Completed
    BY <1>1 DEF Completed
  <2>6. Synchronised'
    BY <1>1, <1>2, <2>3, <2>4, <2>5 DEF Synchronised, program
  <2> QED BY <1>1, <2>1, <2>6 DEF CounterNeverSurprises
<1>3. CASE Completes(Head(wire)) /\ \E bbo : Work(Head(wire), bbo)
  <2> DEFINE m == Head(wire)
  <2>1. PICK bbo : Work(m, bbo)
    BY <1>3
  <2>2. /\ board' \in [Symbols -> Tables]
        /\ rep_side' \in [Symbols -> Sides]
        /\ [s \in Symbols |-> MirrorOf(board'[s])] =
             [[s \in Symbols |-> MirrorOf(board[s])] EXCEPT ![m.stock] = Committed(m, @)]
    BY <1>1, <1>3, <2>1, WorkKeepsTypes
  <2>3. counter' = (counter + 1) % COUNTER_MOD /\ shown'.stock = m.stock
    BY <2>1 DEF Work
  <2>4. BoardTypes'
    BY <1>1, <2>2 DEF BoardTypes, generator, program
  <2>5. ~AtRest
    BY <1>1, <1>3 DEF AtRest
  <2>6. ~Completed
    BY <1>1 DEF Completed
  <2>7. Pending => Completed'
    <3> SUFFICES ASSUME Pending PROVE Completed'
      OBVIOUS
    <3>1. Len(wire) = 1 /\ m = plan
      BY <1>1, <1>3 DEF Pending
    <3>2. wire' = <<>>
      BY <1>1, <3>1
    <3>3. counter' = completed_counter'
      BY <1>1, <2>3 DEF Pending, completed_counter, program
    <3>4. shown'.stock = plan'.stock
      BY <1>1, <2>3, <3>1 DEF program
    <3>5. [active_orders EXCEPT ![plan.stock] = Committed(plan, @)]' =
            [s \in Symbols |-> MirrorOf(board'[s])]
      <4>1. active_orders' = active_orders /\ plan' = plan
        BY <1>1 DEF program
      <4>2. active_orders = [s \in Symbols |-> MirrorOf(board[s])]
        BY DEF Pending, Mirrored
      <4>3. Committed(plan, active_orders[plan.stock])' = Committed(plan, active_orders[plan.stock])
        BY <4>1 DEF Committed
      <4> QED BY <2>2, <3>1, <4>1, <4>2, <4>3
    <3> QED BY <3>2, <3>3, <3>4, <3>5 DEF Completed
  <2>8. Synchronised'
    BY <1>1, <2>5, <2>6, <2>7 DEF Synchronised, program
  <2> QED BY <1>1, <2>4, <2>8 DEF CounterNeverSurprises
<1> QED BY <1>2, <1>3, BoardTakesOne

-----------------------------------------------------------------------------
(* The program.                                                            *)

(* With a mirror that is right, what will complete is known beforehand.    *)
LEMMA ExpectedIsWhatCompletes ==
  ASSUME BoardTypes, Mirrored, NEW m \in Messages
  PROVE  ExpectBbo(m) <=> Completes(m)
<1>1. CASE m.type \in {"X", "D"}
  <2>1. m.stock \in Symbols /\ m.ref \in Refs
    BY <1>1, MessageFields DEF BookTypes
  <2>2. board[m.stock][m.ref] \in Order \cup {NoOrder}
    BY <2>1 DEF BoardTypes, Tables
  <2>3. Live(board[m.stock], m.ref) <=> active_orders[m.stock][m.ref] # NoOrder
    BY <2>1, <2>2, ReplayAssumption, LimitOrdersAssumption DEF Mirrored, MirrorOf, Live, Order
  <2> QED BY <1>1, <2>3 DEF ExpectBbo, Completes
<1>2. CASE m.type \notin {"X", "D"}
  BY <1>2 DEF ExpectBbo, Completes
<1> QED BY <1>1, <1>2

LEMMA MInvReady ==
  ASSUME MInv, Ready PROVE MInv'
<1>1. BoardTypes'
  <2>1. \A s \in Symbols : [r \in Refs |-> NoOrder] \in Tables
    BY DEF Tables
  <2>2. "SELL" \in Sides
    BY DEF Sides
  <2> QED BY <2>1, <2>2 DEF MInv, BoardTypes, Ready, generator
<1>2. MirrorOf([r \in Refs |-> NoOrder]) = [r \in Refs |-> NoOrder]
  BY DEF MirrorOf, Live
<1>3. AtRest'
  <2>1. active_orders' = [s \in Symbols |-> [r \in Refs |-> NoOrder]]
    BY DEF MInv, Synchronised, Ready
  <2>2. board' = [s \in Symbols |-> [r \in Refs |-> NoOrder]] /\ wire' = <<>>
    BY DEF Ready
  <2>3. Mirrored'
    BY <1>2, <2>1, <2>2 DEF Mirrored
  <2>4. 1 .. Len(wire') = {}
    BY <2>2
  <2> QED BY <2>3, <2>4 DEF AtRest
<1> QED BY <1>1, <1>3 DEF MInv, Synchronised, CounterNeverSurprises, Ready

LEMMA MInvReadMessage ==
  ASSUME MInv, ReadMessage PROVE MInv'
<1> DEFINE m == file[source_messages + 1]
           stocks == IF m.type = "R" THEN mapped \cup {m.stock} ELSE mapped
           sent == Kept(m, stocks) /\ m.type \in BookTypes
           awaited == Kept(m, stocks) /\ ExpectBbo(m)
<1>1. /\ BoardTypes /\ AtRest /\ phase = "replay" /\ pc = "read"
      /\ source_messages < Len(file)
  BY DEF MInv, Synchronised, ReadMessage
<1>2. m \in Messages
  BY <1>1 DEF BoardTypes
<1>3. /\ source_messages' = source_messages + 1
      /\ wire' = IF sent THEN Append(wire, m) ELSE wire
      /\ IF awaited THEN pc' = "poll" /\ plan' = m /\ counter_before' = counter
         ELSE UNCHANGED <<pc, plan, counter_before>>
      /\ UNCHANGED <<phase, file, active_orders, board, rep_side, counter>>
  BY DEF ReadMessage, generator
<1>4. ExpectBbo(m) <=> Completes(m)
  BY <1>1, <1>2, ExpectedIsWhatCompletes DEF AtRest
<1>5. Completes(m) => m.type \in BookTypes
  BY DEF Completes
<1>6. \A n : Completes(n)' <=> Completes(n)
  BY <1>3 DEF Completes
<1>7. sent => m \in BookMessages
  BY <1>2 DEF BookMessages
<1> HIDE DEF m, sent, awaited
<1>8. BoardTypes'
  <2>1. wire' \in Seq(BookMessages)
    BY <1>1, <1>3, <1>7 DEF BoardTypes
  <2> QED BY <1>1, <1>3, <2>1 DEF BoardTypes
<1>9. wire \in Seq(BookMessages) /\ Len(wire) \in Nat
  BY <1>1, LenProperties DEF BoardTypes
<1>10. Mirrored'
  BY <1>1, <1>3 DEF AtRest, Mirrored
<1>11. awaited => sent /\ Completes(m) /\ m \in BookMessages
  BY <1>4, <1>5, <1>7 DEF awaited, sent
<1>12. CASE awaited
  <2>1. wire' = Append(wire, m)
    BY <1>3, <1>11, <1>12
  <2>2. Len(wire') = Len(wire) + 1 /\ wire'[Len(wire')] = m
    BY <1>9, <2>1
  <2>3. \A i \in 1 .. Len(wire') - 1 : wire'[i] = wire[i]
    BY <1>9, <2>1
  <2>4. \A i \in 1 .. Len(wire') - 1 : ~Completes(wire'[i])
    BY <1>1, <1>9, <2>2, <2>3 DEF AtRest
  <2>5. Pending'
    <3>1. plan' = m /\ counter' = counter_before' /\ board' = board
      BY <1>3, <1>12
    <3>2. (Completes(plan))'
      BY <1>11, <1>12, <3>1 DEF Completes
    <3>3. (\A i \in 1 .. Len(wire) - 1 : ~Completes(wire[i]))'
      BY <2>4, <3>1 DEF Completes
    <3> QED BY <1>9, <1>10, <2>2, <3>1, <3>2, <3>3 DEF Pending
  <2>6. Synchronised'
    BY <1>1, <1>3, <1>11, <1>12, <2>5 DEF Synchronised
  <2> QED BY <1>3, <1>8, <2>6 DEF MInv, CounterNeverSurprises
<1>13. CASE ~awaited
  <2>1. sent => ~Completes(m)
    BY <1>4, <1>13 DEF sent, awaited
  <2>2. \A i \in 1 .. Len(wire') : ~Completes(wire'[i])
    BY <1>1, <1>3, <1>9, <2>1 DEF AtRest
  <2>3. (\A i \in 1 .. Len(wire) : ~Completes(wire[i]))'
    BY <1>3, <2>2 DEF Completes
  <2>4. AtRest'
    BY <1>10, <2>3 DEF AtRest
  <2>5. Synchronised'
    BY <1>1, <1>3, <1>13, <2>4 DEF Synchronised
  <2> QED BY <1>3, <1>8, <2>5 DEF MInv, CounterNeverSurprises
<1> QED BY <1>12, <1>13

(* While an answer is read the board has nothing left to do.               *)
LEMMA MInvCapture ==
  ASSUME MInv, PollCounter \/ ReadBid \/ ReadAsk PROVE MInv'
<1>1. phase = "replay" /\ pc \in {"poll", "bid", "ask"} /\ BoardTypes
  BY DEF MInv, PollCounter, ReadBid, ReadAsk
<1>2. plan \in BookMessages /\ Completed
  <2>1. pc = "poll" => counter # counter_before
    BY DEF PollCounter, ReadBid, ReadAsk
  <2> QED BY <1>1, <2>1 DEF MInv, Synchronised, Pending
<1>3. counter = completed_counter /\ wire = <<>> /\ shown.stock = plan.stock
  BY <1>2 DEF Completed
<1>4. UNCHANGED <<file, source_messages, wire, board, rep_side, counter, shown, phase>>
  <2>1. CASE PollCounter
    BY <1>3, <2>1 DEF PollCounter, generator, hardware
  <2>2. CASE ReadBid
    BY <1>3, <2>2 DEF ReadBid, generator, hardware
  <2>3. CASE ReadAsk
    BY <1>3, <2>3 DEF ReadAsk, Publish, generator, hardware
  <2> QED BY <2>1, <2>2, <2>3
<1>5. BoardTypes'
  BY <1>1, <1>4 DEF BoardTypes
<1>6. CASE UNCHANGED <<plan, active_orders, counter_before>> /\ pc' = "bid"
  <2>1. Completed'
    BY <1>2, <1>4, <1>6 DEF Completed, completed_counter, Committed
  <2>2. Synchronised'
    BY <1>2, <1>4, <1>6, <2>1 DEF Synchronised
  <2> QED BY <1>1, <1>4, <1>5, <2>2 DEF MInv, CounterNeverSurprises
<1>7. CASE PollCounter
  BY <1>3, <1>6, <1>7 DEF PollCounter
<1>8. CASE ReadBid
  <2>1. pc' = "ask" /\ UNCHANGED <<plan, active_orders, counter_before>>
    BY <1>3, <1>8 DEF ReadBid
  <2>2. bid_half'.stock = plan'.stock
    BY <1>3, <1>8, <2>1 DEF ReadBid
  <2>3. Completed'
    BY <1>2, <1>4, <2>1 DEF Completed, completed_counter, Committed
  <2>4. Synchronised'
    BY <1>2, <1>4, <2>1, <2>2, <2>3 DEF Synchronised
  <2> QED BY <1>1, <1>4, <1>5, <2>4 DEF MInv, CounterNeverSurprises
<1>9. CASE ReadAsk
  <2>1. CASE pc' = "bid" /\ UNCHANGED <<plan, active_orders, counter_before>>
    BY <1>6, <2>1
  <2>2. CASE \E snapshot : Publish(snapshot)
    <3>1. /\ active_orders' = [active_orders EXCEPT ![plan.stock] = Committed(plan, @)]
          /\ pc' = "read"
      BY <2>2 DEF Publish
    <3>2. Mirrored'
      BY <1>2, <1>4, <3>1 DEF Completed, Mirrored
    <3>3. wire' = <<>>
      BY <1>3, <1>4
    <3>4. 1 .. Len(wire') = {}
      BY <3>3
    <3>5. AtRest'
      BY <3>2, <3>4 DEF AtRest
    <3>6. Synchronised'
      BY <3>1, <3>5 DEF Synchronised
    <3> QED BY <1>1, <1>4, <1>5, <3>6 DEF MInv, CounterNeverSurprises
  <2> QED BY <1>3, <1>9, <2>1, <2>2 DEF ReadAsk
<1> QED BY <1>7, <1>8, <1>9

(* A step that ends the replay, or is none of it.                          *)
LEMMA MInvOutside ==
  ASSUME MInv, UNCHANGED <<source_messages, wire, board, rep_side>>,
         file' \in Seq(Messages), phase' \notin {"replay", "counter advanced by more than one",
                                                 "counter advanced again"}
  PROVE  MInv'
BY DEF MInv, BoardTypes, Synchronised, CounterNeverSurprises

LEMMA MInvStep == MInv /\ [Next]_vars => MInv'
<1> SUFFICES ASSUME MInv, [Next]_vars PROVE MInv'
  OBVIOUS
<1>0. file \in Seq(Messages)
  BY DEF MInv, BoardTypes
<1>1. ASSUME NEW m \in Messages, Generate(m) PROVE MInv'
  <2>1. /\ phase' = "generate"
        /\ file' \in Seq(Messages)
        /\ UNCHANGED <<source_messages, wire, board, rep_side>>
    BY <1>0, <1>1 DEF Generate, program, hardware
  <2> QED BY <2>1, MInvOutside
<1>2. CASE WriteOracle
  BY <1>0, <1>2, MInvOutside DEF WriteOracle, program, hardware
<1>3. CASE Begin
  <2>1. /\ UNCHANGED <<file, wire, board, rep_side>> /\ source_messages' = 0
        /\ phase' = "replay" /\ pc' = "setup"
        /\ active_orders' = [s \in Symbols |-> [r \in Refs |-> NoOrder]]
    BY <1>3 DEF Begin, generator, hardware
  <2> QED BY <2>1 DEF MInv, BoardTypes, Synchronised, CounterNeverSurprises
<1>4. CASE Board \/ FaultyBoard
  BY <1>4, MInvBoard
<1>5. CASE Ready
  BY <1>5, MInvReady
<1>6. CASE ReadMessage
  BY <1>6, MInvReadMessage
<1>7. CASE PollCounter \/ ReadBid \/ ReadAsk
  BY <1>7, MInvCapture
<1>8. CASE Finish
  <2>1. /\ phase' \in {"done", "stock not mapped"}
        /\ UNCHANGED <<file, source_messages, wire, board, rep_side>>
    BY <1>8 DEF Finish, generator, hardware
  <2> QED BY <1>0, <2>1, MInvOutside
<1>9. CASE SetupFails \/ Timeout
  <2>1. /\ phase' \in {"setup failed", "timeout"}
        /\ UNCHANGED <<file, source_messages, wire, board, rep_side>>
    BY <1>9 DEF SetupFails, Timeout, Fail, generator, program, hardware
  <2> QED BY <1>0, <2>1, MInvOutside
<1>10. CASE UNCHANGED vars
  <2>1. /\ UNCHANGED <<phase, file, source_messages, wire, board, rep_side, counter, shown>>
        /\ UNCHANGED <<pc, plan, active_orders, counter_before, bid_half>>
    BY <1>10 DEF vars, generator, program, hardware
  <2>2. BoardTypes'
    BY <2>1 DEF MInv, BoardTypes
  <2>3. /\ Mirrored' = Mirrored
        /\ AtRest' = AtRest
        /\ Pending' = Pending
        /\ Completed' = Completed
    BY <2>1 DEF Mirrored, AtRest, Pending, Completed, Completes, Committed, completed_counter
  <2> QED BY <2>1, <2>2, <2>3 DEF MInv, Synchronised, CounterNeverSurprises
<1> QED BY <1>1, <1>2, <1>3, <1>4, <1>5, <1>6, <1>7, <1>8, <1>9, <1>10 DEF Next, Replay

LEMMA MInvInit == Init => MInv
<1> SUFFICES ASSUME Init PROVE MInv
  OBVIOUS
<1>1. [r \in Refs |-> NoOrder] \in Tables /\ "SELL" \in Sides
  BY DEF Tables, Sides
<1> QED BY <1>1 DEF Init, MInv, BoardTypes, Synchronised, CounterNeverSurprises

LEMMA MInvImplies == MInv => MirrorTracksBoard /\ NeverWaitsInVain /\ CounterNeverSurprises
<1> SUFFICES ASSUME MInv PROVE MirrorTracksBoard /\ NeverWaitsInVain
  BY DEF MInv
<1>1. MirrorTracksBoard
  BY DEF MInv, Synchronised, AtRest, Mirrored, MirrorOf, MirrorTracksBoard
<1>2. wire = <<>> => ~Pending
  BY DEF Pending
<1>3. NeverWaitsInVain
  BY <1>2 DEF MInv, Synchronised, Completed, NeverWaitsInVain
<1> QED BY <1>1, <1>3

LEMMA MInvHolds == Spec => []MInv
BY MInvInit, MInvStep, PTL DEF Spec

(* Between two messages the mirror of live orders is what the board holds, *)
(* although it is kept from predictions alone: dropped, stray and rejected *)
(* messages included (hardware.py:207).                                    *)
THEOREM MirrorIsRight == Spec => []MirrorTracksBoard
BY MInvHolds, MInvImplies, PTL

(* A completion that is waited for comes: when the wire is empty the       *)
(* counter has moved (hardware.py:195).                                    *)
THEOREM WaitsAreAnswered == Spec => []NeverWaitsInVain
BY MInvHolds, MInvImplies, PTL

(* The two checks of the counter never fire: every completion was foreseen *)
(* and is that of the packet just sent (hardware.py:363, :381).            *)
THEOREM CompletionsAreForeseen == Spec => []CounterNeverSurprises
BY MInvHolds, MInvImplies, PTL

-----------------------------------------------------------------------------
(* The comparison.                                                         *)

NatLess == {pair \in Nat \X Nat : pair[1] < pair[2]}

LEMMA LeastNatural ==
  ASSUME NEW S, S \subseteq Nat, S # {}
  PROVE  \E least \in S : \A n \in S : least <= n
<1>1. IsWellFoundedOn(NatLess, Nat)
  <2>1. NatLess = OpToRel(<, Nat)
    BY DEF OpToRel, NatLess
  <2> QED BY <2>1, NatLessThanWellFounded
<1>2. PICK least \in S : \A n \in S : ~(<<n, least>> \in NatLess)
  BY <1>1, WFMin
<1>3. ASSUME NEW n \in S PROVE least <= n
  <2>1. n \in Nat /\ least \in Nat
    OBVIOUS
  <2>2. n < least => <<n, least>> \in NatLess
    BY <2>1 DEF NatLess
  <2> QED BY <1>2, <2>1, <2>2
<1> QED BY <1>3

IsSequence(q) == \E S : q \in Seq(S)

LEMMA SequenceLength ==
  ASSUME NEW q, IsSequence(q) PROVE Len(q) \in Nat /\ DOMAIN q = 1 .. Len(q)
BY LenProperties DEF IsSequence

LEMMA AppendToSequence ==
  ASSUME NEW q, IsSequence(q), NEW x
  PROVE  /\ IsSequence(Append(q, x))
         /\ Len(Append(q, x)) = Len(q) + 1
         /\ \A i \in 1 .. Len(q) : Append(q, x)[i] = q[i]
         /\ Append(q, x)[Len(q) + 1] = x
<1>1. PICK S : q \in Seq(S)
  BY DEF IsSequence
<1> DEFINE T == S \cup {x}
<1>2. q \in Seq(T) /\ x \in T
  BY <1>1, SeqMonotonic
<1> HIDE DEF T
<1>3. Append(q, x) \in Seq(T)
  BY <1>2
<1>4. /\ Len(Append(q, x)) = Len(q) + 1
      /\ \A i \in 1 .. Len(q) : Append(q, x)[i] = q[i]
      /\ Append(q, x)[Len(q) + 1] = x
  BY <1>2, AppendProperties
<1> QED BY <1>3, <1>4 DEF IsSequence

LEMMA SequencesEqual ==
  ASSUME NEW q, NEW r, IsSequence(q), IsSequence(r), Len(q) = Len(r),
         \A i \in 1 .. Len(q) : q[i] = r[i]
  PROVE  q = r
<1>1. PICK S : q \in Seq(S)
  BY DEF IsSequence
<1>2. PICK T : r \in Seq(T)
  BY DEF IsSequence
<1> DEFINE U == S \cup T
<1>3. q \in Seq(U) /\ r \in Seq(U)
  BY <1>1, <1>2, SeqMonotonic
<1> HIDE DEF U
<1> QED BY <1>3, SeqEqual

Reports == {NoMismatch} \cup UpdateMismatch \cup SummaryMismatch
Flags == BOOLEAN

Verifiers ==
  [positions : [Symbols -> Nat],
   observed_positions : [Symbols -> Nat],
   comparisons : Nat,
   mismatches : Nat,
   latched_fail : Flags,
   first_mismatch : Reports]

(* The position after an update and what was counted: the update was the   *)
(* next entry, or a later one, the first of its kind, or neither.          *)
Matched(stream, p, q, actual) ==
  q = p + 1 /\ q <= Len(stream) /\ stream[q] = actual

Skipped(stream, p, q, actual) ==
  /\ q \in p + 2 .. Len(stream)
  /\ stream[q] = actual
  /\ \A i \in p + 1 .. q - 1 : stream[i] # actual

Unexpected(stream, p, q, actual) ==
  q = p /\ \A i \in p + 1 .. Len(stream) : stream[i] # actual

LEMMA LatchKeeps ==
  ASSUME NEW v \in Verifiers, NEW count \in Nat \ {0},
         NEW mismatch \in UpdateMismatch \cup SummaryMismatch
  PROVE  /\ Latch(v, count, mismatch) \in Verifiers
         /\ Latch(v, count, mismatch).positions = v.positions
         /\ Latch(v, count, mismatch).observed_positions = v.observed_positions
         /\ Latch(v, count, mismatch).comparisons = v.comparisons
         /\ Latch(v, count, mismatch).mismatches = v.mismatches + count
         /\ Latch(v, count, mismatch).latched_fail = TRUE
         /\ Latch(v, count, mismatch).first_mismatch # NoMismatch
<1> DEFINE next == Latch(v, count, mismatch)
           first == IF v.first_mismatch = NoMismatch THEN mismatch ELSE v.first_mismatch
<1>1. v.mismatches \in Nat /\ v.first_mismatch \in Reports /\ mismatch \in Reports
  BY DEF Verifiers, Reports
<1>2. first \in Reports
  BY <1>1
<1>3. next = [v EXCEPT !.mismatches = v.mismatches + count, !.latched_fail = TRUE,
                       !.first_mismatch = first]
  BY DEF Latch
<1>4. v.mismatches + count \in Nat
  BY <1>1
<1>7. first # NoMismatch
  BY VerifierAssumption
<1> HIDE DEF first, next
<1>5. next \in Verifiers
  <2>1. TRUE \in Flags
    BY DEF Flags
  <2> QED BY <1>2, <1>3, <1>4, <2>1 DEF Verifiers
<1>6. /\ next.positions = v.positions
      /\ next.observed_positions = v.observed_positions
      /\ next.comparisons = v.comparisons
      /\ next.mismatches = v.mismatches + count
      /\ next.latched_fail = TRUE
      /\ next.first_mismatch = first
  BY <1>3, Zenon DEF Verifiers
<1> QED BY <1>5, <1>6, <1>7 DEF next

LEMMA ResynchronisedIsFirst ==
  ASSUME NEW stream, IsSequence(stream), NEW at \in Nat, NEW actual
  PROVE  LET found == Resynchronised(stream, at, actual) IN
         \/ found = at /\ \A i \in at + 1 .. Len(stream) : stream[i] # actual
         \/ /\ found \in at + 1 .. Len(stream)
            /\ stream[found] = actual
            /\ \A i \in at + 1 .. found - 1 : stream[i] # actual
<1> DEFINE later == {i \in at + 1 .. Len(stream) : stream[i] = actual}
<1>1. Resynchronised(stream, at, actual) = IF later = {} THEN at ELSE Min(later)
  BY DEF Resynchronised
<1>2. Len(stream) \in Nat
  BY SequenceLength
<1> DEFINE found == Resynchronised(stream, at, actual)
<1>3. CASE later = {}
  <2>1. found = at
    BY <1>1, <1>3
  <2>2. \A i \in at + 1 .. Len(stream) : stream[i] # actual
    BY <1>3
  <2> QED BY <2>1, <2>2
<1>4. CASE later # {}
  <2>1. later \subseteq Nat
    BY <1>2
  <2>2. \E least \in later : \A n \in later : least <= n
    <3> HIDE DEF later
    <3> QED BY <1>4, <2>1, LeastNatural
  <2>3. Min(later) \in later /\ \A n \in later : Min(later) <= n
    <3> HIDE DEF later
    <3> QED BY <2>2 DEF Min
  <2> DEFINE m == Min(later)
  <2> HIDE DEF m
  <2>4. m \in at + 1 .. Len(stream) /\ stream[m] = actual
    BY <2>3 DEF m
  <2>5. ASSUME NEW i \in at + 1 .. m - 1, stream[i] = actual PROVE FALSE
    <3>1. i \in later
      BY <1>2, <2>4, <2>5
    <3>2. m <= i
      BY <2>3, <3>1 DEF m
    <3> QED BY <1>2, <2>4, <2>5, <3>2
  <2>6. found = m
    BY <1>1, <1>4 DEF m
  <2> QED BY <2>4, <2>5, <2>6
<1> QED BY <1>3, <1>4

(* What one update makes of a verifier.                                    *)
ObserveMoves(v, next, stream, s, actual) ==
  LET p == v.positions[s]
      q == next.positions[s]
  IN
  /\ next \in Verifiers
  /\ next.positions = [v.positions EXCEPT ![s] = q]
  /\ next.observed_positions = [v.observed_positions EXCEPT ![s] = @ + 1]
  /\ next.comparisons = v.comparisons + 1
  /\ \/ /\ Matched(stream, p, q, actual)
        /\ next.mismatches = v.mismatches
        /\ next.latched_fail = v.latched_fail
        /\ next.first_mismatch = v.first_mismatch
     \/ /\ \/ Skipped(stream, p, q, actual) /\ next.mismatches = v.mismatches + (q - p - 1)
           \/ Unexpected(stream, p, q, actual) /\ next.mismatches = v.mismatches + 1
        /\ next.latched_fail = TRUE
        /\ next.first_mismatch # NoMismatch

LEMMA ObserveIsPositional ==
  ASSUME NEW v \in Verifiers, NEW sequences, NEW s \in Symbols, NEW actual,
         IsSequence(sequences[s])
  PROVE  ObserveMoves(v, Observe(v, sequences, s, actual), sequences[s], s, actual)
<1> DEFINE stream == sequences[s]
           p == v.positions[s]
           at == p + 1
           found == Resynchronised(stream, at, actual)
           seen == [v EXCEPT !.observed_positions[s] = @ + 1, !.comparisons = @ + 1]
           mismatch(reason) ==
             [reason |-> reason, symbol |-> s,
              bbo_index |-> v.observed_positions[s], expected_index |-> at - 1]
           next == Observe(v, sequences, s, actual)
<1> SUFFICES ObserveMoves(v, next, stream, s, actual)
  OBVIOUS
<1>1. p \in Nat /\ v.observed_positions[s] \in Nat /\ Len(stream) \in Nat
  BY SequenceLength DEF Verifiers
<1>2. \A reason \in UpdateReasons : mismatch(reason) \in UpdateMismatch /\ mismatch(reason) # NoMismatch
  <2> SUFFICES ASSUME NEW reason \in UpdateReasons
               PROVE  mismatch(reason) \in UpdateMismatch /\ mismatch(reason) # NoMismatch
    OBVIOUS
  <2>2. at - 1 \in Nat
    BY <1>1
  <2>3. mismatch(reason) \in UpdateMismatch
    <3> HIDE DEF at
    <3> QED BY <1>1, <2>2 DEF UpdateMismatch
  <2> QED BY <2>3, VerifierAssumption
<1>3. /\ seen \in Verifiers
      /\ seen.positions = v.positions
      /\ seen.observed_positions = [v.observed_positions EXCEPT ![s] = @ + 1]
      /\ seen.comparisons = v.comparisons + 1
      /\ seen.mismatches = v.mismatches
      /\ seen.first_mismatch = v.first_mismatch
  <2> DEFINE obs == [v.observed_positions EXCEPT ![s] = @ + 1]
             count == v.comparisons + 1
  <2>1. obs \in [Symbols -> Nat] /\ count \in Nat
    BY <1>1 DEF Verifiers
  <2>2. seen = [v EXCEPT !.observed_positions = obs, !.comparisons = count]
    OBVIOUS
  <2> HIDE DEF obs, count, seen
  <2>3. /\ seen \in Verifiers
        /\ seen.positions = v.positions
        /\ seen.observed_positions = obs
        /\ seen.comparisons = count
        /\ seen.mismatches = v.mismatches
        /\ seen.first_mismatch = v.first_mismatch
    BY <2>1, <2>2 DEF Verifiers
  <2> QED BY <2>3 DEF obs, count
<1>4. seen.latched_fail = v.latched_fail
  BY Zenon DEF Verifiers
<1>5. \/ found = at /\ \A i \in at + 1 .. Len(stream) : stream[i] # actual
      \/ /\ found \in at + 1 .. Len(stream)
         /\ stream[found] = actual
         /\ \A i \in at + 1 .. found - 1 : stream[i] # actual
  <2>1. at \in Nat
    BY <1>1
  <2> QED BY <2>1, ResynchronisedIsFirst
<1>6. next =
        CASE at <= Len(stream) /\ stream[at] = actual ->
               [seen EXCEPT !.positions[s] = at]
          [] at <= Len(stream) /\ stream[at] # actual /\ found > at ->
               [Latch(seen, found - at, mismatch("missing_hardware_bbo_updates"))
                  EXCEPT !.positions[s] = found]
          [] at <= Len(stream) /\ stream[at] # actual /\ found = at ->
               Latch(seen, 1, mismatch("unexpected_hardware_bbo_state"))
          [] at > Len(stream) ->
               Latch(seen, 1, mismatch("extra_hardware_bbo_update"))
  BY DEF Observe
<1> HIDE DEF found, seen, next, mismatch
<1>11. /\ at > Len(stream) <=> ~(at <= Len(stream))
       /\ found > at => found # at
       /\ found = at => ~(found > at)
  BY <1>1
<1>7. CASE at <= Len(stream) /\ stream[at] = actual
  <2>1. next = [seen EXCEPT !.positions[s] = at]
    BY <1>6, <1>7, <1>11, Zenon
  <2> DEFINE moved == [seen.positions EXCEPT ![s] = at]
  <2>6. moved \in [Symbols -> Nat] /\ moved[s] = at
    BY <1>1, <1>3 DEF Verifiers
  <2>7. next = [seen EXCEPT !.positions = moved]
    BY <2>1
  <2> HIDE DEF moved
  <2>2. /\ next \in Verifiers
        /\ next.positions = moved
        /\ next.positions[s] = at
        /\ next.observed_positions = seen.observed_positions
        /\ next.comparisons = seen.comparisons
        /\ next.mismatches = seen.mismatches
        /\ next.first_mismatch = seen.first_mismatch
    BY <1>3, <2>6, <2>7 DEF Verifiers
  <2>3. next.latched_fail = seen.latched_fail
    BY <1>3, <2>1, Zenon DEF Verifiers
  <2>4. Matched(stream, p, next.positions[s], actual)
    BY <1>1, <1>7, <2>2 DEF Matched
  <2>5. next.positions = [v.positions EXCEPT ![s] = next.positions[s]]
    BY <1>3, <2>2 DEF moved
  <2> QED BY <1>3, <1>4, <2>2, <2>3, <2>4, <2>5 DEF ObserveMoves
<1>8. CASE at <= Len(stream) /\ stream[at] # actual /\ found > at
  <2> DEFINE count == found - at
             report == mismatch("missing_hardware_bbo_updates")
             latched == Latch(seen, count, report)
  <2>1. found - at \in Nat \ {0} /\ found \in Nat
    BY <1>1, <1>5, <1>8
  <2>2. /\ latched \in Verifiers
        /\ latched.positions = seen.positions
        /\ latched.observed_positions = seen.observed_positions
        /\ latched.comparisons = seen.comparisons
        /\ latched.mismatches = seen.mismatches + (found - at)
        /\ latched.latched_fail = TRUE
        /\ latched.first_mismatch # NoMismatch
    <3>1. report \in UpdateMismatch \cup SummaryMismatch
      BY <1>2 DEF UpdateReasons
    <3>2. count \in Nat \ {0}
      BY <2>1
    <3> HIDE DEF report, count
    <3> QED BY <1>3, <3>1, <3>2, LatchKeeps, Zenon DEF count
  <2>3. next = [latched EXCEPT !.positions[s] = found]
    BY <1>6, <1>8, <1>11, Zenon
  <2> HIDE DEF latched
  <2> DEFINE moved == [latched.positions EXCEPT ![s] = found]
  <2>9. moved \in [Symbols -> Nat] /\ moved[s] = found
    BY <2>1, <2>2 DEF Verifiers
  <2>10. next = [latched EXCEPT !.positions = moved]
    BY <2>3
  <2> HIDE DEF moved
  <2>4. /\ next \in Verifiers
        /\ next.positions = moved
        /\ next.positions[s] = found
        /\ next.observed_positions = seen.observed_positions
        /\ next.comparisons = seen.comparisons
        /\ next.mismatches = seen.mismatches + (found - at)
        /\ next.first_mismatch # NoMismatch
    BY <2>2, <2>9, <2>10 DEF Verifiers
  <2>5. next.latched_fail = TRUE
    BY <2>2, <2>3, Zenon DEF Verifiers
  <2>6. Skipped(stream, p, next.positions[s], actual)
    BY <1>1, <1>5, <1>8, <2>4 DEF Skipped
  <2>7. next.mismatches = v.mismatches + (next.positions[s] - p - 1)
    BY <1>1, <1>3, <2>1, <2>4 DEF Verifiers
  <2>8. next.positions = [v.positions EXCEPT ![s] = next.positions[s]]
    BY <1>3, <2>2, <2>4 DEF moved
  <2> QED BY <1>3, <2>4, <2>5, <2>6, <2>7, <2>8 DEF ObserveMoves
<1>9. CASE \/ at <= Len(stream) /\ stream[at] # actual /\ found = at
           \/ at > Len(stream)
  <2>1. PICK reason \in UpdateReasons : next = Latch(seen, 1, mismatch(reason))
    <3>1. CASE at > Len(stream)
      <4>1. next = Latch(seen, 1, mismatch("extra_hardware_bbo_update"))
        BY <1>6, <1>11, <3>1, Zenon
      <4> QED BY <4>1 DEF UpdateReasons
    <3>2. CASE at <= Len(stream) /\ stream[at] # actual /\ found = at
      <4>1. next = Latch(seen, 1, mismatch("unexpected_hardware_bbo_state"))
        BY <1>6, <1>11, <3>2, Zenon
      <4> QED BY <4>1 DEF UpdateReasons
    <3> QED BY <1>9, <3>1, <3>2
  <2>2. /\ next \in Verifiers
        /\ next.positions = seen.positions
        /\ next.observed_positions = seen.observed_positions
        /\ next.comparisons = seen.comparisons
        /\ next.mismatches = seen.mismatches + 1
        /\ next.latched_fail = TRUE
        /\ next.first_mismatch # NoMismatch
    <3>1. PICK report \in UpdateMismatch \cup SummaryMismatch :
            next = Latch(seen, 1, report)
      BY <1>2, <2>1
    <3> DEFINE count == 1
    <3>2. count \in Nat \ {0}
      OBVIOUS
    <3>3. next = Latch(seen, count, report)
      BY <3>1
    <3> HIDE DEF count
    <3>4. /\ next \in Verifiers
          /\ next.positions = seen.positions
          /\ next.observed_positions = seen.observed_positions
          /\ next.comparisons = seen.comparisons
          /\ next.mismatches = seen.mismatches + count
          /\ next.latched_fail = TRUE
          /\ next.first_mismatch # NoMismatch
      BY <1>3, <3>2, <3>3, LatchKeeps, Zenon
    <3> QED BY <3>4 DEF count
  <2>3. next.positions = [v.positions EXCEPT ![s] = next.positions[s]]
    BY <1>3, <2>2 DEF Verifiers
  <2>4. Unexpected(stream, p, next.positions[s], actual)
    BY <1>1, <1>3, <1>5, <1>9, <2>2 DEF Unexpected
  <2> QED BY <1>3, <2>2, <2>3, <2>4 DEF ObserveMoves
<1>10. \/ at <= Len(stream) /\ stream[at] = actual
       \/ at <= Len(stream) /\ stream[at] # actual /\ found > at
       \/ at <= Len(stream) /\ stream[at] # actual /\ found = at
       \/ at > Len(stream)
  BY <1>1, <1>5
<1> QED BY <1>7, <1>8, <1>9, <1>10 DEF next

-----------------------------------------------------------------------------
(* Sums over the stocks, as sizes of sets of places.                       *)

Counts == [Symbols -> Nat]

LEMMA PlaceMembers ==
  ASSUME NEW a \in Counts, NEW b \in Counts
  PROVE  Places(a, b) = {x \in Symbols \X Nat : a[x[1]] < x[2] /\ x[2] <= b[x[1]]}
<1>1. ASSUME NEW x \in Places(a, b)
      PROVE  x \in Symbols \X Nat /\ a[x[1]] < x[2] /\ x[2] <= b[x[1]]
  <2>1. PICK s \in Symbols : x \in {s} \X (a[s] + 1 .. b[s])
    BY <1>1 DEF Places
  <2>2. a[s] \in Nat /\ b[s] \in Nat
    BY DEF Counts
  <2> QED BY <2>1, <2>2
<1>2. ASSUME NEW x \in Symbols \X Nat, a[x[1]] < x[2] /\ x[2] <= b[x[1]]
      PROVE  x \in Places(a, b)
  <2> DEFINE s == x[1]
  <2>1. s \in Symbols /\ a[s] \in Nat /\ b[s] \in Nat /\ x[2] \in Nat /\ x = <<s, x[2]>>
    BY DEF Counts
  <2>2. x[2] \in a[s] + 1 .. b[s]
    BY <1>2, <2>1
  <2>3. x \in {s} \X (a[s] + 1 .. b[s])
    BY <2>1, <2>2
  <2> QED BY <2>1, <2>3 DEF Places
<1> QED BY <1>1, <1>2

LEMMA PlacesFinite ==
  ASSUME NEW a \in Counts, NEW b \in Counts
  PROVE  IsFiniteSet(Places(a, b)) /\ Cardinality(Places(a, b)) \in Nat
<1> DEFINE PlacesOf(s) == {s} \X (a[s] + 1 .. b[s])
<1>1. IsFiniteSet({PlacesOf(s) : s \in Symbols})
  <2> DEFINE f == [s \in Symbols |-> PlacesOf(s)]
             T == {PlacesOf(s) : s \in Symbols}
  <2>1. f \in Surjection(Symbols, T)
    <3> HIDE DEF PlacesOf
    <3> QED BY DEF Surjection
  <2> HIDE DEF f, T
  <2>2. IsFiniteSet(T)
    BY <2>1, VerifierAssumption, FS_Surjection
  <2> QED BY <2>2 DEF T
<1>2. ASSUME NEW s \in Symbols PROVE IsFiniteSet(PlacesOf(s))
  <2>1. IsFiniteSet({s})
    BY FS_Singleton
  <2>2. a[s] + 1 \in Int /\ b[s] \in Int
    BY DEF Counts
  <2>3. IsFiniteSet(a[s] + 1 .. b[s])
    BY <2>2, FS_Interval
  <2> QED BY <2>1, <2>3, FS_Product
<1>3. IsFiniteSet(UNION {PlacesOf(s) : s \in Symbols})
  <2>1. \A T \in {PlacesOf(s) : s \in Symbols} : IsFiniteSet(T)
    BY <1>2
  <2> HIDE DEF PlacesOf
  <2> QED BY <1>1, <2>1, FS_UNION
<1>4. IsFiniteSet(Places(a, b))
  BY <1>3 DEF Places
<1> QED BY <1>4, FS_CardinalityType

LEMMA PlacesJoin ==
  ASSUME NEW a \in Counts, NEW b \in Counts, NEW c \in Counts,
         \A s \in Symbols : a[s] <= b[s] /\ b[s] <= c[s]
  PROVE  Cardinality(Places(a, c)) = Cardinality(Places(a, b)) + Cardinality(Places(b, c))
<1>1. Places(a, c) = Places(a, b) \cup Places(b, c)
  BY PlaceMembers DEF Counts
<1>2. Places(a, b) \cap Places(b, c) = {}
  BY PlaceMembers DEF Counts
<1>3. Cardinality(Places(a, b) \cup Places(b, c)) =
        Cardinality(Places(a, b)) + Cardinality(Places(b, c))
        - Cardinality(Places(a, b) \cap Places(b, c))
  BY PlacesFinite, FS_Union
<1>4. Cardinality({}) = 0
  BY FS_EmptySet
<1> QED BY <1>1, <1>2, <1>3, <1>4, PlacesFinite

LEMMA PlacesNone ==
  ASSUME NEW a \in Counts, NEW b \in Counts
  PROVE  Cardinality(Places(a, b)) = 0 <=> \A s \in Symbols : b[s] <= a[s]
<1>1. Places(a, b) = {} <=> \A s \in Symbols : b[s] <= a[s]
  <2>1. ASSUME Places(a, b) = {}, NEW s \in Symbols PROVE b[s] <= a[s]
    <3>1. a[s] \in Nat /\ b[s] \in Nat
      BY DEF Counts
    <3>2. CASE a[s] < b[s]
      <4>1. <<s, b[s]>> \in Places(a, b)
        BY <3>1, <3>2, PlaceMembers
      <4> QED BY <2>1, <4>1
    <3> QED BY <3>1, <3>2
  <2>2. ASSUME \A s \in Symbols : b[s] <= a[s] PROVE Places(a, b) = {}
    BY <2>2, PlaceMembers DEF Counts
  <2> QED BY <2>1, <2>2
<1> QED BY <1>1, PlacesFinite, FS_EmptySet

(* One stock moves on by some places.                                      *)
LEMMA PlacesOfOne ==
  ASSUME NEW a \in Counts, NEW s \in Symbols, NEW n \in Nat, a[s] <= n
  PROVE  Cardinality(Places(a, [a EXCEPT ![s] = n])) = n - a[s]
<1> DEFINE b == [a EXCEPT ![s] = n]
<1>1. a[s] \in Nat /\ b \in Counts
  BY DEF Counts
<1>2. Places(a, b) = {s} \X (a[s] + 1 .. n)
  <2>1. Places(a, b) = {x \in Symbols \X Nat : a[x[1]] < x[2] /\ x[2] <= b[x[1]]}
    BY <1>1, PlaceMembers
  <2>2. \A x \in Symbols \X Nat :
          a[x[1]] < x[2] /\ x[2] <= b[x[1]] <=> x[1] = s /\ x[2] \in a[s] + 1 .. n
    BY <1>1 DEF Counts
  <2>3. {s} \X (a[s] + 1 .. n) = {x \in Symbols \X Nat : x[1] = s /\ x[2] \in a[s] + 1 .. n}
    BY <1>1
  <2> QED BY <2>1, <2>2, <2>3
<1>3. IsFiniteSet({s}) /\ Cardinality({s}) = 1
  BY FS_Singleton
<1>4. IsFiniteSet(a[s] + 1 .. n) /\ Cardinality(a[s] + 1 .. n) = n - a[s]
  <2>1. a[s] + 1 \in Int /\ n \in Int
    BY <1>1
  <2>2. /\ IsFiniteSet(a[s] + 1 .. n)
        /\ Cardinality(a[s] + 1 .. n) = IF a[s] + 1 > n THEN 0 ELSE n - (a[s] + 1) + 1
    BY <2>1, FS_Interval
  <2> QED BY <1>1, <2>2
<1>5. Cardinality({s} \X (a[s] + 1 .. n)) = Cardinality({s}) * Cardinality(a[s] + 1 .. n)
  BY <1>3, <1>4, FS_Product
<1>6. n - a[s] \in Nat /\ 1 * (n - a[s]) = n - a[s]
  BY <1>1
<1>7. Cardinality(Places(a, b)) = 1 * (n - a[s])
  BY <1>2, <1>3, <1>4, <1>5, Zenon
<1> QED BY <1>6, <1>7

LEMMA LengthsAreCounts ==
  ASSUME NEW sequences, \A s \in Symbols : IsSequence(sequences[s])
  PROVE  Lengths(sequences) \in Counts /\ NoPlaces \in Counts
BY SequenceLength DEF Lengths, NoPlaces, Counts

LEMMA LengthAfterAppend ==
  ASSUME NEW sequences, DOMAIN sequences = Symbols,
         \A s \in Symbols : IsSequence(sequences[s]),
         NEW symbol \in Symbols, NEW x
  PROVE  TotalLength([sequences EXCEPT ![symbol] = Append(@, x)]) = TotalLength(sequences) + 1
<1> DEFINE a == Lengths(sequences)
           n == Len(sequences[symbol]) + 1
           next == [sequences EXCEPT ![symbol] = Append(@, x)]
<1>1. a \in Counts /\ NoPlaces \in Counts
  BY LengthsAreCounts
<1>2. n \in Nat /\ a[symbol] = n - 1
  BY SequenceLength DEF Lengths
<1>3. Lengths(next) = [a EXCEPT ![symbol] = n]
  BY AppendToSequence DEF Lengths
<1>4. [a EXCEPT ![symbol] = n] \in Counts
  BY <1>1, <1>2 DEF Counts
<1> HIDE DEF a, n, next
<1>5. Cardinality(Places(a, [a EXCEPT ![symbol] = n])) = 1
  BY <1>1, <1>2, PlacesOfOne
<1>6. \A s \in Symbols : NoPlaces[s] <= a[s] /\ a[s] <= [a EXCEPT ![symbol] = n][s]
  <2>1. ASSUME NEW s \in Symbols PROVE a[s] \in Nat /\ NoPlaces[s] = 0
    BY <1>1 DEF NoPlaces, Counts
  <2>2. ASSUME NEW s \in Symbols PROVE a[s] <= [a EXCEPT ![symbol] = n][s]
    BY <1>1, <1>2, <2>1 DEF Counts
  <2> QED BY <2>1, <2>2
<1>7. Cardinality(Places(NoPlaces, [a EXCEPT ![symbol] = n])) =
        Cardinality(Places(NoPlaces, a)) + Cardinality(Places(a, [a EXCEPT ![symbol] = n]))
  BY <1>1, <1>4, <1>6, PlacesJoin
<1> QED BY <1>3, <1>5, <1>7 DEF TotalLength, a, next

-----------------------------------------------------------------------------
(* The verdict.                                                            *)

Follows(short, long) ==
  Len(short) <= Len(long) /\ \A i \in 1 .. Len(short) : short[i] = long[i]

VerdictTypes ==
  /\ DOMAIN expected = Symbols /\ \A s \in Symbols : IsSequence(expected[s])
  /\ DOMAIN published = Symbols /\ \A s \in Symbols : IsSequence(published[s])
  /\ verifier \in Verifiers

(* The counters of the verifier and its latch belong together.             *)
Counted ==
  /\ verifier.comparisons = TotalLength(published)
  /\ verifier.latched_fail = TRUE <=> verifier.mismatches > 0
  /\ verifier.latched_fail = TRUE <=> verifier.first_mismatch # NoMismatch

(* As long as nothing is latched every stock is a prefix of the oracle, as *)
(* long as its position; once it is, some stock will never be one again.   *)
Tracking ==
  phase = "replay" =>
    /\ Counted
    /\ \A s \in Symbols : /\ verifier.positions[s] <= Len(expected[s])
                          /\ verifier.observed_positions[s] = Len(published[s])
    /\ verifier.latched_fail # TRUE =>
         \A s \in Symbols : /\ verifier.positions[s] = Len(published[s])
                            /\ Follows(published[s], expected[s])
    /\ verifier.latched_fail = TRUE =>
         \E s \in Symbols : ~Follows(published[s], expected[s])

Judged ==
  phase = "done" => Counted /\ (verifier.latched_fail # TRUE <=> Agrees(expected, published))

VInv == VerdictTypes /\ Tracking /\ Judged

LEMMA FlagOfVerifier ==
  ASSUME NEW v \in Verifiers
  PROVE  v.latched_fail <=> v.latched_fail = TRUE
<1>1. v.latched_fail \in BOOLEAN
  BY DEF Verifiers, Flags
<1> QED BY <1>1

(* A sequence that has left the oracle does not come back to it.           *)
LEMMA FollowsAppend ==
  ASSUME NEW short, IsSequence(short), NEW long, IsSequence(long), NEW x
  PROVE  Follows(Append(short, x), long) <=>
           /\ Follows(short, long)
           /\ Len(short) + 1 <= Len(long)
           /\ long[Len(short) + 1] = x
<1>1. Len(short) \in Nat /\ Len(long) \in Nat
  BY SequenceLength
<1>2. /\ Len(Append(short, x)) = Len(short) + 1
      /\ \A i \in 1 .. Len(short) : Append(short, x)[i] = short[i]
      /\ Append(short, x)[Len(short) + 1] = x
  BY AppendToSequence
<1> DEFINE more == Append(short, x)
           n == Len(short)
<1> HIDE DEF more
<1>3. 1 .. n + 1 = (1 .. n) \cup {n + 1}
  BY <1>1
<1> QED BY <1>1, <1>2, <1>3 DEF Follows, more

LEMMA VInvPublish ==
  ASSUME VInv, phase = "replay", UNCHANGED <<phase, expected>>,
         NEW s \in Symbols, NEW actual,
         verifier' = Observe(verifier, expected, s, actual),
         published' = [published EXCEPT ![s] = Append(@, actual)]
  PROVE  VInv'
<1>1. VerdictTypes /\ Tracking
  BY DEF VInv
<1>2. ObserveMoves(verifier, verifier', expected[s], s, actual)
  <2>1. IsSequence(expected[s])
    BY <1>1 DEF VerdictTypes
  <2> QED BY <1>1, <2>1, ObserveIsPositional DEF VerdictTypes
<1> DEFINE v == verifier
           next == verifier'
           p == verifier.positions[s]
           q == verifier'.positions[s]
           stream == expected[s]
<1>3. /\ next \in Verifiers
      /\ next.positions = [v.positions EXCEPT ![s] = q]
      /\ next.observed_positions = [v.observed_positions EXCEPT ![s] = @ + 1]
      /\ next.comparisons = v.comparisons + 1
  BY <1>2 DEF ObserveMoves
<1>4. \/ /\ Matched(stream, p, q, actual)
         /\ next.mismatches = v.mismatches
         /\ next.latched_fail = v.latched_fail
         /\ next.first_mismatch = v.first_mismatch
      \/ /\ \/ Skipped(stream, p, q, actual) /\ next.mismatches = v.mismatches + (q - p - 1)
            \/ Unexpected(stream, p, q, actual) /\ next.mismatches = v.mismatches + 1
         /\ next.latched_fail = TRUE
         /\ next.first_mismatch # NoMismatch
  BY <1>2 DEF ObserveMoves
<1>5. /\ IsSequence(stream) /\ IsSequence(published[s])
      /\ Len(stream) \in Nat /\ Len(published[s]) \in Nat
      /\ p \in Nat /\ q \in Nat /\ p <= Len(stream)
      /\ v.mismatches \in Nat
  <2>1. IsSequence(stream) /\ IsSequence(published[s])
    BY <1>1 DEF VerdictTypes
  <2>2. p \in Nat /\ q \in Nat /\ v.mismatches \in Nat
    BY <1>1, <1>3 DEF VerdictTypes, Verifiers
  <2> QED BY <1>1, <2>1, <2>2, SequenceLength DEF Tracking
<1>6. /\ published'[s] = Append(published[s], actual)
      /\ \A r \in Symbols : r # s => published'[r] = published[r]
      /\ DOMAIN published' = Symbols
  BY <1>1 DEF VerdictTypes
<1>7. IsSequence(published'[s]) /\ Len(published'[s]) = Len(published[s]) + 1
  BY <1>5, <1>6, AppendToSequence
<1>8. VerdictTypes'
  BY <1>1, <1>3, <1>6, <1>7 DEF VerdictTypes
<1>9. TotalLength(published') = TotalLength(published) + 1
  BY <1>1, LengthAfterAppend DEF VerdictTypes
<1>10. Follows(published'[s], stream) <=>
         /\ Follows(published[s], stream)
         /\ Len(published[s]) + 1 <= Len(stream)
         /\ stream[Len(published[s]) + 1] = actual
  BY <1>5, <1>6, FollowsAppend
<1>11. /\ Skipped(stream, p, q, actual) => q - p - 1 > 0
       /\ q <= Len(stream)
  BY <1>4, <1>5 DEF Matched, Skipped, Unexpected
<1>12. /\ next.latched_fail = TRUE <=> next.mismatches > 0
       /\ next.latched_fail = TRUE <=> next.first_mismatch # NoMismatch
  <2>1. CASE /\ Matched(stream, p, q, actual)
             /\ next.mismatches = v.mismatches
             /\ next.latched_fail = v.latched_fail
             /\ next.first_mismatch = v.first_mismatch
    <3>1. /\ v.latched_fail = TRUE <=> v.mismatches > 0
          /\ v.latched_fail = TRUE <=> v.first_mismatch # NoMismatch
      BY <1>1 DEF Tracking, Counted
    <3> QED BY <2>1, <3>1, Zenon
  <2>2. CASE /\ \/ Skipped(stream, p, q, actual) /\ next.mismatches = v.mismatches + (q - p - 1)
                \/ Unexpected(stream, p, q, actual) /\ next.mismatches = v.mismatches + 1
             /\ next.latched_fail = TRUE
             /\ next.first_mismatch # NoMismatch
    <3>1. next.mismatches > 0
      BY <1>5, <1>11, <2>2
    <3> QED BY <2>2, <3>1, Zenon
  <2> QED BY <1>4, <2>1, <2>2, Zenon
<1>13. \A r \in Symbols : /\ next.positions[r] <= Len(expected[r])
                          /\ next.observed_positions[r] = Len(published'[r])
  <2> SUFFICES ASSUME NEW r \in Symbols
               PROVE  /\ next.positions[r] <= Len(expected[r])
                      /\ next.observed_positions[r] = Len(published'[r])
    OBVIOUS
  <2>1. /\ v.positions[r] <= Len(expected[r])
        /\ v.observed_positions[r] = Len(published[r])
        /\ v.positions \in [Symbols -> Nat] /\ v.observed_positions \in [Symbols -> Nat]
    BY <1>1 DEF Tracking, VerdictTypes, Verifiers
  <2> QED BY <1>3, <1>6, <1>7, <1>11, <2>1
<1>14. next.latched_fail # TRUE =>
         \A r \in Symbols : /\ next.positions[r] = Len(published'[r])
                            /\ Follows(published'[r], expected[r])
  <2> SUFFICES ASSUME next.latched_fail # TRUE, NEW r \in Symbols
               PROVE  /\ next.positions[r] = Len(published'[r])
                      /\ Follows(published'[r], expected[r])
    OBVIOUS
  <2>1. Matched(stream, p, q, actual) /\ v.latched_fail # TRUE
    BY <1>4, Zenon
  <2>2. \A u \in Symbols : v.positions[u] = Len(published[u]) /\ Follows(published[u], expected[u])
    BY <1>1, <2>1 DEF Tracking
  <2>3. v.positions \in [Symbols -> Nat]
    BY <1>1 DEF VerdictTypes, Verifiers
  <2>4. CASE r = s
    <3>1. next.positions[s] = Len(published'[s])
      BY <1>5, <1>7, <2>1, <2>2 DEF Matched
    <3>2. Follows(published'[s], stream)
      BY <1>5, <1>10, <2>1, <2>2 DEF Matched
    <3> QED BY <2>4, <3>1, <3>2
  <2>5. CASE r # s
    BY <1>3, <1>6, <2>2, <2>3, <2>5
  <2> QED BY <2>4, <2>5
<1>15. next.latched_fail = TRUE => \E r \in Symbols : ~Follows(published'[r], expected[r])
  <2> SUFFICES ASSUME next.latched_fail = TRUE
               PROVE  \E r \in Symbols : ~Follows(published'[r], expected[r])
    OBVIOUS
  <2>1. CASE v.latched_fail = TRUE
    <3>1. PICK r \in Symbols : ~Follows(published[r], expected[r])
      BY <1>1, <2>1 DEF Tracking
    <3>2. ~Follows(published'[r], expected[r])
      BY <1>6, <1>10, <3>1
    <3> QED BY <3>2
  <2>2. CASE v.latched_fail # TRUE
    <3>1. Skipped(stream, p, q, actual) \/ Unexpected(stream, p, q, actual)
      BY <1>4, <2>2, Zenon
    <3>2. p = Len(published[s])
      BY <1>1, <2>2 DEF Tracking
    <3>3. ~(p + 1 <= Len(stream) /\ stream[p + 1] = actual)
      <4> HIDE DEF stream, p, q
      <4>1. CASE Skipped(stream, p, q, actual)
        BY <1>5, <4>1 DEF Skipped
      <4>2. CASE Unexpected(stream, p, q, actual)
        BY <1>5, <4>2 DEF Unexpected
      <4> QED BY <3>1, <4>1, <4>2
    <3> QED BY <1>10, <3>2, <3>3
  <2> QED BY <2>1, <2>2
<1>16. Counted'
  <2>1. next.comparisons = TotalLength(published')
    BY <1>1, <1>3, <1>9 DEF Tracking, Counted
  <2> QED BY <1>12, <2>1 DEF Counted
<1>17. Tracking'
  BY <1>13, <1>14, <1>15, <1>16 DEF Tracking
<1> QED BY <1>8, <1>17 DEF VInv, Judged

(* finalise, with the length and the hash of the file the oracle froze.    *)
Finalises(v, next, missing, sequences) ==
  /\ next \in Verifiers
  /\ next.comparisons = v.comparisons
  /\ next.mismatches = v.mismatches + missing
  /\ missing \in Nat
  /\ missing = 0 <=> \A s \in Symbols : v.positions[s] = Len(sequences[s])
  /\ missing = 0 => next = v
  /\ missing > 0 => next.latched_fail = TRUE /\ next.first_mismatch # NoMismatch

LEMMA FinaliseCounts ==
  ASSUME NEW v \in Verifiers, NEW sequences,
         \A s \in Symbols : IsSequence(sequences[s]) /\ v.positions[s] <= Len(sequences[s])
  PROVE  Finalises(v, Finalise(v, sequences, TRUE, TRUE), Missing(v, sequences), sequences)
<1> DEFINE missing == Missing(v, sequences)
           next == Finalise(v, sequences, TRUE, TRUE)
           report == [reason |-> "missing_hardware_bbo_updates_at_end"]
<1> SUFFICES Finalises(v, next, missing, sequences)
  OBVIOUS
<1>1. v.positions \in Counts /\ Lengths(sequences) \in Counts
  BY LengthsAreCounts DEF Verifiers, Counts
<1>2. missing \in Nat
  BY <1>1, PlacesFinite DEF Missing
<1>3. missing = 0 <=> \A s \in Symbols : v.positions[s] = Len(sequences[s])
  <2>1. missing = 0 <=> \A s \in Symbols : Lengths(sequences)[s] <= v.positions[s]
    BY <1>1, PlacesNone DEF Missing
  <2>2. ASSUME NEW s \in Symbols
        PROVE  Lengths(sequences)[s] <= v.positions[s] <=> v.positions[s] = Len(sequences[s])
    <3>1. Lengths(sequences)[s] = Len(sequences[s])
      BY DEF Lengths
    <3>2. Len(sequences[s]) \in Nat /\ v.positions[s] \in Nat
      BY SequenceLength DEF Verifiers
    <3> QED BY <3>1, <3>2
  <2> QED BY <2>1, <2>2
<1>4. next = LatchIf(missing > 0, v, missing, "missing_hardware_bbo_updates_at_end")
  BY DEF Finalise, LatchIf
<1>5. report \in UpdateMismatch \cup SummaryMismatch
  BY DEF SummaryMismatch, SummaryReasons
<1> HIDE DEF missing, next, report
<1>6. CASE missing = 0
  <2>1. next = v
    BY <1>4, <1>6 DEF LatchIf
  <2>2. v.mismatches \in Nat
    BY DEF Verifiers
  <2> QED BY <1>2, <1>3, <1>6, <2>1, <2>2 DEF Finalises
<1>7. CASE missing > 0
  <2>1. next = Latch(v, missing, report)
    BY <1>4, <1>7 DEF LatchIf, report
  <2>2. missing \in Nat \ {0}
    BY <1>2, <1>7
  <2>3. /\ next \in Verifiers
        /\ next.comparisons = v.comparisons
        /\ next.mismatches = v.mismatches + missing
        /\ next.latched_fail = TRUE
        /\ next.first_mismatch # NoMismatch
    BY <1>5, <2>1, <2>2, LatchKeeps, Zenon
  <2>4. missing # 0
    BY <1>2, <1>7
  <2> QED BY <1>2, <1>3, <1>7, <2>3, <2>4, Zenon DEF Finalises
<1> QED BY <1>2, <1>6, <1>7

LEMMA VInvFinish ==
  ASSUME VInv, Finish PROVE VInv'
<1>1. VerdictTypes /\ Tracking /\ phase = "replay" /\ UNCHANGED <<expected, published>>
  BY DEF VInv, Finish, generator
<1>2. CASE mapped # Symbols
  <2>1. phase' = "stock not mapped" /\ verifier' = verifier
    BY <1>2 DEF Finish
  <2> QED BY <1>1, <2>1 DEF VInv, VerdictTypes, Tracking, Judged
<1>3. CASE mapped = Symbols
  <2> DEFINE v == verifier
             next == verifier'
             missing == Missing(v, expected)
  <2>1. phase' = "done" /\ next = Finalise(v, expected, TRUE, TRUE)
    BY <1>3 DEF Finish
  <2>2. \A s \in Symbols : IsSequence(expected[s]) /\ v.positions[s] <= Len(expected[s])
    BY <1>1 DEF VerdictTypes, Tracking
  <2>3. v \in Verifiers /\ v.mismatches \in Nat
    BY <1>1 DEF VerdictTypes, Verifiers
  <2>4. /\ next \in Verifiers
        /\ next.comparisons = v.comparisons
        /\ next.mismatches = v.mismatches + missing
        /\ missing \in Nat
        /\ missing = 0 <=> \A s \in Symbols : v.positions[s] = Len(expected[s])
        /\ missing = 0 => next = v
        /\ missing > 0 => next.latched_fail = TRUE /\ next.first_mismatch # NoMismatch
    BY <2>1, <2>2, <2>3, FinaliseCounts DEF Finalises
  <2> HIDE DEF missing
  <2>5. VerdictTypes'
    BY <1>1, <2>4 DEF VerdictTypes
  <2>6. Counted
    BY <1>1 DEF Tracking
  <2>7. Counted'
    <3>1. next.comparisons = TotalLength(published')
      BY <1>1, <2>4, <2>6 DEF Counted
    <3>2. CASE missing = 0
      BY <1>1, <2>4, <2>6, <3>2 DEF Counted
    <3>3. CASE missing > 0
      <4>1. next.mismatches > 0
        BY <2>3, <2>4, <3>3
      <4>2. next.latched_fail = TRUE /\ next.first_mismatch # NoMismatch
        BY <2>4, <3>3
      <4> QED BY <3>1, <4>1, <4>2, Zenon DEF Counted
    <3> QED BY <2>4, <3>2, <3>3
  <2>8. next.latched_fail # TRUE <=> v.latched_fail # TRUE /\ missing = 0
    <3>1. missing > 0 => next.latched_fail = TRUE
      BY <2>4
    <3>2. missing = 0 => next = v
      BY <2>4
    <3>5. CASE missing = 0
      <4>1. next = v
        BY <3>2, <3>5
      <4> QED BY <3>5, <4>1, Zenon
    <3>6. CASE missing > 0
      <4>1. missing # 0
        BY <3>6
      <4> QED BY <3>1, <3>6, <4>1, Zenon
    <3>7. missing = 0 \/ missing > 0
      <4>1. missing \in Nat
        BY <2>4
      <4> QED BY <4>1
    <3> QED BY <3>5, <3>6, <3>7, Zenon
  <2>9. ASSUME v.latched_fail # TRUE, missing = 0 PROVE Agrees(expected, published)
    <3> SUFFICES ASSUME NEW s \in Symbols PROVE published[s] = expected[s]
      BY DEF Agrees
    <3>1. /\ v.positions[s] = Len(published[s])
          /\ Follows(published[s], expected[s])
          /\ v.positions[s] = Len(expected[s])
          /\ IsSequence(published[s]) /\ IsSequence(expected[s])
      BY <1>1, <2>4, <2>9 DEF VerdictTypes, Tracking
    <3> QED BY <3>1, SequencesEqual DEF Follows
  <2>10. ASSUME Agrees(expected, published) PROVE v.latched_fail # TRUE /\ missing = 0
    <3>1. \A s \in Symbols : published[s] = expected[s] /\ Len(expected[s]) \in Nat
      BY <1>1, <2>10, SequenceLength DEF Agrees, VerdictTypes
    <3>2. \A s \in Symbols : Follows(published[s], expected[s])
      BY <3>1 DEF Follows
    <3>3. v.latched_fail # TRUE
      BY <1>1, <3>2 DEF Tracking
    <3>4. \A s \in Symbols : v.positions[s] = Len(expected[s])
      BY <1>1, <3>1, <3>3 DEF Tracking
    <3> QED BY <2>4, <3>3, <3>4
  <2>11. next.latched_fail # TRUE <=> Agrees(expected, published)
    BY <2>8, <2>9, <2>10
  <2>12. Judged'
    BY <1>1, <2>7, <2>11 DEF Judged, Agrees
  <2> QED BY <2>1, <2>5, <2>12 DEF VInv, Tracking
<1> QED BY <1>2, <1>3

(* ReadAsk hands at most one update to the verifier, of the stock the      *)
(* packet was about.                                                       *)
LEMMA ReadAskOutcome ==
  ASSUME MInv, ReadAsk
  PROVE  /\ phase = "replay" /\ pc = "ask" /\ expected' = expected
         /\ \/ /\ UNCHANGED <<published, verifier>>
               /\ phase' \in {phase, "counter advanced again"}
            \/ /\ phase' = phase
               /\ bid_half.stock \in Symbols
               /\ \E actual :
                    /\ verifier' = Observe(verifier, expected, bid_half.stock, actual)
                    /\ published' = [published EXCEPT ![bid_half.stock] = Append(@, actual)]
<1> DEFINE snapshot == [stock |-> bid_half.stock,
                        bbo |-> [d \in Sides |-> IF d = "BUY" THEN bid_half.bid
                                                 ELSE shown.bbo["SELL"]]]
<1>1. \/ Fail("counter advanced again")
      \/ UNCHANGED <<phase, expected, published, verifier>>
      \/ Publish(snapshot)
  <2> HIDE DEF Publish, Fail
  <2> QED BY Zenon DEF ReadAsk, generator
<1>2. phase = "replay" /\ pc = "ask"
  BY DEF ReadAsk
<1>3. CASE Fail("counter advanced again")
  BY <1>2, <1>3 DEF Fail, generator, program
<1>4. CASE UNCHANGED <<phase, expected, published, verifier>>
  BY <1>2, <1>4
<1>5. CASE Publish(snapshot)
  <2> DEFINE s == bid_half.stock
             actual == Normalised(snapshot.bbo)
  <2>1. UNCHANGED <<phase, expected>>
    BY <1>5 DEF Publish, generator
  <2>2. s \in Symbols
    <3>1. bid_half.stock = plan.stock /\ plan \in BookMessages
      BY <1>2 DEF MInv, Synchronised
    <3> QED BY <3>1, MessageFields DEF BookMessages
  <2>3. \/ UNCHANGED <<published, verifier>>
        \/ /\ verifier' = Observe(verifier, expected, s, actual)
           /\ published' = [published EXCEPT ![s] = Append(@, actual)]
    BY <1>5 DEF Publish
  <2> HIDE DEF actual
  <2> QED BY <1>2, <2>1, <2>2, <2>3
<1> QED BY <1>1, <1>3, <1>4, <1>5

(* Elsewhere the verifier and the updates are left alone.                  *)
LEMMA VInvElsewhere ==
  ASSUME VInv, UNCHANGED <<expected, published, verifier>>,
         phase' \in {"replay", "done"} => phase' = phase
  PROVE  VInv'
BY DEF VInv, VerdictTypes, Tracking, Judged, Counted, Agrees

LEMMA VInvStep == MInv /\ VInv /\ [Next]_vars => VInv'
<1> SUFFICES ASSUME MInv, VInv, [Next]_vars PROVE VInv'
  OBVIOUS
<1>1. ASSUME NEW m \in Messages, Generate(m) PROVE VInv'
  <2>1. /\ phase = "generate" /\ UNCHANGED <<phase, published, verifier>>
        /\ \/ expected' = expected
           \/ m.type \in BookTypes /\ ReadByGolden(m)
    BY <1>1, Zenon DEF Generate, program
  <2>2. VerdictTypes
    BY DEF VInv
  <2>3. DOMAIN expected' = Symbols /\ \A s \in Symbols : IsSequence(expected'[s])
    <3>1. CASE expected' = expected
      BY <2>2, <3>1 DEF VerdictTypes
    <3>2. CASE m.type \in BookTypes /\ ReadByGolden(m)
      <4>1. m.stock \in Symbols
        BY <3>2, MessageFields
      <4>2. \/ expected' = expected
            \/ \E x : expected' = [expected EXCEPT ![m.stock] = Append(@, x)]
        BY <3>2 DEF ReadByGolden
      <4>3. ASSUME NEW x, expected' = [expected EXCEPT ![m.stock] = Append(@, x)]
            PROVE  DOMAIN expected' = Symbols /\ \A s \in Symbols : IsSequence(expected'[s])
        <5>1. IsSequence(Append(expected[m.stock], x))
          BY <2>2, <4>1, AppendToSequence DEF VerdictTypes
        <5> QED BY <2>2, <4>1, <4>3, <5>1 DEF VerdictTypes
      <4> QED BY <2>2, <4>2, <4>3 DEF VerdictTypes
    <3> QED BY <2>1, <3>1, <3>2
  <2>4. VerdictTypes'
    BY <2>1, <2>2, <2>3 DEF VerdictTypes
  <2> QED BY <2>1, <2>4 DEF VInv, Tracking, Judged
<1>2. CASE WriteOracle
  BY <1>2, VInvElsewhere DEF WriteOracle, program
<1>3. CASE Begin
  <2>1. /\ phase' = "replay" /\ expected' = expected
        /\ published' = [s \in Symbols |-> <<>>]
        /\ verifier' = NewVerifier
    BY <1>3 DEF Begin, generator
  <2>2. \A s \in Symbols : IsSequence(published'[s]) /\ Len(published'[s]) = 0
    <3>1. <<>> \in Seq({}) /\ Len(<<>>) = 0
      OBVIOUS
    <3> QED BY <2>1, <3>1 DEF IsSequence
  <2>3. NewVerifier \in Verifiers
    BY DEF NewVerifier, Verifiers, Flags, Reports
  <2>4. TotalLength(published') = 0
    <3>1. Lengths(published') \in Counts /\ NoPlaces \in Counts
      BY <2>2, LengthsAreCounts
    <3>2. \A s \in Symbols : Lengths(published')[s] <= NoPlaces[s]
      BY <2>2 DEF Lengths, NoPlaces
    <3> QED BY <3>1, <3>2, PlacesNone DEF TotalLength
  <2>5. \A s \in Symbols : IsSequence(expected[s]) /\ Len(expected[s]) \in Nat
    BY SequenceLength DEF VInv, VerdictTypes
  <2>6. VerdictTypes'
    BY <2>1, <2>2, <2>3 DEF VInv, VerdictTypes
  <2>7. Counted'
    BY <2>1, <2>4 DEF NewVerifier, Counted
  <2>8. \A s \in Symbols : Follows(published'[s], expected'[s])
    BY <2>1, <2>2, <2>5 DEF Follows
  <2>9. \A s \in Symbols : /\ verifier'.positions[s] = 0
                           /\ verifier'.observed_positions[s] = 0
    BY <2>1 DEF NewVerifier
  <2>10. verifier'.latched_fail # TRUE
    BY <2>1 DEF NewVerifier
  <2>11. Tracking'
    <3>1. \A s \in Symbols : /\ verifier'.positions[s] <= Len(expected'[s])
                             /\ verifier'.observed_positions[s] = Len(published'[s])
                             /\ verifier'.positions[s] = Len(published'[s])
      BY <2>1, <2>2, <2>5, <2>9
    <3> QED BY <2>7, <2>8, <2>10, <3>1, Zenon DEF Tracking
  <2> QED BY <2>1, <2>6, <2>11 DEF VInv, Judged
<1>4. CASE Board \/ FaultyBoard
  BY <1>4, VInvElsewhere DEF Board, FaultyBoard, generator, program
<1>5. CASE Ready
  BY <1>5, VInvElsewhere DEF Ready, generator
<1>6. CASE ReadMessage
  BY <1>6, VInvElsewhere DEF ReadMessage, generator
<1>7. CASE PollCounter \/ ReadBid \/ SetupFails \/ Timeout
  <2>1. /\ UNCHANGED <<expected, published, verifier>>
        /\ phase' \in {phase, "setup failed", "timeout", "counter advanced by more than one",
                       "counter advanced again"}
    BY <1>7 DEF PollCounter, ReadBid, SetupFails, Timeout, Fail, generator, program
  <2> QED BY <2>1, VInvElsewhere
<1>8. CASE ReadAsk
  <2>1. /\ phase = "replay" /\ expected' = expected
        /\ \/ /\ UNCHANGED <<published, verifier>>
              /\ phase' \in {phase, "counter advanced again"}
           \/ /\ phase' = phase
              /\ bid_half.stock \in Symbols
              /\ \E actual :
                   /\ verifier' = Observe(verifier, expected, bid_half.stock, actual)
                   /\ published' = [published EXCEPT ![bid_half.stock] = Append(@, actual)]
    BY <1>8, ReadAskOutcome
  <2> QED BY <2>1, VInvElsewhere, VInvPublish
<1>9. CASE Finish
  BY <1>9, VInvFinish
<1>10. CASE UNCHANGED vars
  BY <1>10, VInvElsewhere DEF vars, generator, program
<1> QED BY <1>1, <1>2, <1>3, <1>4, <1>5, <1>6, <1>7, <1>8, <1>9, <1>10 DEF Next, Replay

LEMMA VInvInit == Init => VInv
<1> SUFFICES ASSUME Init PROVE VInv
  OBVIOUS
<1>1. NewVerifier \in Verifiers
  BY DEF NewVerifier, Verifiers, Flags, Reports
<1>2. IsSequence(<<>>)
  <2>1. <<>> \in Seq({})
    OBVIOUS
  <2> QED BY <2>1 DEF IsSequence
<1> QED BY <1>1, <1>2 DEF Init, VInv, VerdictTypes, Tracking, Judged

LEMMA VInvImplies == VInv => VerdictExact
<1> SUFFICES ASSUME VInv, phase = "done"
             PROVE  ~verifier.latched_fail <=> Agrees(expected, published)
  BY DEF VerdictExact
<1>1. verifier.latched_fail # TRUE <=> Agrees(expected, published)
  BY DEF VInv, Judged
<1>2. verifier.latched_fail <=> verifier.latched_fail = TRUE
  BY FlagOfVerifier DEF VInv, VerdictTypes
<1> QED BY <1>1, <1>2, Zenon

LEMMA VInvHolds == Spec => []VInv
BY MInvHolds, VInvInit, VInvStep, PTL DEF Spec

(* A replay passes if and only if the board has shown what the oracle says *)
(* of every stock, although the comparison goes on after a failure, skips  *)
(* entries and looks for what never came only at the end (oracle.py:164,   *)
(* :235).                                                                  *)
THEOREM VerdictIsExact == Spec => []VerdictExact
BY VInvHolds, VInvImplies, PTL

-----------------------------------------------------------------------------
(* What is lost.                                                           *)

(* places shows that short is a subsequence of long.                       *)
Embeds(places, short, long) ==
  /\ places \subseteq 1 .. Len(long)
  /\ Cardinality(places) = Len(short)
  /\ \A i \in places : long[i] = short[Cardinality({j \in places : j <= i})]

LEMMA SubsequenceEmbeds ==
  ASSUME NEW short, NEW long
  PROVE  IsSubsequence(short, long) <=> \E places : Embeds(places, short, long)
BY DEF IsSubsequence, Embeds

(* The last of an embedding, and the embedding without it.                 *)
LEMMA EmbedsLast ==
  ASSUME NEW short, IsSequence(short), NEW long, IsSequence(long), NEW x,
         NEW places, Embeds(places, Append(short, x), long)
  PROVE  \E m \in places : /\ long[m] = x
                           /\ \A i \in places : i <= m
                           /\ Embeds(places \ {m}, short, long)
<1> DEFINE n == Len(short)
           rank(i) == {j \in places : j <= i}
<1>1. /\ n \in Nat /\ Len(long) \in Nat
      /\ Len(Append(short, x)) = n + 1
      /\ \A i \in 1 .. n : Append(short, x)[i] = short[i]
      /\ Append(short, x)[n + 1] = x
  BY SequenceLength, AppendToSequence
<1>2. /\ places \subseteq 1 .. Len(long)
      /\ Cardinality(places) = n + 1
      /\ \A i \in places : long[i] = Append(short, x)[Cardinality(rank(i))]
  BY <1>1 DEF Embeds
<1>3. IsFiniteSet(places)
  <2>1. IsFiniteSet(1 .. Len(long))
    BY <1>1, FS_Interval
  <2> QED BY <1>2, <2>1, FS_Subset
<1>4. places # {}
  BY <1>1, <1>2, FS_EmptySet
<1>5. PICK m \in places : \A i \in places : i <= m
  <2> DEFINE below == {Len(long) - i : i \in places}
  <2>1. below \subseteq Nat /\ below # {}
    BY <1>1, <1>2, <1>4
  <2>2. PICK least \in below : \A k \in below : least <= k
    <3> HIDE DEF below
    <3> QED BY <2>1, LeastNatural
  <2>3. PICK m \in places : least = Len(long) - m
    OBVIOUS
  <2>4. \A i \in places : Len(long) - m <= Len(long) - i
    BY <2>2, <2>3
  <2> QED BY <1>1, <1>2, <2>4
<1> DEFINE rest == places \ {m}
<1>6. long[m] = x
  <2>1. rank(m) = places
    BY <1>5
  <2> HIDE DEF rank
  <2>2. Cardinality(rank(m)) = n + 1
    BY <1>2, <2>1
  <2>3. long[m] = Append(short, x)[n + 1]
    BY <1>2, <2>2
  <2> QED BY <1>1, <2>3
<1>7. IsFiniteSet(rest) /\ Cardinality(rest) = n
  <2>1. IsFiniteSet(rest) /\ Cardinality(rest) = Cardinality(places) - 1
    BY <1>3, FS_RemoveElement
  <2> QED BY <1>1, <1>2, <2>1
<1>8. ASSUME NEW i \in rest PROVE long[i] = short[Cardinality({j \in rest : j <= i})]
  <2> DEFINE lower == {j \in rest : j <= i}
  <2>1. i \in Nat /\ m \in Nat /\ i < m
    BY <1>1, <1>2, <1>5
  <2>2. rank(i) = lower
    BY <1>1, <1>2, <2>1
  <2>3. lower \subseteq rest /\ i \in lower
    BY <2>1
  <2> HIDE DEF lower, rest, rank
  <2>4. IsFiniteSet(lower) /\ Cardinality(lower) <= n
    BY <1>7, <2>3, FS_Subset
  <2>5. Cardinality(lower) \in Nat /\ Cardinality(lower) # 0
    BY <2>3, <2>4, FS_CardinalityType, FS_EmptySet
  <2>6. long[i] = Append(short, x)[Cardinality(lower)]
    <3>1. i \in places
      BY DEF rest
    <3> QED BY <1>2, <2>2, <3>1
  <2>7. Cardinality(lower) \in 1 .. n
    BY <1>1, <2>4, <2>5
  <2> QED BY <1>1, <2>6, <2>7 DEF lower
<1>9. Embeds(rest, short, long)
  BY <1>2, <1>7, <1>8 DEF Embeds
<1> QED BY <1>5, <1>6, <1>9

(* The comparison is never further in a stock than it must be: no way to   *)
(* find what was seen in the oracle ends before its position.              *)
Greedy ==
  \A s \in Symbols : \A places :
    Embeds(places, published[s], expected[s]) =>
      verifier.positions[s] = 0 \/ \E i \in places : verifier.positions[s] <= i

(* So every mismatch is an entry that was passed over.                     *)
PassedOver ==
  OnlyLost(expected, published) =>
    verifier.mismatches + TotalLength(published) =
      Cardinality(Places(NoPlaces, verifier.positions))

LInv ==
  /\ phase = "replay" => Greedy /\ PassedOver
  /\ LossesCounted

LEMMA LInvPublish ==
  ASSUME VInv, LInv, phase = "replay", UNCHANGED <<phase, expected>>,
         NEW s \in Symbols, NEW actual,
         verifier' = Observe(verifier, expected, s, actual),
         published' = [published EXCEPT ![s] = Append(@, actual)]
  PROVE  LInv'
<1> DEFINE v == verifier
           next == verifier'
           p == verifier.positions[s]
           q == verifier'.positions[s]
           stream == expected[s]
<1>1. /\ VerdictTypes /\ Tracking /\ Greedy /\ PassedOver
  BY DEF VInv, LInv
<1>2. ObserveMoves(v, next, stream, s, actual)
  <2>1. IsSequence(stream)
    BY <1>1 DEF VerdictTypes
  <2> QED BY <1>1, <2>1, ObserveIsPositional DEF VerdictTypes
<1>3. next.positions = [v.positions EXCEPT ![s] = q] /\ next \in Verifiers
  BY <1>2 DEF ObserveMoves
<1>4. \/ Matched(stream, p, q, actual) /\ next.mismatches = v.mismatches
      \/ Skipped(stream, p, q, actual) /\ next.mismatches = v.mismatches + (q - p - 1)
      \/ Unexpected(stream, p, q, actual)
  BY <1>2 DEF ObserveMoves
<1>5. /\ IsSequence(stream) /\ IsSequence(published[s])
      /\ Len(stream) \in Nat
      /\ p \in Nat /\ q \in Nat
      /\ v.mismatches \in Nat
      /\ v.positions \in Counts /\ next.positions \in Counts
  <2>1. IsSequence(stream) /\ IsSequence(published[s])
    BY <1>1 DEF VerdictTypes
  <2>2. /\ p \in Nat /\ q \in Nat /\ v.mismatches \in Nat
        /\ v.positions \in Counts /\ next.positions \in Counts
    BY <1>1, <1>3 DEF VerdictTypes, Verifiers, Counts
  <2> QED BY <2>1, <2>2, SequenceLength
<1>6. /\ published'[s] = Append(published[s], actual)
      /\ \A r \in Symbols : r # s => published'[r] = published[r]
  BY <1>1 DEF VerdictTypes
<1>7. TotalLength(published') = TotalLength(published) + 1 /\ TotalLength(published) \in Nat
  <2>1. Lengths(published) \in Counts /\ NoPlaces \in Counts
    BY <1>1, LengthsAreCounts DEF VerdictTypes
  <2> QED BY <1>1, <2>1, LengthAfterAppend, PlacesFinite DEF VerdictTypes, TotalLength
<1> HIDE DEF v, next, p, q, stream
<1>8. ASSUME NEW places, Embeds(places, published'[s], stream)
      PROVE  /\ \E rest : Embeds(rest, published[s], stream)
             /\ ~Unexpected(stream, p, q, actual)
             /\ \E i \in places : q <= i
  <2>1. PICK m \in places : /\ stream[m] = actual
                            /\ \A i \in places : i <= m
                            /\ Embeds(places \ {m}, published[s], stream)
    BY <1>5, <1>6, <1>8, EmbedsLast
  <2>2. m \in 1 .. Len(stream)
    BY <1>8, <2>1 DEF Embeds
  <2>3. p < m
    <3>1. p = 0 \/ \E i \in places \ {m} : p <= i
      BY <1>1, <2>1 DEF Greedy, p, v, stream
    <3>2. CASE p = 0
      BY <2>2, <3>2
    <3>3. ASSUME NEW i \in places \ {m}, p <= i PROVE p < m
      <4>1. i \in 1 .. Len(stream) /\ i <= m /\ i # m
        BY <1>8, <2>1 DEF Embeds
      <4> QED BY <1>5, <2>2, <3>3, <4>1
    <3> QED BY <3>1, <3>2, <3>3
  <2>4. m \in p + 1 .. Len(stream)
    BY <1>5, <2>2, <2>3
  <2>5. ~Unexpected(stream, p, q, actual)
    BY <2>1, <2>4 DEF Unexpected
  <2>6. q <= m
    <3>1. CASE Matched(stream, p, q, actual)
      BY <1>5, <2>2, <2>3, <3>1 DEF Matched
    <3>2. CASE Skipped(stream, p, q, actual)
      BY <1>5, <2>1, <2>2, <2>3, <3>2 DEF Skipped
    <3> QED BY <1>4, <2>5, <3>1, <3>2
  <2> QED BY <2>1, <2>5, <2>6
<1>9. Greedy'
  <2> SUFFICES ASSUME NEW r \in Symbols, NEW places, Embeds(places, published'[r], expected[r])
               PROVE  next.positions[r] = 0 \/ \E i \in places : next.positions[r] <= i
    BY DEF Greedy, next
  <2>1. CASE r = s
    BY <1>8, <2>1 DEF stream, q, next
  <2>2. CASE r # s
    <3>1. next.positions[r] = v.positions[r]
      BY <1>3, <1>5, <2>2 DEF Counts
    <3> QED BY <1>1, <1>6, <2>2, <3>1 DEF Greedy, v
  <2> QED BY <2>1, <2>2
<1>10. PassedOver'
  <2> SUFFICES ASSUME OnlyLost(expected, published')
               PROVE  next.mismatches + TotalLength(published') =
                        Cardinality(Places(NoPlaces, next.positions))
    BY DEF PassedOver, next
  <2>1. PICK places : Embeds(places, published'[s], stream)
    BY SubsequenceEmbeds DEF OnlyLost, stream
  <2>2. OnlyLost(expected, published)
    <3> SUFFICES ASSUME NEW r \in Symbols PROVE IsSubsequence(published[r], expected[r])
      BY DEF OnlyLost
    <3>1. CASE r = s
      BY <1>8, <2>1, <3>1, SubsequenceEmbeds DEF stream
    <3>2. CASE r # s
      BY <1>6, <3>2 DEF OnlyLost
    <3> QED BY <3>1, <3>2
  <2>3. v.mismatches + TotalLength(published) = Cardinality(Places(NoPlaces, v.positions))
    BY <1>1, <2>2 DEF PassedOver, v
  <2>4. next.mismatches = v.mismatches + (q - p - 1) /\ p <= q
    <3>1. ~Unexpected(stream, p, q, actual)
      BY <1>8, <2>1
    <3>2. CASE Matched(stream, p, q, actual) /\ next.mismatches = v.mismatches
      BY <1>5, <3>2 DEF Matched
    <3>3. CASE Skipped(stream, p, q, actual) /\ next.mismatches = v.mismatches + (q - p - 1)
      BY <1>5, <3>3 DEF Skipped
    <3> QED BY <1>4, <3>1, <3>2, <3>3
  <2>5. Cardinality(Places(v.positions, next.positions)) = q - p
    <3>1. p = v.positions[s]
      BY DEF p, v
    <3> QED BY <1>3, <1>5, <2>4, <3>1, PlacesOfOne
  <2>6. NoPlaces \in Counts
    BY DEF NoPlaces, Counts
  <2>7. \A r \in Symbols : NoPlaces[r] <= v.positions[r] /\ v.positions[r] <= next.positions[r]
    <3> SUFFICES ASSUME NEW r \in Symbols
                 PROVE  NoPlaces[r] <= v.positions[r] /\ v.positions[r] <= next.positions[r]
      OBVIOUS
    <3>1. v.positions[r] \in Nat /\ NoPlaces[r] = 0
      BY <1>5 DEF Counts, NoPlaces
    <3>2. CASE r = s
      BY <2>4, <3>1, <3>2 DEF p, q, v, next
    <3>3. CASE r # s
      BY <1>3, <1>5, <3>1, <3>3 DEF Counts
    <3> QED BY <3>2, <3>3
  <2>8. Cardinality(Places(NoPlaces, next.positions)) =
          Cardinality(Places(NoPlaces, v.positions)) + (q - p)
    BY <1>5, <2>5, <2>6, <2>7, PlacesJoin
  <2>9. /\ next.mismatches = v.mismatches + (q - p - 1)
        /\ TotalLength(published') = TotalLength(published) + 1
        /\ v.mismatches \in Nat /\ TotalLength(published) \in Nat /\ p \in Nat /\ q \in Nat
    BY <1>5, <1>7, <2>4
  <2>10. next.mismatches + TotalLength(published') =
           (v.mismatches + TotalLength(published)) + (q - p)
    BY <2>9
  <2> QED BY <2>3, <2>8, <2>10
<1> QED BY <1>9, <1>10 DEF LInv, LossesCounted

LEMMA LInvFinish ==
  ASSUME VInv, VInv', LInv, Finish PROVE LInv'
<1>1. VerdictTypes /\ Tracking /\ phase = "replay" /\ UNCHANGED <<expected, published>>
  BY DEF VInv, Finish, generator
<1>2. CASE mapped # Symbols
  <2>1. phase' = "stock not mapped"
    BY <1>2 DEF Finish
  <2> QED BY <2>1 DEF LInv, LossesCounted
<1>3. CASE mapped = Symbols
  <2> DEFINE v == verifier
             next == verifier'
             missing == Missing(v, expected)
  <2>1. phase' = "done" /\ next = Finalise(v, expected, TRUE, TRUE)
    BY <1>3 DEF Finish
  <2>2. \A s \in Symbols : IsSequence(expected[s]) /\ v.positions[s] <= Len(expected[s])
    BY <1>1 DEF VerdictTypes, Tracking
  <2>3. v \in Verifiers /\ v.mismatches \in Nat
    BY <1>1 DEF VerdictTypes, Verifiers
  <2>4. next.mismatches = v.mismatches + missing /\ missing \in Nat
    BY <2>1, <2>2, <2>3, FinaliseCounts DEF Finalises
  <2>5. next.comparisons = TotalLength(published)
    BY <1>1, <2>1 DEF VInv, Judged, Counted
  <2>6. v.positions \in Counts /\ Lengths(expected) \in Counts /\ NoPlaces \in Counts
    BY <2>2, <2>3, LengthsAreCounts DEF Verifiers, Counts
  <2>7. \A s \in Symbols : NoPlaces[s] <= v.positions[s] /\ v.positions[s] <= Lengths(expected)[s]
    BY <2>2, <2>6 DEF NoPlaces, Counts, Lengths
  <2> HIDE DEF v
  <2>8. total_expected(expected) = Cardinality(Places(NoPlaces, v.positions)) + missing
    BY <2>6, <2>7, PlacesJoin DEF total_expected, TotalLength, Missing
  <2>9. TotalLength(published) \in Nat
    <3>1. Lengths(published) \in Counts
      BY <1>1, LengthsAreCounts DEF VerdictTypes
    <3> QED BY <2>6, <3>1, PlacesFinite DEF TotalLength
  <2>10. ASSUME OnlyLost(expected, published)
         PROVE  next.mismatches = total_expected(expected) - next.comparisons
    <3>1. v.mismatches + TotalLength(published) = Cardinality(Places(NoPlaces, v.positions))
      BY <1>1, <2>10 DEF LInv, PassedOver, v
    <3> HIDE DEF missing
    <3> QED BY <2>3, <2>4, <2>5, <2>8, <2>9, <3>1
  <2> QED BY <1>1, <2>1, <2>10 DEF LInv, LossesCounted
<1> QED BY <1>2, <1>3

LEMMA LInvElsewhere ==
  ASSUME LInv, UNCHANGED <<expected, published, verifier>>,
         phase' \in {"replay", "done"} => phase' = phase
  PROVE  LInv'
BY DEF LInv, Greedy, PassedOver, LossesCounted

LEMMA LInvStep == MInv /\ VInv /\ VInv' /\ LInv /\ [Next]_vars => LInv'
<1> SUFFICES ASSUME MInv, VInv, VInv', LInv, [Next]_vars PROVE LInv'
  OBVIOUS
<1>1. ASSUME NEW m \in Messages, Generate(m) PROVE LInv'
  <2>1. phase' = "generate"
    BY <1>1, Zenon DEF Generate
  <2> QED BY <2>1 DEF LInv, LossesCounted
<1>2. CASE WriteOracle
  BY <1>2 DEF WriteOracle, LInv, LossesCounted
<1>3. CASE Begin
  <2>1. /\ phase' = "replay" /\ expected' = expected
        /\ published' = [s \in Symbols |-> <<>>]
        /\ verifier' = NewVerifier
    BY <1>3 DEF Begin, generator
  <2>2. \A s \in Symbols : verifier'.positions[s] = 0
    BY <2>1 DEF NewVerifier
  <2>3. Counted' /\ VerdictTypes'
    BY <2>1 DEF VInv, Tracking
  <2>4. verifier'.mismatches = 0 /\ verifier'.comparisons = 0
    BY <2>1 DEF NewVerifier
  <2>5. TotalLength(published') = 0
    BY <2>3, <2>4 DEF Counted
  <2>6. Cardinality(Places(NoPlaces, verifier'.positions)) = 0
    <3>1. verifier'.positions \in Counts /\ NoPlaces \in Counts
      BY <2>3 DEF VerdictTypes, Verifiers, Counts, NoPlaces
    <3>2. \A s \in Symbols : verifier'.positions[s] <= NoPlaces[s]
      BY <2>2 DEF NoPlaces
    <3> QED BY <3>1, <3>2, PlacesNone
  <2> QED BY <2>1, <2>2, <2>4, <2>5, <2>6 DEF LInv, Greedy, PassedOver, LossesCounted
<1>4. CASE Board \/ FaultyBoard
  BY <1>4, LInvElsewhere DEF Board, FaultyBoard, generator, program
<1>5. CASE Ready
  BY <1>5, LInvElsewhere DEF Ready, generator
<1>6. CASE ReadMessage
  BY <1>6, LInvElsewhere DEF ReadMessage, generator
<1>7. CASE PollCounter \/ ReadBid \/ SetupFails \/ Timeout
  <2>1. /\ UNCHANGED <<expected, published, verifier>>
        /\ phase' \in {phase, "setup failed", "timeout", "counter advanced by more than one",
                       "counter advanced again"}
    BY <1>7 DEF PollCounter, ReadBid, SetupFails, Timeout, Fail, generator, program
  <2> QED BY <2>1, LInvElsewhere
<1>8. CASE ReadAsk
  <2>1. /\ phase = "replay" /\ expected' = expected
        /\ \/ /\ UNCHANGED <<published, verifier>>
              /\ phase' \in {phase, "counter advanced again"}
           \/ /\ phase' = phase
              /\ bid_half.stock \in Symbols
              /\ \E actual :
                   /\ verifier' = Observe(verifier, expected, bid_half.stock, actual)
                   /\ published' = [published EXCEPT ![bid_half.stock] = Append(@, actual)]
    BY <1>8, ReadAskOutcome
  <2> QED BY <2>1, LInvElsewhere, LInvPublish
<1>9. CASE Finish
  BY <1>9, LInvFinish
<1>10. CASE UNCHANGED vars
  BY <1>10, LInvElsewhere DEF vars, generator, program
<1> QED BY <1>1, <1>2, <1>3, <1>4, <1>5, <1>6, <1>7, <1>8, <1>9, <1>10 DEF Next, Replay

(* A board that only leaves updates out is charged with exactly those:     *)
(* resynchronising at the first later entry that fits never passes over    *)
(* one that could still be matched (oracle.py:164).                        *)
THEOREM LossesAreCounted == Spec => []LossesCounted
<1>1. Init => LInv
  BY DEF Init, LInv, LossesCounted
<1>2. LInv => LossesCounted
  BY DEF LInv
<1>3. MInv /\ VInv /\ VInv' /\ LInv /\ [Next]_vars => LInv'
  BY LInvStep
<1> QED BY <1>1, <1>2, <1>3, MInvHolds, VInvHolds, PTL DEF Spec

-----------------------------------------------------------------------------
(* The tables of a file that is representative, and what the board makes of *)
(* them.                                                                   *)

Whole(price) == price = Cents(price) * PRICE_UNIT

Fits(table, s) ==
  /\ table \in Tables
  /\ \A r \in Refs :
       Live(table, r) => /\ table[r].shares > 0
                         /\ Whole(table[r].price)
                         /\ Cents(table[r].price) \in Prices
                         /\ Cents(table[r].price) >= BasePrice[s]

OrderInCents(order) == [order EXCEPT !.price = Cents(@)]
TableInCents(table) ==
  [r \in Refs |-> IF Live(table, r) THEN OrderInCents(table[r]) ELSE NoOrder]

LEMMA WholePrices ==
  ASSUME NEW p \in Nat, NEW q \in Nat, Whole(p), Whole(q)
  PROVE  /\ Cents(p) \in Nat
         /\ p <= q <=> Cents(p) <= Cents(q)
         /\ Cents(p) = Cents(q) => p = q
<1>1. PRICE_UNIT \in Nat \ {0}
  BY ReplayAssumption
<1>2. Cents(p) \in Nat /\ Cents(q) \in Nat
  BY <1>1 DEF Cents
<1>3. ASSUME NEW a \in Nat, NEW b \in Nat, a < b
      PROVE  a * PRICE_UNIT < b * PRICE_UNIT
  <2>1. b = a + 1 + (b - a - 1) /\ b - a - 1 \in Nat
    BY <1>3
  <2>2. PICK d \in Nat : b = a + 1 + d
    BY <2>1
  <2>3. b * PRICE_UNIT = a * PRICE_UNIT + PRICE_UNIT + d * PRICE_UNIT
    BY <1>1, <2>2
  <2>4. d * PRICE_UNIT \in Nat /\ a * PRICE_UNIT \in Nat
    BY <1>1
  <2> QED BY <1>1, <2>3, <2>4
<1>4. p = Cents(p) * PRICE_UNIT /\ q = Cents(q) * PRICE_UNIT
  BY DEF Whole
<1> DEFINE a == Cents(p)
           b == Cents(q)
<1>5. a \in Nat /\ b \in Nat /\ p = a * PRICE_UNIT /\ q = b * PRICE_UNIT
  BY <1>2, <1>4
<1> HIDE DEF a, b
<1>6. a < b => p < q
  BY <1>3, <1>5
<1>7. b < a => q < p
  BY <1>3, <1>5
<1>8. a = b => p = q
  BY <1>5
<1> QED BY <1>5, <1>6, <1>7, <1>8 DEF a, b

(* The best of some prices is one of them, and no other is better.         *)
NoBetter(side, best, prices) ==
  \A q \in prices : IF side = "BUY" THEN q <= best ELSE best <= q

LEMMA BestExists ==
  ASSUME NEW side \in Sides, NEW S, S \subseteq Prices, S # {}
  PROVE  Best(side, S) \in S /\ NoBetter(side, Best(side, S), S)
<1>1. S \subseteq Nat /\ PRICE_MAX \in Nat /\ \A p \in S : p <= PRICE_MAX
  BY LimitOrdersAssumption
<1>2. CASE side = "BUY"
  <2> DEFINE D == {PRICE_MAX - p : p \in S}
  <2>1. D \subseteq Nat /\ D # {}
    <3>1. ASSUME NEW p \in S PROVE PRICE_MAX - p \in Nat
      BY <1>1
    <3> QED BY <3>1
  <2>2. PICK least \in D : \A d \in D : least <= d
    BY <2>1, LeastNatural
  <2>3. PICK p \in S : least = PRICE_MAX - p
    BY <2>2
  <2>4. \A q \in S : q <= p
    <3> SUFFICES ASSUME NEW q \in S PROVE q <= p
      OBVIOUS
    <3>1. PRICE_MAX - p <= PRICE_MAX - q
      BY <2>2, <2>3
    <3> QED BY <1>1, <3>1
  <2>5. Best(side, S) = CHOOSE b \in S : \A q \in S : q <= b
    BY <1>2 DEF Best
  <2>6. \E b \in S : \A q \in S : q <= b
    BY <2>4
  <2> DEFINE b == Best(side, S)
  <2>7. b \in S /\ \A q \in S : q <= b
    BY <2>5, <2>6, Zenon
  <2> QED BY <1>2, <2>7 DEF NoBetter
<1>3. CASE side = "SELL"
  <2>1. PICK least \in S : \A n \in S : least <= n
    BY <1>1, LeastNatural
  <2>2. Best(side, S) = CHOOSE b \in S : \A q \in S : b <= q
    BY <1>3 DEF Best
  <2> DEFINE b == Best(side, S)
  <2>3. b \in S /\ \A q \in S : b <= q
    BY <2>1, <2>2, Zenon
  <2> QED BY <1>3, <2>3 DEF NoBetter
<1> QED BY <1>2, <1>3 DEF Sides

LEMMA BestIsUnique ==
  ASSUME NEW side \in Sides, NEW S, S \subseteq Prices, NEW b \in S, NoBetter(side, b, S)
  PROVE  Best(side, S) = b
<1>1. Best(side, S) \in S /\ NoBetter(side, Best(side, S), S)
  BY BestExists
<1>2. S \subseteq Nat
  BY LimitOrdersAssumption
<1> DEFINE a == Best(side, S)
<1>3. a \in Nat /\ b \in Nat /\ a \in S
  BY <1>1, <1>2
<1>4. a <= b /\ b <= a
  BY <1>1, <1>3 DEF NoBetter
<1> QED BY <1>3, <1>4

(* Conversion keeps who rests where.                                       *)
LEMMA SameOrders ==
  ASSUME NEW s, NEW table, Fits(table, s), NEW side \in Sides,
         NEW price \in Nat, Whole(price)
  PROVE  /\ OrdersAt(TableInCents(table), side, Cents(price)) = OrdersAt(table, side, price)
         /\ ShareUnits(TableInCents(table), side, Cents(price)) = ShareUnits(table, side, price)
<1> DEFINE new == TableInCents(table)
<1>1. ASSUME NEW r \in Refs
      PROVE  /\ Live(new, r) <=> Live(table, r)
             /\ Live(table, r) => /\ new[r].side = table[r].side
                                  /\ new[r].shares = table[r].shares
                                  /\ new[r].price = Cents(table[r].price)
                                  /\ table[r].price \in Nat /\ Whole(table[r].price)
  <2>1. CASE Live(table, r)
    <3>1. table[r] \in Order /\ Cents(table[r].price) \in Prices /\ Whole(table[r].price)
      BY <2>1 DEF Fits, Tables, Live
    <3>2. /\ new[r] = OrderInCents(table[r])
          /\ OrderInCents(table[r]) \in Order
          /\ OrderInCents(table[r]).price = Cents(table[r].price)
          /\ OrderInCents(table[r]).side = table[r].side
          /\ OrderInCents(table[r]).shares = table[r].shares
      <4> DEFINE c == Cents(table[r].price)
      <4>1. c \in Prices
        BY <3>1
      <4>2. OrderInCents(table[r]) = [table[r] EXCEPT !.price = c]
        BY DEF OrderInCents
      <4> HIDE DEF c
      <4>3. /\ OrderInCents(table[r]) \in Order
            /\ OrderInCents(table[r]).price = c
            /\ OrderInCents(table[r]).side = table[r].side
            /\ OrderInCents(table[r]).shares = table[r].shares
        BY <3>1, <4>1, <4>2 DEF Order
      <4>4. new[r] = OrderInCents(table[r])
        BY <2>1 DEF TableInCents
      <4> QED BY <4>3, <4>4 DEF c
    <3>3. Live(new, r)
      BY <3>2, LimitOrdersAssumption DEF Live
    <3>4. table[r].price \in Nat
      <4>1. table[r].price \in Prices
        BY <3>1 DEF Order
      <4>2. Prices \subseteq Nat
        BY LimitOrdersAssumption
      <4> QED BY <4>1, <4>2
    <3> QED BY <2>1, <3>1, <3>2, <3>3, <3>4
  <2>2. CASE ~Live(table, r)
    BY <2>2 DEF TableInCents, Live
  <2> QED BY <2>1, <2>2
<1> HIDE DEF new
<1>2. ASSUME NEW r \in Refs
      PROVE  r \in OrdersAt(new, side, Cents(price)) <=> r \in OrdersAt(table, side, price)
  <2>1. Live(table, r) => (table[r].price = price <=> new[r].price = Cents(price))
    BY <1>1, WholePrices
  <2> QED BY <1>1, <2>1 DEF OrdersAt
<1>3. OrdersAt(new, side, Cents(price)) = OrdersAt(table, side, price)
  BY <1>2 DEF OrdersAt
<1>4. \A r \in OrdersAt(table, side, price) : r \in Refs /\ new[r].shares = table[r].shares
  BY <1>1 DEF OrdersAt
<1>5. ShareUnits(new, side, Cents(price)) = ShareUnits(table, side, price)
  BY <1>3, <1>4 DEF ShareUnits
<1> QED BY <1>3, <1>5 DEF new

(* A level of a table that fits has shares.                                *)
LEMMA LevelHasShares ==
  ASSUME NEW s, NEW table, Fits(table, s), NEW side \in Sides,
         NEW price \in Prices, OrdersAt(table, side, price) # {}
  PROVE  /\ LevelOf(table, side, price).shares = Cardinality(ShareUnits(table, side, price))
         /\ Cardinality(ShareUnits(table, side, price)) \in Nat \ {0}
<1>1. LevelOf(table, side, price).shares = Cardinality(ShareUnits(table, side, price))
  BY DEF LevelOf
<1>2. PICK r \in OrdersAt(table, side, price) : TRUE
  OBVIOUS
<1>3. r \in Refs /\ table[r] \in Order /\ table[r].shares > 0
  BY <1>2 DEF OrdersAt, Fits, Tables, Live
<1>4. table[r].shares \in Nat /\ table[r].shares <= SHARES_MAX /\ SHARES_MAX \in Nat
  BY <1>3, LimitOrdersAssumption DEF Order, Shares
<1>5. <<r, 1>> \in ShareUnits(table, side, price)
  BY <1>2, <1>3, <1>4 DEF ShareUnits
<1>6. IsFiniteSet(ShareUnits(table, side, price))
  <2>1. IsFiniteSet(Refs) /\ IsFiniteSet(1 .. SHARES_MAX)
    BY <1>4, LimitOrdersAssumption, FS_Interval
  <2>2. IsFiniteSet(Refs \X (1 .. SHARES_MAX))
    BY <2>1, FS_Product
  <2>3. ShareUnits(table, side, price) \subseteq Refs \X (1 .. SHARES_MAX)
    BY DEF ShareUnits, OrdersAt
  <2> QED BY <2>2, <2>3, FS_Subset
<1>7. Cardinality(ShareUnits(table, side, price)) \in Nat
  BY <1>6, FS_CardinalityType
<1>8. Cardinality(ShareUnits(table, side, price)) # 0
  BY <1>5, <1>6, FS_EmptySet
<1> QED BY <1>1, <1>7, <1>8

(* A side that is shown: it is empty, or a price of the grid with shares.  *)
Shown(top) == top = Empty \/ (top \in [price : Nat, size : Nat] /\ top.size > 0)

LEMMA TopInCents ==
  ASSUME NEW s \in Symbols, NEW table, Fits(table, s), NEW side \in Sides
  PROVE  /\ TopOf(TableInCents(table), side) = InCents(TopOf(table, side))
         /\ ~BelowBase(TopOf(table, side), s)
         /\ Shown(InCents(TopOf(table, side)))
         /\ TopOf(table, side) \in [price : Int, size : Nat]
         /\ (\E r \in Refs : Live(table, r) /\ table[r].side = side) =>
              InCents(TopOf(table, side)) # Empty
<1> DEFINE new == TableInCents(table)
           old == OccupiedPrices(table, side)
           conv == OccupiedPrices(new, side)
<1>1. old \subseteq Prices /\ conv \subseteq Prices /\ Prices \subseteq Nat
  BY LimitOrdersAssumption DEF OccupiedPrices
<1>2. ASSUME NEW p \in old
      PROVE  /\ Whole(p) /\ Cents(p) \in Prices /\ Cents(p) \in conv /\ Cents(p) >= BasePrice[s]
  <2>1. PICK r \in Refs : Live(table, r) /\ table[r].price = p
    BY DEF OccupiedPrices, OrdersAt
  <2>2. Whole(p) /\ Cents(p) \in Prices /\ Cents(p) >= BasePrice[s]
    BY <2>1 DEF Fits
  <2>3. OrdersAt(new, side, Cents(p)) = OrdersAt(table, side, p)
    BY <1>1, <2>2, SameOrders
  <2>4. OrdersAt(table, side, p) # {}
    BY DEF OccupiedPrices
  <2> QED BY <2>2, <2>3, <2>4 DEF OccupiedPrices
<1>3. ASSUME NEW c \in conv
      PROVE  \E p \in old : c = Cents(p)
  <2>1. PICK r \in OrdersAt(new, side, c) : TRUE
    BY DEF OccupiedPrices
  <2>2. r \in Refs /\ Live(new, r) /\ new[r].side = side /\ new[r].price = c
    BY <2>1 DEF OrdersAt
  <2>3. Live(table, r) /\ new[r] = OrderInCents(table[r])
    BY <2>2 DEF TableInCents, Live
  <2>4. table[r] \in Order
    BY <2>2, <2>3 DEF Fits, Tables, Live
  <2>5. table[r].side = side /\ c = Cents(table[r].price) /\ table[r].price \in Prices
    BY <2>2, <2>3, <2>4 DEF OrderInCents, Order
  <2>6. r \in OrdersAt(table, side, table[r].price)
    BY <2>2, <2>3, <2>5 DEF OrdersAt
  <2> QED BY <2>5, <2>6 DEF OccupiedPrices
<1>4. CASE old = {}
  <2>1. conv = {}
    BY <1>3, <1>4
  <2>2. TopOf(table, side) = Empty /\ TopOf(new, side) = Empty
    BY <1>4, <2>1 DEF TopOf
  <2>3. InCents(Empty) = Empty
    BY DEF InCents
  <2>4. Empty \in [price : Int, size : Nat]
    BY DEF Empty
  <2>5. ~\E r \in Refs : Live(table, r) /\ table[r].side = side
    <3> SUFFICES ASSUME NEW r \in Refs, Live(table, r), table[r].side = side
                 PROVE  FALSE
      OBVIOUS
    <3>1. table[r].price \in Prices
      BY DEF Fits, Tables, Live, Order
    <3>2. r \in OrdersAt(table, side, table[r].price)
      BY DEF OrdersAt
    <3> QED BY <1>4, <3>1, <3>2 DEF OccupiedPrices
  <2> QED BY <2>2, <2>3, <2>4, <2>5 DEF BelowBase, Shown
<1>5. CASE old # {}
  <2> DEFINE p == Best(side, old)
             size == Cardinality(ShareUnits(table, side, p))
  <2>1. p \in old /\ NoBetter(side, p, old)
    BY <1>1, <1>5, BestExists
  <2>2. p \in Prices /\ p \in Nat /\ Whole(p) /\ Cents(p) \in conv /\ Cents(p) \in Prices
        /\ Cents(p) >= BasePrice[s] /\ OrdersAt(table, side, p) # {}
    BY <1>1, <1>2, <2>1 DEF OccupiedPrices
  <2>3. LevelOf(table, side, p).shares = size /\ size \in Nat \ {0}
    BY <2>2, LevelHasShares
  <2>4. TopOf(table, side) = [price |-> p, size |-> size]
    BY <1>5, <2>3 DEF TopOf
  <2> HIDE DEF p
  <2>5. NoBetter(side, Cents(p), conv)
    <3> SUFFICES ASSUME NEW c \in conv
                 PROVE  IF side = "BUY" THEN c <= Cents(p) ELSE Cents(p) <= c
      BY DEF NoBetter
    <3>1. PICK q \in old : c = Cents(q)
      BY <1>3
    <3>2. q \in Nat /\ Whole(q)
      BY <1>1, <1>2
    <3>3. IF side = "BUY" THEN q <= p ELSE p <= q
      BY <2>1 DEF NoBetter
    <3>4. (q <= p <=> Cents(q) <= Cents(p)) /\ (p <= q <=> Cents(p) <= Cents(q))
      BY <2>2, <3>2, WholePrices
    <3> QED BY <3>1, <3>3, <3>4
  <2>6. Best(side, conv) = Cents(p)
    BY <1>1, <2>2, <2>5, BestIsUnique
  <2>7. /\ OrdersAt(new, side, Cents(p)) = OrdersAt(table, side, p)
        /\ ShareUnits(new, side, Cents(p)) = ShareUnits(table, side, p)
    BY <2>2, SameOrders
  <2>8. LevelOf(new, side, Cents(p)).shares = size
    BY <2>2, <2>7 DEF LevelOf
  <2>9. conv # {}
    BY <2>2
  <2>10. TopOf(new, side) = [price |-> Cents(p), size |-> size]
    BY <2>6, <2>8, <2>9 DEF TopOf
  <2> HIDE DEF new, old, conv, size
  <2>11. [price |-> p, size |-> size] # Empty /\ [price |-> Cents(p), size |-> size] # Empty
    BY <2>3 DEF Empty
  <2>12. InCents(TopOf(table, side)) = [price |-> Cents(p), size |-> size]
    BY <2>4, <2>11 DEF InCents
  <2>13. Cents(p) \in Nat
    BY <1>1, <2>2
  <2>14. ~BelowBase(TopOf(table, side), s)
    <3>1. BasePrice[s] \in Nat
      BY ReplayAssumption
    <3>2. ~(Cents(p) < BasePrice[s])
      BY <2>2, <2>13, <3>1
    <3> QED BY <2>4, <3>2 DEF BelowBase
  <2> QED BY <2>2, <2>3, <2>4, <2>10, <2>11, <2>12, <2>13, <2>14 DEF Shown, new
<1> QED BY <1>4, <1>5

LEMMA BboInCents ==
  ASSUME NEW s \in Symbols, NEW table, Fits(table, s)
  PROVE  /\ BboOf(TableInCents(table)) = Comparable(BboOf(table))
         /\ Representable(BboOf(table), s)
         /\ BboOf(table) \in [Sides -> [price : Int, size : Nat]]
         /\ Comparable(BboOf(table)) \in [Sides -> [price : Int, size : Nat]]
         /\ Normalised(Registers(Comparable(BboOf(table)))) = Comparable(BboOf(table))
         /\ \A r \in Refs :
              Live(table, r) => Registers(Comparable(BboOf(table))) # NothingShown
<1> DEFINE bbo == BboOf(table)
           c == Comparable(bbo)
<1>1. ASSUME NEW side \in Sides
      PROVE  /\ bbo[side] = TopOf(table, side)
             /\ c[side] = InCents(TopOf(table, side))
  BY DEF BboOf, Comparable
<1>2. ASSUME NEW side \in Sides
      PROVE  /\ TopOf(TableInCents(table), side) = InCents(TopOf(table, side))
             /\ ~BelowBase(TopOf(table, side), s)
             /\ Shown(InCents(TopOf(table, side)))
             /\ TopOf(table, side) \in [price : Int, size : Nat]
             /\ (\E r \in Refs : Live(table, r) /\ table[r].side = side) =>
                  InCents(TopOf(table, side)) # Empty
  BY TopInCents
<1>3. BboOf(TableInCents(table)) = c
  BY <1>2 DEF BboOf, Comparable
<1>4. Representable(bbo, s)
  BY <1>1, <1>2 DEF Representable
<1>5. bbo \in [Sides -> [price : Int, size : Nat]]
  BY <1>2 DEF BboOf
<1>6. ASSUME NEW side \in Sides
      PROVE  c[side] \in [price : Int, size : Nat] /\ Shown(c[side])
  <2>1. Shown(c[side])
    BY <1>1, <1>2
  <2> QED BY <2>1 DEF Shown, Empty
<1>7. c \in [Sides -> [price : Int, size : Nat]]
  BY <1>6 DEF Comparable
<1> DEFINE reg == Registers(c)
<1>8. ASSUME NEW side \in Sides
      PROVE  /\ c[side] = Empty => reg[side] = [price |-> 0, size |-> 0]
             /\ c[side] # Empty => reg[side] = c[side] /\ c[side].size > 0 /\ c[side].size \in Nat
  BY <1>6 DEF Registers, Shown
<1> HIDE DEF c, reg
<1>9. Normalised(reg) = c
  <2>1. ASSUME NEW side \in Sides
        PROVE  (IF reg[side].size = 0 THEN Empty ELSE reg[side]) = c[side]
    BY <1>8
  <2> QED BY <1>7, <2>1 DEF Normalised
<1>10. ASSUME NEW r \in Refs, Live(table, r)
       PROVE  reg # NothingShown
  <2> DEFINE side == table[r].side
  <2>1. side \in Sides
    BY <1>10 DEF Fits, Tables, Live, Order
  <2>2. c[side] # Empty
    BY <1>1, <1>2, <1>10, <2>1
  <2>3. reg[side].size # 0
    BY <1>8, <2>1, <2>2
  <2>4. NothingShown[side].size = 0
    BY <2>1 DEF NothingShown
  <2> QED BY <2>3, <2>4
<1> QED BY <1>3, <1>4, <1>5, <1>7, <1>9, <1>10 DEF c, reg

(* A message of a representative file for a table it may be sent to.       *)
Suits(m, table, s) ==
  /\ m \in BookMessages
  /\ m.stock = s
  /\ m.type \in PricedTypes =>
       Whole(m.price) /\ Cents(m.price) >= BasePrice[s] /\ m.shares > 0
  /\ m.type # "A" => Live(table, m.ref)

LEMMA NewOrderFits ==
  ASSUME NEW m \in BookMessages, NEW s, m.type \in PricedTypes,
         Whole(m.price) /\ Cents(m.price) >= BasePrice[s] /\ m.shares > 0, NEW side \in Sides
  PROVE  LET order == [side |-> side, price |-> m.price, shares |-> m.shares]
         IN  /\ order \in Order
             /\ OrderInCents(order) = [side |-> side, price |-> Cents(m.price), shares |-> m.shares]
             /\ order.shares > 0 /\ Whole(order.price)
             /\ Cents(order.price) \in Prices /\ Cents(order.price) >= BasePrice[s]
<1>1. m.price \in Prices /\ Cents(m.price) \in Prices /\ m.shares \in Shares
  BY MessageFields DEF BookMessages, PricedTypes
<1> QED BY <1>1 DEF Order, OrderInCents

LEMMA AppliedInCents ==
  ASSUME NEW s \in Symbols, NEW table, Fits(table, s), NEW m, Suits(m, table, s),
         NEW side \in Sides
  PROVE  LET after == Applied(table, m, PriceOf(m), side)
         IN  /\ Fits(after, s)
             /\ Applied(TableInCents(table), m, Cents(PriceOf(m)), side) = TableInCents(after)
<1> DEFINE new == TableInCents(table)
<1>1. /\ m \in BookMessages /\ m.type \in BookTypes
      /\ m.ref \in Refs
      /\ m.type \in {"A", "X", "U"} => m.shares \in Shares
      /\ m.type = "A" => m.side \in Sides
      /\ m.type = "U" => m.new_ref \in Refs
      /\ m.type \in PricedTypes => PriceOf(m) = m.price
  BY MessageFields DEF Suits, BookMessages, PriceOf
<1>2. NoOrder \notin Order /\ table \in Tables
  BY LimitOrdersAssumption DEF Fits
<1>3. CASE m.type = "A"
  <2> DEFINE order == [side |-> m.side, price |-> m.price, shares |-> m.shares]
  <2>1. /\ order \in Order /\ order # NoOrder
        /\ OrderInCents(order) = [side |-> m.side, price |-> Cents(m.price), shares |-> m.shares]
        /\ order.shares > 0 /\ Whole(order.price)
        /\ Cents(order.price) \in Prices /\ Cents(order.price) >= BasePrice[s]
    BY <1>1, <1>2, <1>3, NewOrderFits DEF Suits, PricedTypes
  <2>2. Applied(table, m, PriceOf(m), side) = [table EXCEPT ![m.ref] = order]
    BY <1>1, <1>3 DEF Applied, PricedTypes
  <2>3. Applied(new, m, Cents(PriceOf(m)), side) = [new EXCEPT ![m.ref] = OrderInCents(order)]
    BY <1>1, <1>3, <2>1 DEF Applied, PricedTypes
  <2> HIDE DEF order
  <2>4. Fits([table EXCEPT ![m.ref] = order], s)
    BY <1>1, <1>2, <2>1 DEF Fits, Tables, Live
  <2>5. TableInCents([table EXCEPT ![m.ref] = order]) = [new EXCEPT ![m.ref] = OrderInCents(order)]
    BY <1>1, <1>2, <2>1 DEF TableInCents, Live, Tables
  <2> QED BY <2>2, <2>3, <2>4, <2>5
<1>4. CASE m.type = "D"
  <2>2. Applied(table, m, PriceOf(m), side) = [table EXCEPT ![m.ref] = NoOrder]
    BY <1>4 DEF Applied
  <2>3. Applied(new, m, Cents(PriceOf(m)), side) = [new EXCEPT ![m.ref] = NoOrder]
    BY <1>4 DEF Applied
  <2>4. Fits([table EXCEPT ![m.ref] = NoOrder], s)
    BY <1>1, <1>2 DEF Fits, Tables, Live
  <2>5. TableInCents([table EXCEPT ![m.ref] = NoOrder]) = [new EXCEPT ![m.ref] = NoOrder]
    BY <1>1, <1>2 DEF TableInCents, Live, Tables
  <2> QED BY <2>2, <2>3, <2>4, <2>5
<1>5. CASE m.type = "X"
  <2> DEFINE old == table[m.ref]
             left == Reduced(old, m.shares)
             conv == IF left # NoOrder THEN OrderInCents(left) ELSE NoOrder
  <2>1. /\ old \in Order /\ old.shares > 0 /\ Whole(old.price) /\ Live(table, m.ref)
        /\ Cents(old.price) \in Prices /\ Cents(old.price) >= BasePrice[s]
    BY <1>1, <1>5 DEF Fits, Tables, Live, Suits
  <2>2. new[m.ref] = OrderInCents(old)
    BY <1>1, <2>1 DEF TableInCents
  <2>3. /\ left # NoOrder => /\ left \in Order /\ left.shares > 0 /\ left.price = old.price
        /\ Reduced(OrderInCents(old), m.shares) = conv
    <3>1. old.shares \in Nat /\ m.shares \in Nat
      BY <1>1, <1>5, <2>1, LimitOrdersAssumption DEF Order, Shares
    <3>2. OrderInCents(old).shares = old.shares
      BY <2>1 DEF OrderInCents, Order
    <3>3. CASE m.shares >= old.shares
      BY <3>2, <3>3 DEF Reduced
    <3>4. CASE ~(m.shares >= old.shares)
      <4> DEFINE n == old.shares - m.shares
                 cents == Cents(old.price)
      <4>1. n \in Shares /\ n > 0
        BY <2>1, <3>1, <3>4, LimitOrdersAssumption DEF Order, Shares
      <4>2. left = [old EXCEPT !.shares = n]
        BY <3>4 DEF Reduced
      <4>3. Reduced(OrderInCents(old), m.shares) = [OrderInCents(old) EXCEPT !.shares = n]
        BY <3>2, <3>4 DEF Reduced
      <4>4. OrderInCents(old) = [old EXCEPT !.price = cents]
        BY DEF OrderInCents
      <4>5. left.price = old.price
        BY <2>1, <4>2 DEF Order
      <4>6. OrderInCents(left) = [left EXCEPT !.price = cents]
        BY <4>5 DEF OrderInCents
      <4> HIDE DEF n, cents, left
      <4>7. left \in Order /\ left.shares = n
        BY <2>1, <4>1, <4>2 DEF Order
      <4>8. OrderInCents(left) = [OrderInCents(old) EXCEPT !.shares = n]
        BY <2>1, <4>2, <4>4, <4>6 DEF Order
      <4>9. left # NoOrder
        BY <1>2, <4>7
      <4> QED BY <4>1, <4>3, <4>5, <4>7, <4>8, <4>9
    <3> QED BY <3>3, <3>4
  <2>4. Applied(table, m, PriceOf(m), side) = [table EXCEPT ![m.ref] = left]
    BY <1>5 DEF Applied
  <2>5. Applied(new, m, Cents(PriceOf(m)), side) = [new EXCEPT ![m.ref] = conv]
    <3>1. Applied(new, m, Cents(PriceOf(m)), side) =
            [new EXCEPT ![m.ref] = Reduced(new[m.ref], m.shares)]
      BY <1>5 DEF Applied
    <3> QED BY <2>2, <2>3, <3>1
  <2> HIDE DEF left
  <2>6. Fits([table EXCEPT ![m.ref] = left], s)
    BY <1>1, <1>2, <2>1, <2>3 DEF Fits, Tables, Live
  <2>7. TableInCents([table EXCEPT ![m.ref] = left]) = [new EXCEPT ![m.ref] = conv]
    BY <1>1, <1>2 DEF TableInCents, Live, Tables
  <2> QED BY <2>4, <2>5, <2>6, <2>7
<1>6. CASE m.type = "U"
  <2> DEFINE order == [side |-> side, price |-> m.price, shares |-> m.shares]
             gone == [table EXCEPT ![m.ref] = NoOrder]
             newgone == [new EXCEPT ![m.ref] = NoOrder]
  <2>1. /\ order \in Order /\ order # NoOrder
        /\ OrderInCents(order) = [side |-> side, price |-> Cents(m.price), shares |-> m.shares]
        /\ order.shares > 0 /\ Whole(order.price)
        /\ Cents(order.price) \in Prices /\ Cents(order.price) >= BasePrice[s]
    BY <1>1, <1>2, <1>6, NewOrderFits DEF Suits, PricedTypes
  <2>2. Applied(table, m, PriceOf(m), side) = [gone EXCEPT ![m.new_ref] = order]
    BY <1>1, <1>6 DEF Applied, PricedTypes
  <2>3. Applied(new, m, Cents(PriceOf(m)), side) = [newgone EXCEPT ![m.new_ref] = OrderInCents(order)]
    BY <1>1, <1>6, <2>1 DEF Applied, PricedTypes
  <2> HIDE DEF order
  <2>4. Fits(gone, s) /\ gone \in Tables
    BY <1>1, <1>2 DEF Fits, Tables, Live
  <2>5. TableInCents(gone) = newgone
    BY <1>1, <1>2 DEF TableInCents, Live, Tables
  <2> HIDE DEF gone, newgone
  <2>6. Fits([gone EXCEPT ![m.new_ref] = order], s)
    BY <1>1, <1>2, <1>6, <2>1, <2>4 DEF Fits, Tables, Live
  <2>7. TableInCents([gone EXCEPT ![m.new_ref] = order]) =
          [newgone EXCEPT ![m.new_ref] = OrderInCents(order)]
    BY <1>1, <1>2, <1>6, <2>1, <2>4, <2>5 DEF TableInCents, Live, Tables
  <2> QED BY <2>2, <2>3, <2>6, <2>7
<1> QED BY <1>1, <1>3, <1>4, <1>5, <1>6 DEF BookTypes

-----------------------------------------------------------------------------
(* What the generator held after every message of the file, once the file  *)
(* is written and what it held is gone: the books, the last update told of *)
(* every stock, and the sequences.                                         *)

BboValues == [Sides -> [price : Int, size : Nat]]
NothingTraded == [r \in Refs |-> NoOrder]

Held(a) ==
  /\ DOMAIN a.books = Symbols /\ DOMAIN a.told = Symbols /\ DOMAIN a.expected = Symbols
  /\ \A s \in Symbols :
       /\ a.books[s] # NoBook => Fits(a.books[s], s)
       /\ a.told[s] = NoSnapshot \/ a.told[s] \in BboValues
       /\ a.told[s] = NoSnapshot =>
            a.books[s] = NoBook \/ \A r \in Refs : ~Live(a.books[s], r)
       /\ a.told[s] # NoSnapshot => Normalised(Registers(a.told[s])) = a.told[s]

SideUsed(m, table) == IF m.type = "U" THEN table[m.ref].side ELSE "BUY"
TableAfter(m, table) == Applied(table, m, PriceOf(m), SideUsed(m, table))
UpdateOf(table) == Comparable(BboOf(table))

(* One message, from what was held before it to what is held after it.     *)
Listed(m, a, b) ==
  /\ m.type = "R"
  /\ \A s \in Symbols :
       b.books[s] = IF s = m.stock /\ a.books[s] = NoBook THEN NothingTraded ELSE a.books[s]
  /\ b.told = a.told /\ b.expected = a.expected

Passed(m, a, b) ==
  /\ m.type \notin BookTypes \cup {"R"}
  /\ b.books = a.books /\ b.told = a.told /\ b.expected = a.expected

Traded(m, a, b) ==
  LET s == m.stock
      after == TableAfter(m, a.books[s])
      update == UpdateOf(after)
  IN
  /\ m.type \in BookTypes
  /\ a.books[s] # NoBook
  /\ Suits(m, a.books[s], s)
  /\ \A r \in Symbols : /\ b.books[r] = IF r = s THEN after ELSE a.books[r]
                        /\ b.told[r] = IF r = s THEN update ELSE a.told[r]
  /\ b.expected = IF update = a.told[s] THEN a.expected
                  ELSE [a.expected EXCEPT ![s] = Append(@, update)]

Moved(m, a, b) == Listed(m, a, b) \/ Passed(m, a, b) \/ Traded(m, a, b)

Trace(T) ==
  /\ T[0] = [books |-> [s \in Symbols |-> NoBook], told |-> [s \in Symbols |-> NoSnapshot],
             expected |-> [s \in Symbols |-> <<>>]]
  /\ \A n \in 0 .. Len(file) : Held(T[n])
  /\ \A n \in 1 .. Len(file) : Moved(file[n], T[n - 1], T[n])

(* The generator is at the end of it.                                      *)
AtEnd(T) ==
  /\ T[Len(file)].expected = expected
  /\ phase = "generate" =>
       /\ T[Len(file)].books = books
       /\ T[Len(file)].told = comparable_bbo
       /\ DOMAIN raw_bbo = Symbols
       /\ \A s \in Symbols :
            IF raw_bbo[s] = NoSnapshot THEN comparable_bbo[s] = NoSnapshot
            ELSE comparable_bbo[s] = Comparable(raw_bbo[s])

(* The board holds, in cents, what the generator held; the program has     *)
(* reported what the generator had.                                        *)
Holds(a) ==
  \A s \in Symbols :
    board[s] = IF a.books[s] = NoBook THEN NothingTraded ELSE TableInCents(a.books[s])

LastOf(told) == IF told = NoSnapshot THEN NothingShown ELSE Registers(told)

Reported(a) ==
  /\ DOMAIN last = Symbols
  /\ \A s \in Symbols : last[s] = LastOf(a.told[s])
  /\ published = a.expected

MappedAs(a) == \A s \in Symbols : s \in mapped <=> a.books[s] # NoBook

Answering(b) ==
  /\ wire = <<>>
  /\ Holds(b)
  /\ shown = [stock |-> plan.stock, bbo |-> Registers(UpdateOf(b.books[plan.stock]))]

Following(T) ==
  phase = "replay" /\ faults = 0 =>
    /\ source_messages \in 0 .. Len(file)
    /\ mapped \subseteq Symbols
    /\ pc = "setup" => /\ source_messages = 0
                       /\ Reported(T[0]) /\ MappedAs(T[0])
    /\ pc = "read" => /\ wire = <<>>
                      /\ Holds(T[source_messages])
                      /\ Reported(T[source_messages]) /\ MappedAs(T[source_messages])
    /\ pc \in {"poll", "bid", "ask"} =>
         /\ source_messages > 0
         /\ plan = file[source_messages] /\ plan.type \in BookTypes
         /\ Reported(T[source_messages - 1]) /\ MappedAs(T[source_messages])
         /\ \/ pc = "poll" /\ wire = <<plan>> /\ Holds(T[source_messages - 1])
            \/ Answering(T[source_messages])
    /\ pc = "ask" => bid_half = [stock |-> shown.stock, bid |-> shown.bbo["BUY"]]

Delivered == phase = "done" /\ faults = 0 => published = expected

HInv ==
  /\ faults \in Nat
  /\ Representative => Delivered /\ \E T : Trace(T) /\ AtEnd(T) /\ Following(T)

(* Updates of tables that fit can be told apart on the registers.          *)
LEMMA UpdatesAreSeen ==
  ASSUME NEW s \in Symbols, NEW table, Fits(table, s), NEW told,
         told = NoSnapshot => \E r \in Refs : Live(table, r),
         told # NoSnapshot => Normalised(Registers(told)) = told
  PROVE  Registers(UpdateOf(table)) = LastOf(told) <=> UpdateOf(table) = told
<1>1. /\ UpdateOf(table) \in BboValues
      /\ Normalised(Registers(UpdateOf(table))) = UpdateOf(table)
      /\ \A r \in Refs : Live(table, r) => Registers(UpdateOf(table)) # NothingShown
  BY BboInCents DEF UpdateOf, BboValues
<1>2. NoSnapshot \notin BboValues
  BY ReplayAssumption DEF BboValues
<1>3. CASE told = NoSnapshot
  BY <1>1, <1>2, <1>3 DEF LastOf
<1>4. CASE told # NoSnapshot
  <2>1. LastOf(told) = Registers(told)
    BY <1>4 DEF LastOf
  <2> QED BY <1>1, <1>4, <2>1
<1> QED BY <1>3, <1>4

LEMMA SideUsedIsASide ==
  ASSUME NEW m, NEW s, NEW table, Fits(table, s), Suits(m, table, s)
  PROVE  SideUsed(m, table) \in Sides
<1>1. m.type = "U" => table[m.ref] \in Order
  BY MessageFields DEF Suits, BookMessages, Fits, Tables, Live
<1> QED BY <1>1 DEF SideUsed, Order, Sides

(* An order message: the table after it fits, and is shown as an update.   *)
LEMMA TradeKeeps ==
  ASSUME NEW m, NEW a, NEW b, Held(a), Traded(m, a, b)
  PROVE  /\ m.stock \in Symbols /\ m \in BookMessages
         /\ a.books[m.stock] # NoBook
         /\ Fits(a.books[m.stock], m.stock) /\ Suits(m, a.books[m.stock], m.stock)
         /\ b.books[m.stock] = TableAfter(m, a.books[m.stock])
         /\ Fits(b.books[m.stock], m.stock) /\ b.books[m.stock] # NoBook
         /\ b.told[m.stock] = UpdateOf(b.books[m.stock])
         /\ a.told[m.stock] = NoSnapshot => \E r \in Refs : Live(b.books[m.stock], r)
<1> DEFINE s == m.stock
           table == a.books[s]
           after == b.books[s]
<1>1. m \in BookMessages /\ m \in Messages /\ m.type \in BookTypes
  BY DEF Traded, Suits, BookMessages
<1>2. s \in Symbols /\ m.ref \in Refs
  BY <1>1, MessageFields
<1>3. /\ table # NoBook /\ Fits(table, s) /\ Suits(m, table, s)
      /\ after = TableAfter(m, table) /\ b.told[s] = UpdateOf(after)
  BY <1>2 DEF Traded, Held
<1>4. SideUsed(m, table) \in Sides
  BY <1>3, SideUsedIsASide
<1>5. Fits(after, s)
  BY <1>2, <1>3, <1>4, AppliedInCents DEF TableAfter
<1>6. after # NoBook
  BY <1>5, ReplayAssumption DEF Fits, Tables
<1>7. ASSUME a.told[s] = NoSnapshot
      PROVE  \E r \in Refs : Live(after, r)
  <2>1. \A r \in Refs : ~Live(table, r)
    BY <1>2, <1>3, <1>7 DEF Held
  <2>2. m.type = "A"
    BY <1>2, <1>3, <2>1 DEF Suits
  <2> DEFINE order == [side |-> m.side, price |-> PriceOf(m), shares |-> m.shares]
  <2>3. after = [table EXCEPT ![m.ref] = order]
    BY <1>3, <2>2 DEF TableAfter, Applied
  <2>4. order # NoOrder
    <3>1. m.side \in Sides /\ m.price \in Prices /\ m.shares \in Shares /\ PriceOf(m) = m.price
      BY <1>1, <2>2, MessageFields DEF PriceOf, PricedTypes
    <3>2. order \in Order
      BY <3>1 DEF Order
    <3> QED BY <3>2, LimitOrdersAssumption
  <2> HIDE DEF order
  <2>5. DOMAIN table = Refs
    BY <1>3 DEF Fits, Tables
  <2>6. Live(after, m.ref)
    BY <1>2, <2>3, <2>4, <2>5 DEF Live
  <2> QED BY <1>2, <2>6
<1> QED BY <1>1, <1>2, <1>3, <1>5, <1>6, <1>7

(* The board, whose table is that table in cents, does the same to it.     *)
LEMMA BoardTrades ==
  ASSUME NEW m, NEW a, NEW b, Held(a), Traded(m, a, b), Holds(a), BoardTypes,
         m.type \in PricedTypes => in_bounds(m)
  PROVE  /\ Completes(m)
         /\ AfterOnBoard(m) = TableInCents(b.books[m.stock])
         /\ BboOf(AfterOnBoard(m)) = UpdateOf(b.books[m.stock])
<1> DEFINE s == m.stock
           table == a.books[s]
           after == b.books[s]
<1>1. /\ s \in Symbols /\ m \in BookMessages
      /\ table # NoBook /\ Fits(table, s) /\ Suits(m, table, s)
      /\ after = TableAfter(m, table) /\ Fits(after, s)
  BY TradeKeeps
<1>2. board[s] = TableInCents(table)
  BY <1>1 DEF Holds
<1>3. m.ref \in Refs /\ m.type \in BookTypes
  BY <1>1, MessageFields DEF BookMessages
<1>4. m.type # "A" => /\ Live(table, m.ref)
                      /\ Live(board[s], m.ref)
                      /\ board[s][m.ref].side = table[m.ref].side
  <2> SUFFICES ASSUME m.type # "A"
               PROVE  /\ Live(table, m.ref)
                      /\ Live(board[s], m.ref)
                      /\ board[s][m.ref].side = table[m.ref].side
    OBVIOUS
  <2>1. Live(table, m.ref)
    BY <1>1 DEF Suits
  <2>2. table[m.ref] \in Order /\ Cents(table[m.ref].price) \in Prices
    BY <1>1, <1>3, <2>1 DEF Fits, Tables, Live
  <2> DEFINE c == Cents(table[m.ref].price)
  <2>3. board[s][m.ref] = [table[m.ref] EXCEPT !.price = c]
    BY <1>2, <1>3, <2>1 DEF TableInCents, OrderInCents
  <2> HIDE DEF c
  <2>4. c \in Prices
    BY <2>2 DEF c
  <2>5. board[s][m.ref] \in Order /\ board[s][m.ref].side = table[m.ref].side
    BY <2>2, <2>3, <2>4 DEF Order
  <2> QED BY <2>1, <2>5, LimitOrdersAssumption DEF Live
<1>5. Completes(m)
  BY <1>3, <1>4 DEF Completes
<1> DEFINE side == IF m.type = "U" /\ Live(board[s], m.ref) THEN board[s][m.ref].side
                   ELSE rep_side[s]
<1>6. AfterOnBoard(m) = Applied(TableInCents(table), m, Cents(PriceOf(m)), side)
  BY <1>2 DEF AfterOnBoard
<1>7. SideUsed(m, table) \in Sides /\ rep_side[s] \in Sides
  BY <1>1, SideUsedIsASide DEF BoardTypes
<1>8. m.type = "U" => side = SideUsed(m, table)
  BY <1>4 DEF SideUsed
<1>9. side \in Sides
  BY <1>4, <1>7, <1>8
<1> HIDE DEF side
<1>10. Applied(table, m, PriceOf(m), side) = after
  <2>1. CASE m.type = "U"
    BY <1>1, <1>8, <2>1 DEF TableAfter
  <2>2. CASE m.type # "U"
    BY <1>1, <1>3, <2>2 DEF TableAfter, Applied, BookTypes
  <2> QED BY <2>1, <2>2
<1>11. AfterOnBoard(m) = TableInCents(after)
  BY <1>1, <1>6, <1>9, <1>10, AppliedInCents
<1>12. BboOf(TableInCents(after)) = UpdateOf(after)
  BY <1>1, BboInCents DEF UpdateOf
<1> QED BY <1>5, <1>11, <1>12

LEMMA TradeHolds ==
  ASSUME NEW m, NEW a, NEW b, Held(a), Traded(m, a, b),
         DOMAIN b.books = Symbols, DOMAIN b.told = Symbols
  PROVE  Held(b)
<1>1. /\ m.stock \in Symbols
      /\ Fits(b.books[m.stock], m.stock)
      /\ b.told[m.stock] = UpdateOf(b.books[m.stock])
  BY TradeKeeps
<1>2. /\ b.told[m.stock] \in BboValues
      /\ Normalised(Registers(b.told[m.stock])) = b.told[m.stock]
  BY <1>1, BboInCents DEF UpdateOf, BboValues
<1>3. NoSnapshot \notin BboValues
  BY ReplayAssumption DEF BboValues
<1>4. \A r \in Symbols : r # m.stock => b.books[r] = a.books[r] /\ b.told[r] = a.told[r]
  BY DEF Traded
<1>5. DOMAIN b.expected = Symbols
  BY DEF Traded, Held
<1>6. ASSUME NEW r \in Symbols
      PROVE  /\ b.books[r] # NoBook => Fits(b.books[r], r)
             /\ b.told[r] = NoSnapshot \/ b.told[r] \in BboValues
             /\ b.told[r] = NoSnapshot =>
                  b.books[r] = NoBook \/ \A ref \in Refs : ~Live(b.books[r], ref)
             /\ b.told[r] # NoSnapshot => Normalised(Registers(b.told[r])) = b.told[r]
  <2>1. CASE r = m.stock
    BY <1>1, <1>2, <1>3, <2>1
  <2>2. CASE r # m.stock
    BY <1>4, <2>2 DEF Held
  <2> QED BY <2>1, <2>2
<1> QED BY <1>5, <1>6 DEF Held

LEMMA ListedHolds ==
  ASSUME NEW m, NEW a, NEW b, Held(a), Listed(m, a, b), DOMAIN b.books = Symbols
  PROVE  Held(b)
<1>1. ASSUME NEW s \in Symbols
      PROVE  Fits(NothingTraded, s) /\ \A r \in Refs : ~Live(NothingTraded, r)
  BY DEF NothingTraded, Fits, Tables, Live
<1>2. ASSUME NEW s \in Symbols
      PROVE  /\ b.books[s] # NoBook => Fits(b.books[s], s)
             /\ b.told[s] = NoSnapshot =>
                  b.books[s] = NoBook \/ \A r \in Refs : ~Live(b.books[s], r)
  BY <1>1 DEF Listed, Held
<1> QED BY <1>2 DEF Listed, Held

(* What the generator does to what it holds.                               *)
LEMMA GeneratorMoves ==
  ASSUME MInv, NEW m \in Messages, Generate(m), NEW a, Held(a),
         a.books = books, a.told = comparable_bbo, a.expected = expected,
         DOMAIN raw_bbo = Symbols,
         \A s \in Symbols : IF raw_bbo[s] = NoSnapshot THEN comparable_bbo[s] = NoSnapshot
                            ELSE comparable_bbo[s] = Comparable(raw_bbo[s]),
         m.type \in PricedTypes => Whole(m.price) /\ in_bounds(m) /\ m.shares > 0,
         NEW b, b = [books |-> books', told |-> comparable_bbo', expected |-> expected']
  PROVE  /\ Moved(m, a, b) /\ Held(b)
         /\ DOMAIN raw_bbo' = Symbols
         /\ \A s \in Symbols : IF raw_bbo'[s] = NoSnapshot THEN comparable_bbo'[s] = NoSnapshot
                               ELSE comparable_bbo'[s] = Comparable(raw_bbo'[s])
<1>1. b.books = books' /\ b.told = comparable_bbo' /\ b.expected = expected'
  OBVIOUS
<1>2. DOMAIN books = Symbols /\ DOMAIN comparable_bbo = Symbols /\ DOMAIN expected = Symbols
  BY DEF Held
<1>3. CASE m.type = "R"
  <2>0. m.type \notin BookTypes
    BY <1>3 DEF BookTypes
  <2>1. /\ books' = [books EXCEPT ![m.stock] =
                       IF @ = NoBook THEN [r \in Refs |-> NoOrder] ELSE @]
        /\ UNCHANGED <<raw_bbo, comparable_bbo, expected>>
    BY <1>3, <2>0, Zenon DEF Generate
  <2>2. m.stock \in Symbols
    BY <1>3, MessageFields
  <2>3. Listed(m, a, b) /\ DOMAIN b.books = Symbols
    BY <1>1, <1>2, <1>3, <2>1, <2>2 DEF Listed, NothingTraded
  <2>4. Held(b)
    BY <2>3, ListedHolds
  <2> QED BY <2>1, <2>3, <2>4 DEF Moved
<1>4. CASE m.type \in BookTypes
  <2> DEFINE s == m.stock
             table == books[s]
             after == TableAfter(m, table)
             bbo == BboOf(after)
             update == UpdateOf(after)
  <2>1. m.type # "R" /\ m \in BookMessages /\ s \in Symbols /\ m.ref \in Refs
    BY <1>4, MessageFields DEF BookMessages, BookTypes
  <2>2. ReadByGolden(m) /\ Sendable(m)
    BY <1>4, <2>1, Zenon DEF Generate
  <2>3. table # NoBook /\ (m.type # "A" => Live(table, m.ref))
    BY <1>4, <2>2 DEF Sendable
  <2>4. Suits(m, table, s)
    BY <2>1, <2>3 DEF Suits, in_bounds
  <2>5. Fits(table, s)
    BY <2>1, <2>3 DEF Held
  <2>6. Fits(after, s)
    BY <2>1, <2>4, <2>5, SideUsedIsASide, AppliedInCents DEF TableAfter
  <2>7. Representable(bbo, s) /\ bbo \in BboValues /\ update = Comparable(bbo)
        /\ update \in BboValues
    BY <2>1, <2>6, BboInCents DEF UpdateOf, BboValues
  <2>8. /\ books' = [books EXCEPT ![s] = after]
        /\ raw_bbo' = [raw_bbo EXCEPT ![s] = bbo]
        /\ IF bbo # raw_bbo[s] /\ Representable(bbo, s) /\ update # comparable_bbo[s]
           THEN /\ comparable_bbo' = [comparable_bbo EXCEPT ![s] = update]
                /\ expected' = [expected EXCEPT ![s] = Append(@, update)]
           ELSE UNCHANGED <<comparable_bbo, expected>>
    BY <2>2 DEF ReadByGolden, TableAfter, SideUsed, UpdateOf
  <2> HIDE DEF after, bbo, update
  <2>9. NoSnapshot \notin BboValues
    BY ReplayAssumption DEF BboValues
  <2>10. update # comparable_bbo[s] => bbo # raw_bbo[s]
    BY <2>1, <2>7, <2>9
  <2>11. /\ DOMAIN comparable_bbo' = Symbols
         /\ \A r \in Symbols :
              comparable_bbo'[r] = IF r = s THEN update ELSE comparable_bbo[r]
         /\ expected' = IF update = comparable_bbo[s] THEN expected
                        ELSE [expected EXCEPT ![s] = Append(@, update)]
    BY <1>2, <2>1, <2>7, <2>8, <2>10
  <2>12. Traded(m, a, b)
    <3>1. \A r \in Symbols : /\ b.books[r] = IF r = s THEN after ELSE a.books[r]
                             /\ b.told[r] = IF r = s THEN update ELSE a.told[r]
      BY <1>1, <1>2, <2>1, <2>8, <2>11
    <3>2. b.expected = IF update = a.told[s] THEN a.expected
                       ELSE [a.expected EXCEPT ![s] = Append(@, update)]
      BY <1>1, <2>11
    <3> QED BY <1>4, <2>3, <2>4, <3>1, <3>2 DEF Traded, after, update
  <2>13. DOMAIN b.books = Symbols /\ DOMAIN b.told = Symbols
    BY <1>1, <1>2, <2>8, <2>11
  <2>14. Held(b)
    BY <2>12, <2>13, TradeHolds
  <2>15. DOMAIN raw_bbo' = Symbols
    BY <2>8
  <2>16. ASSUME NEW r \in Symbols
         PROVE  IF raw_bbo'[r] = NoSnapshot THEN comparable_bbo'[r] = NoSnapshot
                ELSE comparable_bbo'[r] = Comparable(raw_bbo'[r])
    <3>1. CASE r = s
      <4>1. raw_bbo'[s] = bbo /\ comparable_bbo'[s] = update
        BY <1>2, <2>1, <2>8, <2>11
      <4> QED BY <2>7, <2>9, <3>1, <4>1
    <3>2. CASE r # s
      BY <1>2, <2>8, <2>11, <3>2
    <3> QED BY <3>1, <3>2
  <2> QED BY <2>12, <2>14, <2>15, <2>16 DEF Moved
<1>5. CASE m.type \notin BookTypes \cup {"R"}
  <2>1. UNCHANGED <<books, raw_bbo, comparable_bbo, expected>>
    BY <1>5, Zenon DEF Generate
  <2> QED BY <1>1, <1>5, <2>1 DEF Moved, Passed, Held
<1> QED BY <1>3, <1>4, <1>5

LEMMA HInvGenerate ==
  ASSUME MInv, HInv, NEW m \in Messages, Generate(m)
  PROVE  HInv'
<1> DEFINE n == Len(file)
<1>1. /\ file \in Seq(Messages) /\ n \in Nat /\ phase = "generate"
      /\ file' = Append(file, m) /\ UNCHANGED <<phase, faults>>
  BY DEF MInv, BoardTypes, Generate, hardware
<1>2. /\ Len(file') = n + 1 /\ file'[n + 1] = m
      /\ \A i \in 1 .. n : file'[i] = file[i]
  BY <1>1
<1> SUFFICES ASSUME Representative'
             PROVE  \E T : (Trace(T) /\ AtEnd(T) /\ Following(T))'
  BY <1>1 DEF HInv, Delivered
<1>3. Representative /\ (m.type \in PricedTypes => Whole(m.price) /\ in_bounds(m) /\ m.shares > 0)
  <2>1. \A i \in 1 .. n + 1 :
          file'[i].type \in PricedTypes =>
            Whole(file'[i].price) /\ in_bounds(file'[i]) /\ file'[i].shares > 0
    BY <1>2 DEF Representative, Whole, in_bounds
  <2>2. n + 1 \in 1 .. n + 1 /\ \A i \in 1 .. n : i \in 1 .. n + 1
    BY <1>1
  <2>3. m.type \in PricedTypes => Whole(m.price) /\ in_bounds(m) /\ m.shares > 0
    BY <1>2, <2>1, <2>2
  <2>4. \A i \in 1 .. n :
          file[i].type \in PricedTypes =>
            Whole(file[i].price) /\ in_bounds(file[i]) /\ file[i].shares > 0
    BY <1>2, <2>1, <2>2
  <2> QED BY <2>3, <2>4 DEF Representative, Whole
<1>4. PICK T : Trace(T) /\ AtEnd(T)
  BY <1>3 DEF HInv
<1> DEFINE a == T[n]
<1>b. PICK b : b = [books |-> books', told |-> comparable_bbo', expected |-> expected']
  OBVIOUS
<1>5. /\ Held(a) /\ a.books = books /\ a.told = comparable_bbo /\ a.expected = expected
      /\ DOMAIN raw_bbo = Symbols
      /\ \A s \in Symbols : IF raw_bbo[s] = NoSnapshot THEN comparable_bbo[s] = NoSnapshot
                            ELSE comparable_bbo[s] = Comparable(raw_bbo[s])
  BY <1>1, <1>4 DEF Trace, AtEnd
<1>6. /\ Moved(m, a, b) /\ Held(b)
      /\ DOMAIN raw_bbo' = Symbols
      /\ \A s \in Symbols : IF raw_bbo'[s] = NoSnapshot THEN comparable_bbo'[s] = NoSnapshot
                            ELSE comparable_bbo'[s] = Comparable(raw_bbo'[s])
  BY <1>3, <1>5, <1>b, GeneratorMoves
<1>7. PICK U : U[n + 1] = b /\ \A k \in 0 .. n : U[k] = T[k]
  <2> DEFINE U == [k \in 0 .. n + 1 |-> IF k = n + 1 THEN b ELSE T[k]]
  <2>1. U[n + 1] = b /\ \A k \in 0 .. n : U[k] = T[k]
    BY <1>1
  <2> QED BY <2>1
<1>8. Trace(U)'
  <2>1. U[0] = T[0]
    BY <1>1, <1>7
  <2>2. \A k \in 0 .. n + 1 : Held(U[k])
    <3> SUFFICES ASSUME NEW k \in 0 .. n + 1 PROVE Held(U[k])
      OBVIOUS
    <3>1. CASE k = n + 1
      BY <1>6, <1>7, <3>1
    <3>2. CASE k # n + 1
      <4>1. k \in 0 .. n
        BY <1>1, <3>2
      <4> QED BY <1>4, <1>7, <4>1 DEF Trace
    <3> QED BY <3>1, <3>2
  <2>3. \A k \in 1 .. n + 1 : Moved(file'[k], U[k - 1], U[k])
    <3> SUFFICES ASSUME NEW k \in 1 .. n + 1 PROVE Moved(file'[k], U[k - 1], U[k])
      OBVIOUS
    <3>1. CASE k = n + 1
      <4>1. k - 1 = n /\ n \in 0 .. n
        BY <1>1, <3>1
      <4>2. U[k - 1] = a /\ U[k] = b /\ file'[k] = m
        BY <1>2, <1>7, <3>1, <4>1
      <4> QED BY <1>6, <4>2
    <3>2. CASE k # n + 1
      <4>1. k \in 1 .. n /\ k \in 0 .. n /\ k - 1 \in 0 .. n
        BY <1>1, <3>2
      <4>2. U[k - 1] = T[k - 1] /\ U[k] = T[k] /\ file'[k] = file[k]
        BY <1>2, <1>7, <4>1
      <4> QED BY <1>4, <4>1, <4>2 DEF Trace
    <3> QED BY <3>1, <3>2
  <2>4. T[0] = [books |-> [s \in Symbols |-> NoBook], told |-> [s \in Symbols |-> NoSnapshot],
                expected |-> [s \in Symbols |-> <<>>]]
    BY <1>4 DEF Trace
  <2> HIDE DEF n
  <2>5. /\ Len(file') = n + 1
        /\ U[0] = [books |-> [s \in Symbols |-> NoBook], told |-> [s \in Symbols |-> NoSnapshot],
                   expected |-> [s \in Symbols |-> <<>>]]
    BY <1>2, <2>1, <2>4
  <2> QED BY <2>2, <2>3, <2>5 DEF Trace
<1>9. AtEnd(U)'
  <2>1. U[Len(file')] = b
    BY <1>2, <1>7
  <2>2. b.books = books' /\ b.told = comparable_bbo' /\ b.expected = expected'
    BY <1>b
  <2> QED BY <1>6, <2>1, <2>2 DEF AtEnd
<1>10. Following(U)'
  BY <1>1 DEF Following
<1> QED BY <1>8, <1>9, <1>10

(* After generation only the replay can go wrong.                          *)
LEMMA HInvSuffices ==
  ASSUME HInv, UNCHANGED <<file, expected>>, faults' \in Nat,
         phase' = "generate" => UNCHANGED <<phase, books, raw_bbo, comparable_bbo>>,
         Representative => Delivered',
         ASSUME NEW T, Representative, Trace(T), AtEnd(T), Following(T)
         PROVE  Following(T)'
  PROVE  HInv'
<1> SUFFICES ASSUME Representative'
             PROVE  Delivered' /\ \E T : (Trace(T) /\ AtEnd(T) /\ Following(T))'
  BY DEF HInv
<1>1. Representative
  BY DEF Representative, in_bounds
<1>2. PICK T : Trace(T) /\ AtEnd(T) /\ Following(T)
  BY <1>1 DEF HInv
<1>3. Trace(T)'
  BY <1>2 DEF Trace
<1>4. AtEnd(T)'
  BY <1>2 DEF AtEnd
<1>5. Following(T)'
  BY <1>1, <1>2
<1> QED BY <1>1, <1>3, <1>4, <1>5

(* A step of no replay, or one that ends it without a verdict.             *)
LEMMA HInvOutside ==
  ASSUME HInv, UNCHANGED <<file, expected, published, faults>>,
         phase' = "generate" => UNCHANGED <<phase, books, raw_bbo, comparable_bbo>>,
         phase' = "done" => phase = "done", phase' # "replay"
  PROVE  HInv'
<1>1. Representative => Delivered'
  BY DEF HInv, Delivered
<1>2. ASSUME NEW T PROVE Following(T)'
  BY DEF Following
<1>3. faults' \in Nat
  BY DEF HInv
<1> QED BY <1>1, <1>2, <1>3, HInvSuffices

LEMMA HInvBegin ==
  ASSUME MInv, HInv, Begin PROVE HInv'
<1>1. /\ UNCHANGED <<file, expected, faults>> /\ phase' = "replay" /\ pc' = "setup"
      /\ source_messages' = 0 /\ mapped' = {}
      /\ last' = [s \in Symbols |-> NothingShown]
      /\ published' = [s \in Symbols |-> <<>>]
  BY DEF Begin, generator, hardware
<1>2. faults' \in Nat /\ Len(file) \in Nat
  BY <1>1 DEF HInv, MInv, BoardTypes
<1>3. Delivered'
  BY <1>1 DEF Delivered
<1>4. ASSUME NEW T, Representative, Trace(T), AtEnd(T), Following(T)
      PROVE  Following(T)'
  <2>1. /\ T[0].books = [s \in Symbols |-> NoBook]
        /\ T[0].told = [s \in Symbols |-> NoSnapshot]
        /\ T[0].expected = [s \in Symbols |-> <<>>]
    BY <1>4 DEF Trace
  <2>2. Reported(T[0])'
    BY <1>1, <2>1 DEF Reported, LastOf
  <2>3. MappedAs(T[0])'
    BY <1>1, <2>1 DEF MappedAs
  <2> QED BY <1>1, <1>2, <2>2, <2>3 DEF Following
<1> QED BY <1>1, <1>2, <1>3, <1>4, HInvSuffices

LEMMA HInvReady ==
  ASSUME MInv, HInv, Ready PROVE HInv'
<1>1. /\ UNCHANGED <<file, expected, faults, phase, source_messages, mapped, last, published>>
      /\ phase = "replay" /\ pc = "setup" /\ pc' = "read" /\ wire' = <<>>
      /\ board' = [s \in Symbols |-> NothingTraded]
  BY DEF Ready, generator, NothingTraded
<1>2. faults' \in Nat
  BY <1>1 DEF HInv
<1>3. Delivered'
  BY <1>1 DEF Delivered
<1>4. ASSUME NEW T, Representative, Trace(T), AtEnd(T), Following(T)
      PROVE  Following(T)'
  <2>1. T[0].books = [s \in Symbols |-> NoBook]
    BY <1>4 DEF Trace
  <2>2. Holds(T[0])'
    BY <1>1, <2>1 DEF Holds
  <2>3. Reported(T[0]) => Reported(T[0])'
    BY <1>1 DEF Reported
  <2>4. MappedAs(T[0]) => MappedAs(T[0])'
    BY <1>1 DEF MappedAs
  <2> QED BY <1>1, <1>4, <2>2, <2>3, <2>4 DEF Following
<1> QED BY <1>1, <1>2, <1>3, <1>4, HInvSuffices

LEMMA HInvFaulty ==
  ASSUME MInv, HInv, FaultyBoard PROVE HInv'
<1>1. UNCHANGED <<file, expected, phase, books, raw_bbo, comparable_bbo>> /\ faults' = faults + 1
  BY DEF FaultyBoard, generator
<1>2. faults' \in Nat /\ faults' # 0
  BY <1>1 DEF HInv
<1>3. Delivered'
  BY <1>2 DEF Delivered
<1>4. ASSUME NEW T PROVE Following(T)'
  BY <1>2 DEF Following
<1> QED BY <1>1, <1>2, <1>3, <1>4, HInvSuffices

(* What a trace says of the message the program is at.                     *)
LEMMA AtMessage ==
  ASSUME MInv, NEW T, Representative, Trace(T), NEW n \in 1 .. Len(file)
  PROVE  /\ file[n] \in Messages
         /\ file[n].type \in PricedTypes => in_bounds(file[n])
         /\ n - 1 \in 0 .. Len(file) /\ n \in 0 .. Len(file)
         /\ Held(T[n - 1]) /\ Held(T[n])
         /\ Moved(file[n], T[n - 1], T[n])
<1>1. Len(file) \in Nat /\ file[n] \in Messages
  BY DEF MInv, BoardTypes
<1>2. n - 1 \in 0 .. Len(file) /\ n \in 0 .. Len(file)
  BY <1>1
<1>3. file[n].type \in PricedTypes => in_bounds(file[n])
  BY DEF Representative
<1> QED BY <1>1, <1>2, <1>3 DEF Trace

LEMMA HInvBoard ==
  ASSUME MInv, HInv, Board PROVE HInv'
<1>1. /\ wire # <<>> /\ wire' = Tail(wire)
      /\ IF Completes(Head(wire))
         THEN Work(Head(wire), Registers(BboOf(AfterOnBoard(Head(wire)))))
         ELSE UNCHANGED <<board, rep_side, counter, shown>>
      /\ UNCHANGED <<phase, faults, file, expected, books, raw_bbo, comparable_bbo>>
      /\ UNCHANGED <<pc, source_messages, mapped, last, plan, bid_half, published>>
  BY Zenon DEF Board, generator, program
<1>2. faults' \in Nat
  BY <1>1 DEF HInv
<1>3. Representative => Delivered'
  BY <1>1 DEF HInv, Delivered
<1>4. ASSUME NEW T, Representative, Trace(T), AtEnd(T), Following(T)
      PROVE  Following(T)'
  <2> SUFFICES ASSUME phase = "replay", faults = 0 PROVE Following(T)'
    BY <1>1 DEF Following
  <2> DEFINE n == source_messages
  <2>1. \A a : /\ Reported(a) => Reported(a)'
               /\ MappedAs(a) => MappedAs(a)'
    BY <1>1 DEF Reported, MappedAs
  <2>2. CASE pc \notin {"read", "poll", "bid", "ask"}
    BY <1>1, <1>4, <2>1, <2>2 DEF Following
  <2>3. pc # "read"
    BY <1>1, <1>4 DEF Following
  <2>4. CASE pc \in {"poll", "bid", "ask"}
    <3>1. /\ n \in 1 .. Len(file) /\ mapped \subseteq Symbols
          /\ plan = file[n] /\ plan.type \in BookTypes
          /\ Reported(T[n - 1]) /\ MappedAs(T[n])
          /\ pc = "poll" /\ wire = <<plan>> /\ Holds(T[n - 1])
      BY <1>1, <1>4, <2>4 DEF Following, Answering
    <3>2. Head(wire) = plan /\ wire' = <<>>
      BY <1>1, <3>1
    <3>3. /\ plan.type \in PricedTypes => in_bounds(plan)
          /\ Held(T[n - 1]) /\ Moved(plan, T[n - 1], T[n])
          /\ plan \in Messages
      BY <1>4, <3>1, AtMessage
    <3>4. Traded(plan, T[n - 1], T[n])
      BY <3>1, <3>3 DEF Moved, Listed, Passed, BookTypes
    <3>5. /\ Completes(plan)
          /\ AfterOnBoard(plan) = TableInCents(T[n].books[plan.stock])
          /\ BboOf(AfterOnBoard(plan)) = UpdateOf(T[n].books[plan.stock])
      BY <3>1, <3>3, <3>4, BoardTrades DEF MInv
    <3>6. /\ board' = [board EXCEPT ![plan.stock] = AfterOnBoard(plan)]
          /\ shown' = [stock |-> plan.stock, bbo |-> Registers(UpdateOf(T[n].books[plan.stock]))]
      BY <1>1, <3>2, <3>5 DEF Work
    <3>7. T[n].books[plan.stock] # NoBook /\ plan.stock \in Symbols
      BY <3>3, <3>4, TradeKeeps
    <3>8. Holds(T[n])'
      <4> SUFFICES ASSUME NEW s \in Symbols
                   PROVE  board'[s] = IF T[n].books[s] = NoBook THEN NothingTraded
                                      ELSE TableInCents(T[n].books[s])
        BY <1>1 DEF Holds
      <4>1. board \in [Symbols -> Tables]
        BY DEF MInv, BoardTypes
      <4>2. CASE s = plan.stock
        BY <3>5, <3>6, <3>7, <4>1, <4>2
      <4>3. CASE s # plan.stock
        <5>1. T[n].books[s] = T[n - 1].books[s]
          BY <3>4, <4>3 DEF Traded
        <5>2. board'[s] = board[s]
          BY <3>6, <4>1, <4>3
        <5> QED BY <3>1, <5>1, <5>2 DEF Holds
      <4> QED BY <4>2, <4>3
    <3>9. Answering(T[n])'
      BY <1>1, <3>2, <3>6, <3>8 DEF Answering
    <3> QED BY <1>1, <2>1, <3>1, <3>9 DEF Following
  <2> QED BY <2>2, <2>3, <2>4
<1> QED BY <1>1, <1>2, <1>3, <1>4, HInvSuffices

LEMMA HInvReadMessage ==
  ASSUME MInv, HInv, ReadMessage PROVE HInv'
<1>0. PICK n, m, stocks :
        /\ n = source_messages /\ m = file[n + 1]
        /\ stocks = IF m.type = "R" THEN mapped \cup {m.stock} ELSE mapped
  OBVIOUS
<1>1. /\ phase = "replay" /\ pc = "read" /\ n < Len(file)
      /\ source_messages' = n + 1
      /\ mapped' = stocks
      /\ wire' = IF Kept(m, stocks) /\ m.type \in BookTypes THEN Append(wire, m) ELSE wire
      /\ IF Kept(m, stocks) /\ ExpectBbo(m) THEN pc' = "poll" /\ plan' = m
         ELSE UNCHANGED <<pc, plan>>
      /\ UNCHANGED <<phase, file, expected, faults, last, published, board>>
  BY <1>0 DEF ReadMessage, generator
<1>2. faults' \in Nat
  BY <1>1 DEF HInv
<1>3. Delivered'
  BY <1>1 DEF Delivered
<1>4. BoardTypes /\ Mirrored
  BY <1>1 DEF MInv, Synchronised, AtRest
<1>5. ASSUME NEW T, Representative, Trace(T), AtEnd(T), Following(T)
      PROVE  Following(T)'
  <2> SUFFICES ASSUME faults = 0 PROVE Following(T)'
    BY <1>1 DEF Following
  <2>1. /\ n \in 0 .. Len(file) /\ mapped \subseteq Symbols /\ wire = <<>>
        /\ Holds(T[n]) /\ Reported(T[n]) /\ MappedAs(T[n])
    BY <1>0, <1>1, <1>5 DEF Following
  <2>2. n \in Nat /\ Len(file) \in Nat /\ n + 1 \in 1 .. Len(file) /\ n + 1 - 1 = n
        /\ n + 1 \in 0 .. Len(file) /\ n + 1 > 0
    BY <1>0, <1>1, <1>4 DEF BoardTypes
  <2>3. /\ m \in Messages
        /\ m.type \in PricedTypes => in_bounds(m)
        /\ Held(T[n]) /\ Held(T[n + 1]) /\ Moved(m, T[n], T[n + 1])
    <3>1. /\ file[n + 1] \in Messages
          /\ file[n + 1].type \in PricedTypes => in_bounds(file[n + 1])
          /\ Held(T[n + 1 - 1]) /\ Held(T[n + 1])
          /\ Moved(file[n + 1], T[n + 1 - 1], T[n + 1])
      BY <1>5, <2>2, AtMessage
    <3> QED BY <1>0, <2>2, <3>1
  <2> DEFINE a == T[n]
             b == T[n + 1]
  <2>4. \A c : /\ Reported(c) => Reported(c)'
               /\ Holds(c) => Holds(c)'
    BY <1>1 DEF Reported, Holds
  <2>5. CASE m.type \notin BookTypes
    <3>1. ~ExpectBbo(m)
      BY <2>5 DEF ExpectBbo
    <3>2. pc' = "read" /\ wire' = <<>>
      BY <1>1, <2>1, <2>5, <3>1
    <3>3. CASE Listed(m, a, b)
      <4>1. m.type = "R" /\ stocks = mapped \cup {m.stock} /\ m.stock \in Symbols
        BY <1>0, <2>3, <3>3, MessageFields DEF Listed
      <4>2. NothingTraded \in Tables /\ NothingTraded # NoBook
        BY ReplayAssumption DEF NothingTraded, Tables
      <4>3. TableInCents(NothingTraded) = NothingTraded
        BY DEF NothingTraded, TableInCents, Live
      <4>4. Holds(b)
        <5> SUFFICES ASSUME NEW s \in Symbols
                     PROVE  board[s] = IF b.books[s] = NoBook THEN NothingTraded
                                       ELSE TableInCents(b.books[s])
          BY DEF Holds
        <5>1. b.books[s] = IF s = m.stock /\ a.books[s] = NoBook THEN NothingTraded
                           ELSE a.books[s]
          BY <3>3 DEF Listed
        <5>2. board[s] = IF a.books[s] = NoBook THEN NothingTraded ELSE TableInCents(a.books[s])
          BY <2>1 DEF Holds
        <5> QED BY <4>2, <4>3, <5>1, <5>2
      <4>5. Reported(b)
        BY <2>1, <3>3 DEF Reported, Listed
      <4>6. MappedAs(b)'
        <5>1. ASSUME NEW s \in Symbols
              PROVE  s \in mapped \cup {m.stock} <=> b.books[s] # NoBook
          BY <2>1, <3>3, <4>2 DEF MappedAs, Listed
        <5> QED BY <1>1, <4>1, <5>1 DEF MappedAs
      <4> QED BY <1>1, <2>1, <2>2, <2>4, <3>2, <4>1, <4>4, <4>5, <4>6 DEF Following
    <3>4. CASE Passed(m, a, b)
      <4>1. stocks = mapped
        BY <1>0, <3>4 DEF Passed
      <4>2. Holds(b) /\ Reported(b) /\ MappedAs(b)
        BY <2>1, <3>4 DEF Passed, Holds, Reported, MappedAs
      <4>3. MappedAs(b)'
        BY <1>1, <4>1, <4>2 DEF MappedAs
      <4> QED BY <1>1, <2>1, <2>2, <2>4, <3>2, <4>1, <4>2, <4>3 DEF Following
    <3>5. ~Traded(m, a, b)
      BY <2>5 DEF Traded
    <3> QED BY <2>3, <3>3, <3>4, <3>5 DEF Moved
  <2>6. CASE m.type \in BookTypes
    <3>1. Traded(m, a, b)
      BY <2>3, <2>6 DEF Moved, Listed, Passed, BookTypes
    <3>2. m.stock \in Symbols /\ a.books[m.stock] # NoBook /\ b.books[m.stock] # NoBook
      BY <2>3, <3>1, TradeKeeps
    <3>3. stocks = mapped /\ m.type \notin {"R", "S", "OTHER"}
      BY <1>0, <2>6 DEF BookTypes
    <3>4. Kept(m, stocks)
      BY <2>1, <3>2, <3>3 DEF Kept, MappedAs
    <3>5. Completes(m)
      BY <1>4, <2>1, <2>3, <3>1, BoardTrades
    <3>6. ExpectBbo(m)
      BY <1>4, <2>3, <3>5, ExpectedIsWhatCompletes
    <3>7. wire' = <<m>> /\ pc' = "poll" /\ plan' = m
      BY <1>1, <2>1, <2>6, <3>4, <3>6
    <3>8. MappedAs(b)'
      <4>1. ASSUME NEW s \in Symbols
            PROVE  s \in mapped <=> b.books[s] # NoBook
        <5>1. CASE s = m.stock
          BY <2>1, <3>2, <5>1 DEF MappedAs
        <5>2. CASE s # m.stock
          BY <2>1, <3>1, <5>2 DEF MappedAs, Traded
        <5> QED BY <5>1, <5>2
      <4> QED BY <1>1, <3>3, <4>1 DEF MappedAs
    <3>9. plan' = file'[n + 1]
      BY <1>0, <1>1, <3>7
    <3>10. Reported(a)' /\ Holds(a)'
      BY <2>1, <2>4
    <3> QED BY <1>1, <2>1, <2>2, <2>6, <3>3, <3>7, <3>8, <3>9, <3>10 DEF Following
  <2> QED BY <2>5, <2>6
<1> QED BY <1>1, <1>2, <1>3, <1>5, HInvSuffices

(* While the program waits for the counter or reads the registers.         *)
LEMMA Captured ==
  ASSUME MInv, NEW T, Trace(T), Following(T), Representative, phase = "replay", faults = 0,
         pc \in {"poll", "bid", "ask"}, pc = "poll" => counter # counter_before
  PROVE  /\ source_messages \in 1 .. Len(file) /\ mapped \subseteq Symbols
         /\ plan = file[source_messages] /\ plan.type \in BookTypes
         /\ Reported(T[source_messages - 1]) /\ MappedAs(T[source_messages])
         /\ Answering(T[source_messages])
         /\ pc = "ask" => bid_half = [stock |-> shown.stock, bid |-> shown.bbo["BUY"]]
<1>1. pc = "poll" => wire = <<>>
  BY DEF MInv, Synchronised, Pending, Completed
<1>2. wire # <<plan>> \/ pc # "poll"
  BY <1>1
<1> QED BY <1>2 DEF Following

(* A step that only goes on reading.                                       *)
LEMMA StillFollowing ==
  ASSUME MInv, NEW T, Trace(T), Following(T), Representative, phase = "replay", faults = 0,
         pc \in {"poll", "bid", "ask"}, pc = "poll" => counter # counter_before,
         pc' \in {"bid", "ask"},
         pc' = "ask" => bid_half' = [stock |-> shown.stock, bid |-> shown.bbo["BUY"]],
         UNCHANGED <<source_messages, mapped, last, plan, published, file, wire, board, shown>>
  PROVE  Following(T)'
<1>1. /\ source_messages \in 1 .. Len(file) /\ mapped \subseteq Symbols
      /\ plan = file[source_messages] /\ plan.type \in BookTypes
      /\ Reported(T[source_messages - 1]) /\ MappedAs(T[source_messages])
      /\ Answering(T[source_messages])
  BY Captured
<1>2. Len(file) \in Nat
  BY DEF MInv, BoardTypes
<1>3. source_messages \in 0 .. Len(file) /\ source_messages > 0
  BY <1>1, <1>2
<1>4. Reported(T[source_messages - 1])' /\ MappedAs(T[source_messages])'
  BY <1>1 DEF Reported, MappedAs
<1>5. Answering(T[source_messages])'
  BY <1>1 DEF Answering, Holds
<1> QED BY <1>1, <1>3, <1>4, <1>5 DEF Following

(* What is read is handed on if and only if the generator noted it.        *)
LEMMA PublishFollows ==
  ASSUME MInv, NEW T, Trace(T), Following(T), Representative, phase = "replay", faults = 0,
         pc = "ask", NEW snapshot, Publish(snapshot), snapshot = shown
  PROVE  Following(T)'
<1>0. PICK n, m : n = source_messages /\ m = plan
  OBVIOUS
<1> DEFINE a == T[n]
           before == T[n - 1]
           s == m.stock
           update == UpdateOf(a.books[s])
<1>1. /\ n \in 1 .. Len(file) /\ mapped \subseteq Symbols
      /\ m = file[n] /\ m.type \in BookTypes
      /\ Reported(before) /\ MappedAs(a) /\ Answering(a)
  BY <1>0, Captured
<1>2. /\ Held(before) /\ Moved(m, before, a) /\ n - 1 \in 0 .. Len(file) /\ n \in 0 .. Len(file)
  BY <1>1, AtMessage
<1>3. Traded(m, before, a)
  BY <1>1, <1>2 DEF Moved, Listed, Passed, BookTypes
<1>4. /\ s \in Symbols /\ Fits(a.books[s], s) /\ a.told[s] = update
      /\ a.books[s] = TableAfter(m, before.books[s])
      /\ before.told[s] = NoSnapshot => \E r \in Refs : Live(a.books[s], r)
  BY <1>2, <1>3, TradeKeeps
<1>5. before.told[s] # NoSnapshot => Normalised(Registers(before.told[s])) = before.told[s]
  BY <1>2, <1>4 DEF Held
<1>6. Registers(update) = LastOf(before.told[s]) <=> update = before.told[s]
  BY <1>4, <1>5, UpdatesAreSeen
<1>7. update \in BboValues /\ Normalised(Registers(update)) = update /\ update # NoSnapshot
  BY <1>4, BboInCents, ReplayAssumption DEF UpdateOf, BboValues
<1>8. snapshot.stock = s /\ snapshot.bbo = Registers(update)
  BY <1>0, <1>1 DEF Answering
<1>9. /\ DOMAIN last = Symbols /\ \A r \in Symbols : last[r] = LastOf(before.told[r])
      /\ published = before.expected
  BY <1>1 DEF Reported
<1> HIDE DEF a, before, s, update
<1>10. /\ last' = [last EXCEPT ![s] = Registers(update)]
       /\ published' = IF Registers(update) # last[s]
                       THEN [published EXCEPT ![s] = Append(@, update)] ELSE published
       /\ pc' = "read"
       /\ UNCHANGED <<phase, source_messages, mapped, file, wire, board, faults>>
  BY <1>7, <1>8 DEF Publish, generator, hardware
<1>11. /\ \A r \in Symbols : r # s => a.told[r] = before.told[r]
       /\ a.expected = IF update = before.told[s] THEN before.expected
                       ELSE [before.expected EXCEPT ![s] = Append(@, update)]
  BY <1>3, <1>4 DEF Traded, a, before, s, update
<1>12. Reported(a)'
  <2>1. ASSUME NEW r \in Symbols PROVE last'[r] = LastOf(a.told[r])
    <3>1. CASE r = s
      BY <1>4, <1>7, <1>9, <1>10, <3>1 DEF LastOf
    <3>2. CASE r # s
      BY <1>9, <1>10, <1>11, <3>2
    <3> QED BY <3>1, <3>2
  <2>2. published' = a.expected
    BY <1>4, <1>6, <1>9, <1>10, <1>11
  <2> QED BY <1>9, <1>10, <2>1, <2>2 DEF Reported, a
<1>13. Holds(a)' /\ MappedAs(a)' /\ wire' = <<>>
  BY <1>1, <1>10 DEF Answering, Holds, MappedAs, a
<1> QED BY <1>0, <1>1, <1>2, <1>10, <1>12, <1>13 DEF Following, a

LEMMA HInvCapture ==
  ASSUME MInv, HInv, PollCounter \/ ReadBid \/ ReadAsk PROVE HInv'
<1> DEFINE read == [stock |-> bid_half.stock,
                    bbo |-> [d \in Sides |-> IF d = "BUY" THEN bid_half.bid
                                             ELSE shown.bbo["SELL"]]]
           gone == phase' \in Failures /\ UNCHANGED <<generator, program, hardware>>
           goes == /\ pc' \in {"bid", "ask"}
                   /\ pc' = "ask" => bid_half' = [stock |-> shown.stock, bid |-> shown.bbo["BUY"]]
                   /\ UNCHANGED <<phase, generator, source_messages, mapped, last, plan,
                                  published, hardware>>
<1>1. /\ phase = "replay" /\ pc \in {"poll", "bid", "ask"}
      /\ pc = "poll" => counter # counter_before
  BY DEF PollCounter, ReadBid, ReadAsk
<1>2. gone \/ goes \/ (pc = "ask" /\ Publish(read))
  <2>1. CASE PollCounter
    BY <2>1 DEF PollCounter, Fail, Failures
  <2>2. CASE ReadBid
    BY <2>2 DEF ReadBid, Fail, Failures
  <2>3. CASE ReadAsk
    <3>1. \/ Fail("counter advanced again")
          \/ Publish(read)
          \/ /\ pc' = "bid"
             /\ UNCHANGED <<phase, generator, source_messages, mapped, last, plan,
                            published, hardware>>
      <4> HIDE DEF Publish, Fail
      <4> QED BY <2>3, Zenon DEF ReadAsk
    <3>2. pc = "ask"
      BY <2>3 DEF ReadAsk
    <3>3. Fail("counter advanced again") => gone
      BY DEF Fail, Failures
    <3> QED BY <3>1, <3>2, <3>3
  <2> QED BY <2>1, <2>2, <2>3
<1>3. CASE gone
  <2>1. /\ UNCHANGED <<file, expected, published, faults>>
        /\ phase' \notin {"generate", "done", "replay"}
    BY <1>3 DEF Failures, generator, program, hardware
  <2> QED BY <2>1, HInvOutside
<1>4. CASE goes \/ (pc = "ask" /\ Publish(read))
  <2>1. UNCHANGED <<phase, file, expected, faults>>
    BY <1>4 DEF Publish, generator, hardware
  <2>2. faults' \in Nat /\ Delivered'
    BY <1>1, <2>1 DEF HInv, Delivered
  <2>3. ASSUME NEW T, Representative, Trace(T), AtEnd(T), Following(T)
        PROVE  Following(T)'
    <3> SUFFICES ASSUME faults = 0 PROVE Following(T)'
      BY <2>1 DEF Following
    <3>1. CASE goes
      BY <1>1, <2>3, <3>1, StillFollowing DEF generator, hardware
    <3>2. CASE pc = "ask" /\ Publish(read)
      <4>1. bid_half = [stock |-> shown.stock, bid |-> shown.bbo["BUY"]]
            /\ Answering(T[source_messages])
        BY <1>1, <2>3, <3>2, Captured
      <4>2. read = shown
        <5>1. PICK stock, bbo : shown = [stock |-> stock, bbo |-> Registers(bbo)]
          BY <4>1 DEF Answering
        <5>2. [d \in Sides |-> IF d = "BUY" THEN Registers(bbo)["BUY"] ELSE Registers(bbo)["SELL"]]
                = Registers(bbo)
          BY DEF Registers, Sides
        <5> QED BY <4>1, <5>1, <5>2
      <4> QED BY <1>1, <2>3, <3>2, <4>2, PublishFollows
    <3> QED BY <1>4, <3>1, <3>2
  <2> QED BY <1>1, <2>1, <2>2, <2>3, HInvSuffices
<1> QED BY <1>2, <1>3, <1>4

LEMMA HInvFinish ==
  ASSUME MInv, HInv, Finish PROVE HInv'
<1>1. /\ phase = "replay" /\ pc = "read" /\ source_messages = Len(file)
      /\ phase' \in {"done", "stock not mapped"}
      /\ UNCHANGED <<file, expected, published, faults>>
  BY DEF Finish, generator, hardware
<1>2. faults' \in Nat
  BY <1>1 DEF HInv
<1>3. ASSUME Representative PROVE Delivered'
  <2>1. PICK T : Trace(T) /\ AtEnd(T) /\ Following(T)
    BY <1>3 DEF HInv
  <2>2. faults = 0 => published = T[Len(file)].expected
    BY <1>1, <2>1 DEF Following, Reported
  <2>3. T[Len(file)].expected = expected
    BY <2>1 DEF AtEnd
  <2> QED BY <1>1, <2>2, <2>3 DEF Delivered
<1>4. ASSUME NEW T PROVE Following(T)'
  BY <1>1 DEF Following
<1> QED BY <1>1, <1>2, <1>3, <1>4, HInvSuffices

LEMMA HInvInit == Init => HInv
<1> SUFFICES ASSUME Init PROVE HInv
  OBVIOUS
<1>1. /\ faults = 0 /\ phase = "generate" /\ file = <<>> /\ Len(file) = 0
      /\ books = [s \in Symbols |-> NoBook]
      /\ raw_bbo = [s \in Symbols |-> NoSnapshot]
      /\ comparable_bbo = [s \in Symbols |-> NoSnapshot]
      /\ expected = [s \in Symbols |-> <<>>]
  BY DEF Init
<1> DEFINE start == [books |-> [s \in Symbols |-> NoBook], told |-> [s \in Symbols |-> NoSnapshot],
                     expected |-> [s \in Symbols |-> <<>>]]
<1>2. PICK T : T[0] = start
  <2>1. [n \in {0} |-> start][0] = start
    OBVIOUS
  <2> QED BY <2>1
<1>3. 0 .. Len(file) = {0} /\ 1 .. Len(file) = {}
  BY <1>1
<1>4. Held(T[0])
  BY <1>2 DEF Held
<1>5. Trace(T)
  BY <1>2, <1>3, <1>4 DEF Trace
<1>6. AtEnd(T)
  BY <1>1, <1>2 DEF AtEnd
<1>7. Following(T) /\ Delivered
  BY <1>1 DEF Following, Delivered
<1> QED BY <1>1, <1>5, <1>6, <1>7 DEF HInv

LEMMA HInvStep == MInv /\ HInv /\ [Next]_vars => HInv'
<1> SUFFICES ASSUME MInv, HInv, [Next]_vars PROVE HInv'
  OBVIOUS
<1>1. ASSUME NEW m \in Messages, Generate(m) PROVE HInv'
  BY <1>1, HInvGenerate
<1>2. CASE WriteOracle
  <2>1. phase' = "ready" /\ UNCHANGED <<file, expected, published, faults>>
    BY <1>2 DEF WriteOracle, program, hardware
  <2> QED BY <2>1, HInvOutside
<1>3. CASE Begin
  BY <1>3, HInvBegin
<1>4. CASE Board
  BY <1>4, HInvBoard
<1>5. CASE FaultyBoard
  BY <1>5, HInvFaulty
<1>6. CASE Ready
  BY <1>6, HInvReady
<1>7. CASE ReadMessage
  BY <1>7, HInvReadMessage
<1>8. CASE PollCounter \/ ReadBid \/ ReadAsk
  BY <1>8, HInvCapture
<1>9. CASE Finish
  BY <1>9, HInvFinish
<1>10. CASE SetupFails \/ Timeout
  <2>1. /\ phase' \in {"setup failed", "timeout"}
        /\ UNCHANGED <<file, expected, published, faults>>
    BY <1>10 DEF SetupFails, Timeout, Fail, generator, program, hardware
  <2> QED BY <2>1, HInvOutside
<1>11. CASE UNCHANGED vars
  <2>1. /\ UNCHANGED <<phase, file, expected, books, raw_bbo, comparable_bbo, published, faults>>
        /\ UNCHANGED <<pc, source_messages, mapped, last, plan, bid_half, wire, board, shown>>
    BY <1>11 DEF vars, generator, program, hardware
  <2>2. faults' \in Nat
    BY <2>1 DEF HInv
  <2>3. Representative => Delivered'
    BY <2>1 DEF HInv, Delivered
  <2>4. ASSUME NEW T, Representative, Trace(T), AtEnd(T), Following(T)
        PROVE  Following(T)'
    BY <2>1, <2>4 DEF Following, Reported, MappedAs, Holds, Answering
  <2> QED BY <2>1, <2>2, <2>3, <2>4, HInvSuffices
<1> QED BY <1>1, <1>2, <1>3, <1>4, <1>5, <1>6, <1>7, <1>8, <1>9, <1>10, <1>11 DEF Next, Replay

LEMMA HInvImplies == VInv /\ HInv => HonestBoardPasses
<1> SUFFICES ASSUME VInv, HInv, phase = "done", Representative, faults = 0
             PROVE  /\ ~verifier.latched_fail
                    /\ verifier.comparisons = total_expected(expected)
  BY DEF HonestBoardPasses
<1>1. published = expected
  BY DEF HInv, Delivered
<1>2. /\ verifier.comparisons = TotalLength(published)
      /\ verifier.latched_fail # TRUE <=> Agrees(expected, published)
  BY DEF VInv, Judged, Counted
<1>3. Agrees(expected, published)
  BY <1>1 DEF Agrees
<1>4. verifier.latched_fail <=> verifier.latched_fail = TRUE
  BY FlagOfVerifier DEF VInv, VerdictTypes
<1>5. ~verifier.latched_fail
  BY <1>2, <1>3, <1>4, Zenon
<1>6. verifier.comparisons = total_expected(expected)
  BY <1>1, <1>2 DEF total_expected
<1> QED BY <1>5, <1>6

(* A board without a fault passes on every file of whole cents inside the  *)
(* windows: the oracle, which skips what repeats before and after          *)
(* conversion to cents, and the program, which compares registers, report  *)
(* the same changes (generate_oracle.py:184, hardware.py:573).             *)
THEOREM HonestBoardsPass == Spec => []HonestBoardPasses
<1>1. Init => HInv
  BY HInvInit
<1>2. MInv /\ HInv /\ [Next]_vars => HInv'
  BY HInvStep
<1>3. VInv /\ HInv => HonestBoardPasses
  BY HInvImplies
<1> QED BY <1>1, <1>2, <1>3, MInvHolds, VInvHolds, PTL DEF Spec
=============================================================================
