------------------------------ MODULE DemoReplay ------------------------------
(***************************************************************************)
(* The demo's two programs over one capture file.                          *)
(*                                                                         *)
(* demo/generate_oracle.py applies the file to golden books and writes the *)
(* BBO changes it expects the board to show.  demo/hardware.py then sends  *)
(* the same file to the board, one DMA packet at a time, waits for the     *)
(* completion counter where it predicts an answer, reads the BBO registers *)
(* and hands every change to the verifier.                                 *)
(*                                                                         *)
(* The board takes packets from the wire on its own clock.  What it does   *)
(* with an order event is what SymbolRouter and TopOfBook promise, the     *)
(* REPLACE of an order it does not hold included.                          *)
(***************************************************************************)
EXTENDS LimitOrders, OracleVerifier

CONSTANTS
  BasePrice,     \* BASE_PRICE_CENTS, the same table in four places
  WINDOW,        \* 1 << BBO_W
  PRICE_UNIT,    \* Price(4) units in a cent, 100
  Messages,      \* the messages a file may consist of
  Scenarios,     \* bound: files and faults looked at, by name, see ScenarioRecords
  COUNTER_MOD,   \* the completion counter is 32 bits wide
  NoBook, NoPlan, NoSnapshot

(* Prices in messages are Price(4), everything the board sees is in cents. *)
Cents(price) == price \div PRICE_UNIT

MessageRecords ==
  [type : {"R"}, stock : Symbols] \cup
  [type : {"S", "OTHER"}] \cup
  [type : {"A"}, stock : Symbols, ref : Refs, side : Sides, price : Prices, shares : Shares] \cup
  [type : {"X"}, stock : Symbols, ref : Refs, shares : Shares] \cup
  [type : {"D"}, stock : Symbols, ref : Refs] \cup
  [type : {"U"}, stock : Symbols, ref : Refs, new_ref : Refs, price : Prices, shares : Shares]

(* A file starts with prefix and goes on with messages from a set, up to a *)
(* length; so many answers of the board may be wrong; the button of the    *)
(* page is clicked so often, and so many polls are under way at once.      *)
ScenarioRecords ==
  [prefix : Seq(Messages), messages : SUBSET Messages, length : Nat,
   faults : Nat, clicks : Nat, polls : Nat]

ASSUME ReplayAssumption ==
  /\ BasePrice \in [Symbols -> Nat]
  /\ WINDOW \in Nat
  /\ PRICE_UNIT \in Nat \ {0}
  /\ Messages \subseteq MessageRecords
  /\ \A name \in DOMAIN Scenarios : Scenarios[name] \in ScenarioRecords
  /\ COUNTER_MOD \in Nat \ {0, 1}
  /\ NoOrder \notin Shares
  /\ NoBook \notin [Refs -> Order \cup {NoOrder}]
  /\ NoSnapshot \notin [Sides -> [price : Int, size : Nat]]
  /\ \A m \in Messages : m.type \in {"A", "U"} => Cents(m.price) \in Prices

VARIABLES
  scenario,   \* the name of the scenario of this behaviour
  phase,      \* "generate", "ready", "replay", "done" or the reason of a failure
  (* demo/generate_oracle.py *)
  file,       \* the messages of the capture, the prefix the oracle freezes
  books,      \* golden order table per stock, NoBook before its directory entry
  raw_bbo, comparable_bbo,   \* previous_raw_bbo, previous_comparable_bbo
  expected,   \* sequences
  (* demo/hardware.py *)
  pc,         \* where run() is: "setup", "read", "poll", "bid", "ask"
  source_messages,
  mapped,     \* stocks whose locate code is known
  active_orders,   \* the mirror: shares of every order believed on the board
  last,       \* last_bid_price .. last_ask_shares
  plan,       \* the order action to commit, with the message it belongs to
  counter_before, bid_half, previous,
  verifier,
  published,  \* history: the BBO changes handed to the verifier
  (* the board *)
  wire,       \* packets sent and not yet worked off
  board,      \* the order table of every book
  rep_side,   \* the side the last REPLACE found
  counter,    \* completions, axi_gpio_meta channel 2
  shown,      \* stock and BBO on the output registers
  faults      \* wrong answers so far

generator == <<file, books, raw_bbo, comparable_bbo, expected>>
program   == <<pc, source_messages, mapped, active_orders, last, plan,
               counter_before, bid_half, previous, verifier, published>>
hardware  == <<wire, board, rep_side, counter, shown, faults>>
vars      == <<scenario, phase, generator, program, hardware>>

(* How a replay ends without a verdict.                                    *)
Failures == {"setup failed", "timeout", "counter advanced by more than one",
             "counter advanced again", "stock not mapped"}
Ended == {"done"} \cup Failures

BookTypes == {"A", "X", "D", "U"}
PricedTypes == {"A", "U"}

(* What a reduction leaves of an order.                                    *)
Reduced(order, shares) ==
  IF shares >= order.shares THEN NoOrder
  ELSE [order EXCEPT !.shares = @ - shares]

(* The meaning of an order message for a table of live orders; priced      *)
(* tells Price(4) and cents apart.                                         *)
Applied(table, m, price, side) ==
  CASE m.type = "A" ->
         [table EXCEPT ![m.ref] = [side |-> m.side, price |-> price, shares |-> m.shares]]
    [] m.type = "X" ->
         [table EXCEPT ![m.ref] = Reduced(@, m.shares)]
    [] m.type = "D" -> [table EXCEPT ![m.ref] = NoOrder]
    [] m.type = "U" ->
         [table EXCEPT ![m.ref] = NoOrder,
                       ![m.new_ref] = [side |-> side, price |-> price, shares |-> m.shares]]

PriceOf(m) == IF m.type \in PricedTypes THEN m.price ELSE 0

-----------------------------------------------------------------------------
(* generate_oracle.generate                                                *)

(* What an exchange sends: a directory entry before a stock trades, order  *)
(* references that are free or live as they must be, an uncrossed book.    *)
Sendable(m) ==
  m.type \in BookTypes =>
    LET table == books[m.stock] IN
    /\ table # NoBook
    /\ m.type = "A" => ~Live(table, m.ref)
    /\ m.type # "A" => Live(table, m.ref)
    /\ m.type = "X" => m.shares <= table[m.ref].shares
    /\ m.type = "U" => m.new_ref # m.ref /\ ~Live(table, m.new_ref)
    /\ LET side == IF m.type = "U" THEN table[m.ref].side ELSE "BUY"
           after == Applied(table, m, PriceOf(m), side)
       IN  \A bid \in OccupiedPrices(after, "BUY"), ask \in OccupiedPrices(after, "SELL") :
             bid < ask

InCents(top) == IF top = Empty THEN Empty ELSE [top EXCEPT !.price = Cents(@)]

BelowBase(top, s) == top # Empty /\ Cents(top.price) < BasePrice[s]

Representable(bbo, s) == \A side \in Sides : ~BelowBase(bbo[side], s)

(* _hardware_comparable_bbo, for a state it does not skip.                 *)
Comparable(bbo) == [side \in Sides |-> InCents(bbo[side])]

(* One order message of a listed stock; states that repeat, before or      *)
(* after conversion to cents, and states below the base price are skipped. *)
ReadByGolden(m) ==
  LET s == m.stock
      side == IF m.type = "U" THEN books[s][m.ref].side ELSE "BUY"
      after == Applied(books[s], m, PriceOf(m), side)
      bbo == BboOf(after)
      recorded == /\ bbo # raw_bbo[s]
                  /\ Representable(bbo, s)
                  /\ Comparable(bbo) # comparable_bbo[s]
  IN
  /\ books' = [books EXCEPT ![s] = after]
  /\ raw_bbo' = [raw_bbo EXCEPT ![s] = bbo]
  /\ IF recorded
     THEN /\ comparable_bbo' = [comparable_bbo EXCEPT ![s] = Comparable(bbo)]
          /\ expected' = [expected EXCEPT ![s] = Append(@, Comparable(bbo))]
     ELSE UNCHANGED <<comparable_bbo, expected>>

Generate(m) ==
  /\ phase = "generate"
  /\ Len(file) < Scenarios[scenario].length
  /\ IF Len(file) < Len(Scenarios[scenario].prefix) THEN m = Scenarios[scenario].prefix[Len(file) + 1]
     ELSE m \in Scenarios[scenario].messages
  /\ Sendable(m)
  /\ file' = Append(file, m)
  /\ CASE m.type = "R" ->
            /\ books' = [books EXCEPT ![m.stock] =
                 IF @ = NoBook THEN [r \in Refs |-> NoOrder] ELSE @]
            /\ UNCHANGED <<raw_bbo, comparable_bbo, expected>>
       [] m.type \in BookTypes -> ReadByGolden(m)
       [] OTHER -> UNCHANGED <<books, raw_bbo, comparable_bbo, expected>>
  /\ UNCHANGED <<scenario, phase, program, hardware>>

(* The document is written if every stock was listed and has an update;    *)
(* what the generator still holds is gone.                                 *)
WriteOracle ==
  /\ phase = "generate"
  /\ \A s \in Symbols : books[s] # NoBook /\ expected[s] # <<>>
  /\ phase' = "ready"
  /\ books' = [s \in Symbols |-> NoBook]
  /\ raw_bbo' = [s \in Symbols |-> NoSnapshot]
  /\ comparable_bbo' = [s \in Symbols |-> NoSnapshot]
  /\ UNCHANGED <<scenario, file, expected, program, hardware>>

-----------------------------------------------------------------------------
(* The board.                                                              *)

in_bounds(m) ==
  /\ Cents(m.price) >= BasePrice[m.stock]
  /\ Cents(m.price) - BasePrice[m.stock] < WINDOW

(* The router drops a priced event outside the window, the book an event   *)
(* that names an order it does not hold, except a REPLACE.                 *)
Completes(m) ==
  /\ m.type \in BookTypes
  /\ m.type \in PricedTypes => in_bounds(m)
  /\ m.type \in {"X", "D"} => Live(board[m.stock], m.ref)

(* The order table after an event; a REPLACE that finds nothing puts its   *)
(* order on the side the last one found.                                   *)
AfterOnBoard(m) ==
  LET table == board[m.stock]
      side == IF m.type = "U" /\ Live(table, m.ref) THEN table[m.ref].side
              ELSE rep_side[m.stock]
  IN  Applied(table, m, Cents(PriceOf(m)), side)

(* Empty sides read as zeros on the registers.                             *)
Registers(bbo) ==
  [d \in Sides |-> IF bbo[d] = Empty THEN [price |-> 0, size |-> 0] ELSE bbo[d]]

NothingShown == [d \in Sides |-> [price |-> 0, size |-> 0]]

(* The board works the next packet off and shows a BBO on its registers.   *)
Work(m, bbo) ==
  LET s == m.stock
      side == IF m.type = "U" /\ Live(board[s], m.ref)
              THEN board[s][m.ref].side ELSE rep_side[s]
  IN
  /\ board' = [board EXCEPT ![s] = AfterOnBoard(m)]
  /\ rep_side' = [rep_side EXCEPT ![s] = IF m.type = "U" THEN side ELSE @]
  /\ counter' = (counter + 1) % COUNTER_MOD
  /\ shown' = [stock |-> s, bbo |-> bbo]

Board ==
  /\ wire # <<>>
  /\ wire' = Tail(wire)
  /\ LET m == Head(wire) IN
     IF Completes(m)
     THEN Work(m, Registers(BboOf(AfterOnBoard(m))))
     ELSE UNCHANGED <<board, rep_side, counter, shown>>
  /\ UNCHANGED <<scenario, phase, generator, program, faults>>

(* A board with a fault: the answer comes, but it is the previous one, or  *)
(* an empty book.                                                          *)
FaultyBoard ==
  /\ faults < Scenarios[scenario].faults
  /\ faults' = faults + 1
  /\ wire # <<>>
  /\ wire' = Tail(wire)
  /\ Completes(Head(wire))
  /\ \E bbo \in {shown.bbo, NothingShown} : Work(Head(wire), bbo)
  /\ UNCHANGED <<scenario, phase, generator, program>>

-----------------------------------------------------------------------------
(* HardwareReplay.run                                                      *)

(* A new replay: a new HardwareReplay and verifier; a new Overlay programs *)
(* the board, so nothing of an earlier replay is left there.               *)
Begin ==
  /\ phase \in {"ready"} \cup Ended
  /\ phase' = "replay"
  /\ pc' = "setup"
  /\ source_messages' = 0
  /\ mapped' = {}
  /\ active_orders' = [s \in Symbols |-> [r \in Refs |-> NoOrder]]
  /\ last' = [s \in Symbols |-> NothingShown]
  /\ plan' = NoPlan
  /\ counter_before' = 0
  /\ bid_half' = NoSnapshot
  /\ previous' = NoSnapshot
  /\ verifier' = NewVerifier
  /\ published' = [s \in Symbols |-> <<>>]
  /\ UNCHANGED <<scenario, generator, hardware>>

(* _load_overlay and _configure_base_prices, then on_ready.                *)
Ready ==
  /\ phase = "replay"
  /\ pc = "setup"
  /\ pc' = "read"
  /\ wire' = <<>>
  /\ board' = [s \in Symbols |-> [r \in Refs |-> NoOrder]]
  /\ rep_side' = [s \in Symbols |-> "SELL"]
  /\ counter' = 0
  /\ shown' = [stock |-> NoPlan, bbo |-> NothingShown]
  /\ UNCHANGED <<scenario, phase, generator, source_messages, mapped, active_orders, last,
                 plan, counter_before, bid_half, previous, verifier, published, faults>>

(* Mutant: a lookup miss is not foreseen.                                  *)
ExpectBbo_NoMirror(m) ==
  /\ m.type \in BookTypes
  /\ m.type \in PricedTypes => in_bounds(m)

(* Mutant: a REPLACE of an order that is not there is not waited for.      *)
ExpectBbo_NoStray(m) ==
  /\ m.type \in BookTypes
  /\ m.type \in PricedTypes => in_bounds(m)
  /\ m.type \in {"X", "D", "U"} => active_orders[m.stock][m.ref] # NoOrder

(* Whether the event produces a completion, from the mirror.               *)
ExpectBbo(m) ==
  /\ m.type \in BookTypes
  /\ m.type \in PricedTypes => in_bounds(m)
  /\ m.type \in {"X", "D"} => active_orders[m.stock][m.ref] # NoOrder

(* Mutant: a replaced order stays in the mirror.                           *)
Committed_KeepsOld(m, orders) ==
  CASE m.type = "A" -> [orders EXCEPT ![m.ref] = m.shares]
    [] m.type = "U" -> [orders EXCEPT ![m.new_ref] = m.shares]
    [] m.type = "D" -> [orders EXCEPT ![m.ref] = NoOrder]
    [] m.type = "X" -> [orders EXCEPT ![m.ref] =
                          IF @ - m.shares <= 0 THEN NoOrder ELSE @ - m.shares]

(* _commit_order_book_event                                                *)
Committed(m, orders) ==
  CASE m.type = "A" -> [orders EXCEPT ![m.ref] = m.shares]
    [] m.type = "U" -> [orders EXCEPT ![m.ref] = NoOrder, ![m.new_ref] = m.shares]
    [] m.type = "D" -> [orders EXCEPT ![m.ref] = NoOrder]
    [] m.type = "X" -> [orders EXCEPT ![m.ref] =
                          IF @ - m.shares <= 0 THEN NoOrder ELSE @ - m.shares]

Kept(m, stocks) == m.type = "S" \/ (m.type # "OTHER" /\ m.stock \in stocks)

(* The next record: mapped, dropped, or sent by DMA.  Only an event that   *)
(* should produce a completion is waited for.                              *)
ReadMessage ==
  /\ phase = "replay"
  /\ pc = "read"
  /\ source_messages < Len(file)
  /\ LET m == file[source_messages + 1]
         stocks == IF m.type = "R" THEN mapped \cup {m.stock} ELSE mapped
     IN
     /\ source_messages' = source_messages + 1
     /\ mapped' = stocks
     /\ wire' = IF Kept(m, stocks) /\ m.type \in BookTypes THEN Append(wire, m) ELSE wire
     /\ IF Kept(m, stocks) /\ ExpectBbo(m)
        THEN /\ pc' = "poll"
             /\ plan' = m
             /\ counter_before' = counter
        ELSE UNCHANGED <<pc, plan, counter_before>>
  /\ UNCHANGED <<scenario, phase, generator, active_orders, last, bid_half, previous,
                 verifier, published, board, rep_side, counter, shown, faults>>

Fail(reason) ==
  /\ phase' = reason
  /\ UNCHANGED <<scenario, generator, program, hardware>>

completed_counter == (counter_before + 1) % COUNTER_MOD

(* _capture_completed_bbo, first loop: wait for the counter.               *)
PollCounter ==
  /\ phase = "replay"
  /\ pc = "poll"
  /\ counter # counter_before
  /\ IF counter = completed_counter
     THEN /\ pc' = "bid"
          /\ previous' = NoSnapshot
          /\ UNCHANGED <<scenario, phase, source_messages, mapped, active_orders, last, plan,
                         counter_before, bid_half, verifier, published, generator, hardware>>
     ELSE Fail("counter advanced by more than one")

(* Second loop: the registers are read one after the other, between two    *)
(* looks at the counter, until two snapshots agree.                        *)
ReadBid ==
  /\ phase = "replay"
  /\ pc = "bid"
  /\ IF counter = completed_counter
     THEN /\ bid_half' = [stock |-> shown.stock, bid |-> shown.bbo["BUY"]]
          /\ pc' = "ask"
          /\ UNCHANGED <<scenario, phase, source_messages, mapped, active_orders, last, plan,
                         counter_before, previous, verifier, published, generator, hardware>>
     ELSE Fail("counter advanced again")

(* Mutant: an empty side keeps the zeros of the registers.                 *)
Normalised_Zeros(bbo) == bbo

(* _normalise_hw_bbo                                                       *)
Normalised(bbo) == [d \in Sides |-> IF bbo[d].size = 0 THEN Empty ELSE bbo[d]]

(* A stable snapshot: commit the mirror, report a change.                  *)
Publish(snapshot) ==
  LET s == snapshot.stock
      changed == snapshot.bbo # last[s]
  IN
  /\ active_orders' = [active_orders EXCEPT ![plan.stock] = Committed(plan, @)]
  /\ last' = [last EXCEPT ![s] = snapshot.bbo]
  /\ IF changed
     THEN /\ verifier' = Observe(verifier, expected, s, Normalised(snapshot.bbo))
          /\ published' = [published EXCEPT ![s] = Append(@, Normalised(snapshot.bbo))]
     ELSE UNCHANGED <<verifier, published>>
  /\ pc' = "read"
  /\ plan' = NoPlan
  /\ counter_before' = 0
  /\ bid_half' = NoSnapshot
  /\ previous' = NoSnapshot
  /\ UNCHANGED <<scenario, phase, source_messages, mapped, generator, hardware>>

ReadAsk ==
  /\ phase = "replay"
  /\ pc = "ask"
  /\ LET snapshot == [stock |-> bid_half.stock,
                      bbo |-> [d \in Sides |-> IF d = "BUY" THEN bid_half.bid
                                               ELSE shown.bbo["SELL"]]]
     IN  CASE counter # completed_counter -> Fail("counter advanced again")
           [] counter = completed_counter /\ snapshot = previous -> Publish(snapshot)
           [] counter = completed_counter /\ snapshot # previous ->
                /\ previous' = snapshot
                /\ bid_half' = NoSnapshot
                /\ pc' = "bid"
                /\ UNCHANGED <<scenario, phase, source_messages, mapped, active_orders, last,
                               plan, counter_before, verifier, published, generator, hardware>>

(* A file is missing, or the overlay cannot be loaded.                     *)
SetupFails ==
  /\ phase = "replay"
  /\ pc = "setup"
  /\ Fail("setup failed")

(* BBO_WAIT_TIMEOUT_S passes at the head of either loop, whatever the      *)
(* board has done by then.                                                 *)
Timeout ==
  /\ phase = "replay"
  /\ pc \in {"poll", "bid"}
  /\ Fail("timeout")

(* The end of the file: finalise, with the length and hash of this file.   *)
Finish ==
  /\ phase = "replay"
  /\ pc = "read"
  /\ source_messages = Len(file)
  /\ IF mapped = Symbols
     THEN /\ verifier' = Finalise(verifier, expected, TRUE, TRUE)
          /\ phase' = "done"
     ELSE /\ phase' = "stock not mapped"
          /\ UNCHANGED verifier
  /\ UNCHANGED <<scenario, generator, pc, source_messages, mapped, active_orders, last,
                 plan, counter_before, bid_half, previous, published, hardware>>

-----------------------------------------------------------------------------
Init ==
  /\ scenario \in DOMAIN Scenarios
  /\ phase = "generate"
  /\ file = <<>>
  /\ books = [s \in Symbols |-> NoBook]
  /\ raw_bbo = [s \in Symbols |-> NoSnapshot]
  /\ comparable_bbo = [s \in Symbols |-> NoSnapshot]
  /\ expected = [s \in Symbols |-> <<>>]
  /\ pc = "setup"
  /\ source_messages = 0
  /\ mapped = {}
  /\ active_orders = [s \in Symbols |-> [r \in Refs |-> NoOrder]]
  /\ last = [s \in Symbols |-> NothingShown]
  /\ plan = NoPlan
  /\ counter_before = 0
  /\ bid_half = NoSnapshot
  /\ previous = NoSnapshot
  /\ verifier = NewVerifier
  /\ published = [s \in Symbols |-> <<>>]
  /\ wire = <<>>
  /\ board = [s \in Symbols |-> [r \in Refs |-> NoOrder]]
  /\ rep_side = [s \in Symbols |-> "SELL"]
  /\ counter = 0
  /\ shown = [stock |-> NoPlan, bbo |-> NothingShown]
  /\ faults = 0

Replay == Ready \/ ReadMessage \/ PollCounter \/ ReadBid \/ ReadAsk \/ Finish

Next ==
  \/ \E m \in Messages : Generate(m)
  \/ WriteOracle
  \/ Begin
  \/ Board
  \/ FaultyBoard
  \/ Replay
  \/ SetupFails
  \/ Timeout

Spec == Init /\ [][Next]_vars

(* The board's clock and the program go on; the timer need not fire.  Only *)
(* Board and FaultyBoard shorten the wire, and while a replay goes on only *)
(* the program moves its place, so fairness is stated on these.            *)
TakesPacket == wire # <<>> /\ wire' = Tail(wire)

Waiting == pc = "poll" /\ counter = counter_before

Moves ==
  /\ phase = "replay"
  /\ ~Waiting
  /\ phase' \in {"replay"} \cup Ended
  /\ pc' \in {"read", "poll", "bid", "ask"}
  /\ source_messages' \in {source_messages, source_messages + 1}

Fairness == WF_wire(TakesPacket) /\ WF_<<phase, pc, source_messages>>(Moves)

-----------------------------------------------------------------------------
(* The mirror of order references knows, between two messages, exactly the *)
(* orders the board holds and their shares, although the board drops what  *)
(* lies outside the window, loses the replaced order with a REPLACE it     *)
(* drops, and keeps one the exchange has replaced (hardware.py:207).       *)
MirrorTracksBoard ==
  phase = "replay" /\ pc = "read" /\ wire = <<>> =>
    \A s \in Symbols, r \in Refs :
      active_orders[s][r] = IF Live(board[s], r) THEN board[s][r].shares ELSE NoOrder

(* The program never waits for a completion that is not coming: once the   *)
(* wire is empty the counter is one further (hardware.py:195).             *)
NeverWaitsInVain ==
  phase = "replay" /\ pc = "poll" /\ wire = <<>> => counter = completed_counter

(* No completion comes that was not predicted: the checks of the counter   *)
(* in _capture_completed_bbo cannot fire, and nothing of an earlier packet *)
(* or an earlier replay is taken for the answer.                           *)
CounterNeverSurprises ==
  phase \notin {"counter advanced by more than one", "counter advanced again"}

(* Every price of the file is whole cents inside its stock's window, and   *)
(* every order has shares: one without is a level of size 0 to the oracle, *)
(* which only an empty side is on the registers.                           *)
Representative ==
  \A i \in 1 .. Len(file) :
    LET m == file[i] IN
    m.type \in PricedTypes =>
      in_bounds(m) /\ m.price = Cents(m.price) * PRICE_UNIT /\ m.shares > 0

(* A board without a fault is never failed on a file inside the windows:   *)
(* the oracle, which drops states that repeat before and after conversion, *)
(* and the board, which only shows changes, produce the same sequences.    *)
HonestBoardPasses ==
  phase = "done" /\ Representative /\ faults = 0 =>
    ~verifier.latched_fail /\ verifier.comparisons = total_expected(expected)

(* A verdict is exact for any board: the replay passes if and only if the  *)
(* board has shown what the oracle says, for every stock, in order, nothing *)
(* more and nothing less.                                                  *)
VerdictExact ==
  phase = "done" => (~verifier.latched_fail <=> Agrees(expected, published))

(* When the board has only left updates out, the number of mismatches is   *)
(* the number of those, however often the comparison had to resynchronise  *)
(* (oracle.py:164).                                                        *)
LossesCounted ==
  phase = "done" /\ OnlyLost(expected, published) =>
    verifier.mismatches = total_expected(expected) - verifier.comparisons

(* What generate_oracle.py:264 says of the sequences it writes: they are   *)
(* the hardware-visible changes, below-base states excluded; so a board    *)
(* that works is not failed, whatever the exchange sent.                   *)
OracleMatchesBoard ==
  phase = "done" /\ faults = 0 => ~verifier.latched_fail
=============================================================================
