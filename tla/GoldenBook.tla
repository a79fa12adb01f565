------------------------------ MODULE GoldenBook ------------------------------
(***************************************************************************)
(* The golden order book, golden/order_book.py: an order table and, per    *)
(* side, a dictionary of aggregate levels that every event updates         *)
(* incrementally.  An action is one call of OrderBook.apply; a call that   *)
(* raises sets raised and leaves behind exactly what the code has written  *)
(* by then.                                                                *)
(***************************************************************************)
EXTENDS LimitOrders

CONSTANTS
  Quantities   \* the share counts events carry

ASSUME QuantitiesAssumption == Quantities \subseteq Shares

VARIABLES
  order_table,  \* Refs -> Order or NoOrder
  levels,       \* side -> price -> Level or NoLevel (bid_levels, ask_levels)
  raised,       \* the last apply ended in an AssertionError
  overflowed    \* history: some apply failed the width check of Level

vars == <<order_table, levels, raised, overflowed>>

TypeOK ==
  /\ order_table \in [Refs -> Order \cup {NoOrder}]
  /\ levels \in [Sides -> [Prices -> Level \cup {NoLevel}]]
  /\ raised \in BOOLEAN
  /\ overflowed \in BOOLEAN

-----------------------------------------------------------------------------
(* Level arithmetic.  A Level whose shares leave 32 bits cannot be built.  *)

LevelAfterIncrease(old, shares) ==
  IF old = NoLevel THEN [shares |-> shares, order_count |-> 1]
  ELSE [shares |-> old.shares + shares, order_count |-> old.order_count + 1]

(* Mutant: a level of any width can be built.                              *)
CanIncrease_NoWidth(lv, side, price, shares) == TRUE

CanIncrease(lv, side, price, shares) ==
  LevelAfterIncrease(lv[side][price], shares).shares <= SHARES_MAX

IncreaseLevel(lv, side, price, shares) ==
  [lv EXCEPT ![side][price] = LevelAfterIncrease(@, shares)]

(* The checks of _decrease_level and _level_after_decrease.                *)
CanDecrease(lv, side, price, shares, count) ==
  LET old == lv[side][price] IN
  /\ old # NoLevel
  /\ old.shares >= shares
  /\ old.order_count >= count
  /\ old.order_count = count => old.shares = shares

(* Mutant: a level is dropped when its shares are gone, not its orders.    *)
LevelAfterDecrease_ByShares(old, shares, count) ==
  IF old.shares = shares THEN NoLevel
  ELSE [shares |-> old.shares - shares, order_count |-> old.order_count - count]

LevelAfterDecrease(old, shares, count) ==
  IF old.order_count = count THEN NoLevel
  ELSE [shares |-> old.shares - shares, order_count |-> old.order_count - count]

DecreaseLevel(lv, side, price, shares, count) ==
  [lv EXCEPT ![side][price] = LevelAfterDecrease(@, shares, count)]

-----------------------------------------------------------------------------
Init ==
  /\ order_table = [ref \in Refs |-> NoOrder]
  /\ levels = [side \in Sides |-> [price \in Prices |-> NoLevel]]
  /\ raised = FALSE
  /\ overflowed = FALSE

Raise ==
  /\ raised' = TRUE
  /\ UNCHANGED <<order_table, levels, overflowed>>

(* _add_order writes the table before the level, so an order whose level   *)
(* overflows is left in the table without being counted.                   *)
AddOrder(table, lv, ref, side, price, shares) ==
  /\ order_table' =
       [table EXCEPT ![ref] = [side |-> side, price |-> price, shares |-> shares]]
  /\ IF CanIncrease(lv, side, price, shares)
     THEN /\ levels' = IncreaseLevel(lv, side, price, shares)
          /\ raised' = FALSE
          /\ UNCHANGED overflowed
     ELSE /\ levels' = lv
          /\ raised' = TRUE
          /\ overflowed' = TRUE

ApplyAdd(ref, side, price, shares) ==
  \/ Live(order_table, ref) /\ Raise
  \/ /\ ~Live(order_table, ref)
     /\ AddOrder(order_table, levels, ref, side, price, shares)

(* Mutant: the remaining shares of a partly executed order are not stored. *)
ReduceOrder_NotStored(ref, shares) ==
  LET record == order_table[ref]
      whole == record.shares = shares
  IN
  /\ Live(order_table, ref)
  /\ shares <= record.shares
  /\ CanDecrease(levels, record.side, record.price, shares, IF whole THEN 1 ELSE 0)
  /\ levels' = DecreaseLevel(levels, record.side, record.price, shares,
                             IF whole THEN 1 ELSE 0)
  /\ order_table' = [order_table EXCEPT ![ref] = IF whole THEN NoOrder ELSE record]
  /\ raised' = FALSE
  /\ UNCHANGED overflowed

(* EXECUTE and CANCEL: both are _reduce_order.                             *)
ReduceOrder(ref, shares) ==
  LET record == order_table[ref]
      whole == record.shares = shares
      count == IF whole THEN 1 ELSE 0
  IN
  \/ ~Live(order_table, ref) /\ Raise
  \/ Live(order_table, ref) /\ shares > record.shares /\ Raise
  \/ /\ Live(order_table, ref)
     /\ shares <= record.shares
     /\ IF CanDecrease(levels, record.side, record.price, shares, count)
        THEN /\ levels' = DecreaseLevel(levels, record.side, record.price, shares, count)
             /\ order_table' = [order_table EXCEPT ![ref] =
                  IF whole THEN NoOrder ELSE [record EXCEPT !.shares = @ - shares]]
             /\ raised' = FALSE
             /\ UNCHANGED overflowed
        ELSE Raise

ApplyDelete(ref) ==
  LET record == order_table[ref] IN
  \/ ~Live(order_table, ref) /\ Raise
  \/ /\ Live(order_table, ref)
     /\ IF CanDecrease(levels, record.side, record.price, record.shares, 1)
        THEN /\ levels' = DecreaseLevel(levels, record.side, record.price, record.shares, 1)
             /\ order_table' = [order_table EXCEPT ![ref] = NoOrder]
             /\ raised' = FALSE
             /\ UNCHANGED overflowed
        ELSE Raise

(* Mutant: the old order is removed before the new reference is checked.   *)
ApplyReplace_RemoveFirst(ref, new_ref, price, shares) ==
  LET record == order_table[ref]
      rest == [order_table EXCEPT ![ref] = NoOrder]
      lv == DecreaseLevel(levels, record.side, record.price, record.shares, 1)
  IN
  /\ Live(order_table, ref)
  /\ CanDecrease(levels, record.side, record.price, record.shares, 1)
  /\ IF Live(rest, new_ref)
     THEN /\ order_table' = rest
          /\ levels' = lv
          /\ raised' = TRUE
          /\ UNCHANGED overflowed
     ELSE AddOrder(rest, lv, new_ref, record.side, price, shares)

(* REPLACE is remove and add in one apply; the new order keeps the side of *)
(* the old one, and the same reference may be used again.                  *)
ApplyReplace(ref, new_ref, price, shares) ==
  LET record == order_table[ref] IN
  \/ ~Live(order_table, ref) /\ Raise
  \/ Live(order_table, ref) /\ new_ref # ref /\ Live(order_table, new_ref) /\ Raise
  \/ /\ Live(order_table, ref)
     /\ new_ref = ref \/ ~Live(order_table, new_ref)
     /\ IF CanDecrease(levels, record.side, record.price, record.shares, 1)
        THEN AddOrder([order_table EXCEPT ![ref] = NoOrder],
                      DecreaseLevel(levels, record.side, record.price, record.shares, 1),
                      new_ref, record.side, price, shares)
        ELSE Raise

(* An event for another instrument reaches a book bound to one locate.     *)
ApplyForeignLocate == Raise

Next ==
  \/ \E ref \in Refs, side \in Sides, price \in Prices, shares \in Quantities :
       ApplyAdd(ref, side, price, shares)
  \/ \E ref \in Refs, shares \in Quantities : ReduceOrder(ref, shares)
  \/ \E ref \in Refs : ApplyDelete(ref)
  \/ \E ref, new_ref \in Refs, price \in Prices, shares \in Quantities :
       ApplyReplace(ref, new_ref, price, shares)
  \/ ApplyForeignLocate

Spec == Init /\ [][Next]_vars

(* Mutant: the lowest level is taken as the best of both sides.            *)
bbo_LowestOfBoth ==
  [side \in Sides |->
     LET occupied == {price \in Prices : levels[side][price] # NoLevel}
         best == Best("SELL", occupied)
     IN  IF occupied = {} THEN Empty
         ELSE [price |-> best, size |-> levels[side][best].shares]]

(* OrderBook.bbo(): recomputed from the level dictionaries.                *)
bbo ==
  [side \in Sides |->
     LET occupied == {price \in Prices : levels[side][price] # NoLevel}
         best == Best(side, occupied)
     IN  IF occupied = {} THEN Empty
         ELSE [price |-> best, size |-> levels[side][best].shares]]

-----------------------------------------------------------------------------
(* The levels are the aggregate of the order table: every price that has a *)
(* live order has a level with their total shares and their number, and no *)
(* other price has a level.  The incremental updates of order_book.py      *)
(* never drift from the orders, as assert_book_invariants in               *)
(* golden/tests/test_order_book.py:211 checks on examples.                 *)
BookInvariants ==
  \A side \in Sides, price \in Prices :
    levels[side][price] = LevelOf(order_table, side, price)

(* The same until some aggregate has left 32 bits.                         *)
LevelsMatchOrders == ~overflowed => BookInvariants

(* The published top of book is the best live order price of each side     *)
(* with all shares resting there.                                          *)
BboIsBest == ~overflowed => bbo = BboOf(order_table)

(* The defensive errors of _decrease_level and _level_after_decrease       *)
(* (missing level, negative shares or count, shares left in an empty       *)
(* level) cannot be raised for any live order, whole or in part.           *)
DecreaseNeverFails ==
  ~overflowed =>
    \A ref \in Refs : Live(order_table, ref) =>
      LET record == order_table[ref] IN
      /\ CanDecrease(levels, record.side, record.price, record.shares, 1)
      /\ \A shares \in Shares : shares < record.shares =>
           CanDecrease(levels, record.side, record.price, shares, 0)

(* An apply that raises has not mutated the book, unless a level overflowed: *)
(* the tests named ..._asserts_without_mutating_book.                      *)
RaiseMutatesNothing ==
  [][raised' /\ ~overflowed' => UNCHANGED <<order_table, levels>>]_vars
=============================================================================
