----------------------------- MODULE LimitOrders -----------------------------
(***************************************************************************)
(* The meaning of a set of live orders, shared by every book model: which  *)
(* orders rest at a price, what their aggregate level is, and which level  *)
(* is the best of a side.  Nothing here depends on how a book stores it.   *)
(*                                                                         *)
(* An order table maps every order reference to an order or to NoOrder.    *)
(* The total number of shares at a price is written as the cardinality of  *)
(* a set with one element per share, so that it can be reasoned about      *)
(* without recursion.                                                      *)
(***************************************************************************)
EXTENDS Integers, FiniteSets

CONSTANTS
  Refs,        \* order reference numbers
  Prices,      \* prices on the grid
  PRICE_MAX,   \* the largest price, 32 bits wide in contracts.py
  SHARES_MAX,  \* the largest number a 32-bit share count can hold
  NoOrder,     \* "order reference not in the table"
  NoLevel      \* "price not in the level dictionary"

Sides == {"BUY", "SELL"}
Shares == 0 .. SHARES_MAX

Order == [side : Sides, price : Prices, shares : Shares]
Level == [shares : Shares, order_count : Nat]

ASSUME LimitOrdersAssumption ==
  /\ IsFiniteSet(Refs)
  /\ PRICE_MAX \in Nat
  /\ Prices \subseteq 0 .. PRICE_MAX
  /\ SHARES_MAX \in Nat
  /\ NoOrder \notin Order
  /\ NoLevel \notin [shares : Nat, order_count : Nat]

Live(table, ref) == table[ref] # NoOrder

(* The orders resting at one price of one side.                            *)
OrdersAt(table, side, price) ==
  {ref \in Refs : /\ Live(table, ref)
                  /\ table[ref].side = side
                  /\ table[ref].price = price}

(* One element for every share resting there.                              *)
ShareUnits(table, side, price) ==
  {u \in OrdersAt(table, side, price) \X (1 .. SHARES_MAX) :
     u[2] <= table[u[1]].shares}

(* The level those orders make up.                                         *)
LevelOf(table, side, price) ==
  IF OrdersAt(table, side, price) = {} THEN NoLevel
  ELSE [shares |-> Cardinality(ShareUnits(table, side, price)),
        order_count |-> Cardinality(OrdersAt(table, side, price))]

(* The prices of a side that are occupied, and the best of them.           *)
OccupiedPrices(table, side) ==
  {price \in Prices : OrdersAt(table, side, price) # {}}

Best(side, prices) ==
  IF side = "BUY"
  THEN CHOOSE p \in prices : \A q \in prices : q <= p
  ELSE CHOOSE p \in prices : \A q \in prices : p <= q

(* Best price and its size, or Empty when the side has no order.           *)
Empty == [price |-> -1, size |-> 0]

TopOf(table, side) ==
  LET occupied == OccupiedPrices(table, side)
      best == Best(side, occupied)
  IN  IF occupied = {} THEN Empty
      ELSE [price |-> best, size |-> LevelOf(table, side, best).shares]

BboOf(table) == [side \in Sides |-> TopOf(table, side)]
=============================================================================
