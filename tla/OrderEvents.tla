----------------------------- MODULE OrderEvents -----------------------------
(***************************************************************************)
(* The order events a book receives and what each one means for the table  *)
(* of live orders.  This is the meaning golden/order_book.py gives them,   *)
(* with nothing said about levels; the books in hardware are compared with *)
(* it.  An event that names an order nobody knows changes nothing.         *)
(***************************************************************************)
EXTENDS LimitOrders

CONSTANTS
  Events,    \* the event records a source may send
  StrayOps   \* the operations that may name an order nobody knows

EventRecords ==
  [op : {"ADD"}, ref : Refs, side : Sides, price : Prices, shares : Shares] \cup
  [op : {"REDUCE"}, ref : Refs, shares : Shares] \cup
  [op : {"DELETE"}, ref : Refs] \cup
  [op : {"REPLACE"}, ref : Refs, new_ref : Refs, price : Prices, shares : Shares]

ASSUME EventsAssumption == Events \subseteq EventRecords

NoOrders == [ref \in Refs |-> NoOrder]

Known(table, e) == e.op = "ADD" \/ Live(table, e.ref)

(* The order a REPLACE puts in place keeps the side of the order it ends.  *)
NewOrder(table, e) ==
  [side |-> IF e.op = "ADD" THEN e.side ELSE table[e.ref].side,
   price |-> e.price, shares |-> e.shares]

AfterReduce(order, shares) ==
  IF shares = order.shares THEN NoOrder ELSE [order EXCEPT !.shares = @ - shares]

(* The table after one event.                                              *)
Apply(table, e) ==
  IF ~Known(table, e) THEN table
  ELSE CASE e.op = "ADD"     -> [table EXCEPT ![e.ref] = NewOrder(table, e)]
         [] e.op = "REDUCE"  -> [table EXCEPT ![e.ref] = AfterReduce(@, e.shares)]
         [] e.op = "DELETE"  -> [table EXCEPT ![e.ref] = NoOrder]
         [] e.op = "REPLACE" -> [table EXCEPT ![e.ref] = NoOrder,
                                              ![e.new_ref] = NewOrder(table, e)]

(* No bid at or above an ask.                                              *)
Uncrossed(table) ==
  \A bid \in OccupiedPrices(table, "BUY"), ask \in OccupiedPrices(table, "SELL") :
    bid < ask

(* What a feed may carry next: references that are free where one is       *)
(* introduced, unless a REPLACE keeps its own; no more shares than the     *)
(* order has, never a crossed book; and after a gap perhaps an event about *)
(* an order that was never seen.                                           *)
Legal(table, e) ==
  /\ ~Known(table, e) => e.op \in StrayOps
  /\ e.op = "ADD" => ~Live(table, e.ref)
  /\ e.op = "REPLACE" => e.new_ref = e.ref \/ ~Live(table, e.new_ref)
  /\ e.op = "REDUCE" /\ Known(table, e) => e.shares <= table[e.ref].shares
  /\ Uncrossed(Apply(table, e))
=============================================================================
