------------------------------- MODULE Stimulus -------------------------------
(***************************************************************************)
(* The generator of random feeds, golden/stimulus.py, and the runner on    *)
(* the file it writes.  The generator keeps a table of its own of the      *)
(* orders that live, chooses each message so that the table allows it, and *)
(* never asks the book; the table is gone when the file is read.           *)
(*                                                                         *)
(* Reference numbers are only compared, so the next one is any that has    *)
(* not been used.                                                          *)
(***************************************************************************)
EXTENDS Runner

CONSTANTS
  LOCATE,        \* the instrument of the feed
  BASE,          \* base_price: bids stay at or below it, asks above
  OFFSET,        \* how far from it a new order may be, 20 in the code
  STEP,          \* how far a replacement may move, 5 in the code
  Lots,          \* shares of a new order, 1 .. 500 in the code
  MESSAGES_MAX   \* bound: messages of a feed

ASSUME StimulusAssumption ==
  /\ LOCATE \in Locates
  /\ BASE \in Nat \ {0}
  /\ OFFSET \in Nat
  /\ STEP \in Nat
  /\ Lots \subseteq Quantities \ {0}
  /\ \A lot \in Lots : 1 .. lot \subseteq Quantities
  /\ MESSAGES_MAX \in Nat

VARIABLES
  live_orders,  \* the generator's table
  used,         \* references below next_order_ref
  lives         \* history: the table after each message

generatorVars == <<live_orders, used, lives>>
stimulusVars == <<vars, runnerVars, generatorVars>>

NoneLive == [ref \in Refs |-> NoOrder]

(* A run on the generated file, of which all events are wanted.            *)
StimulusInit ==
  /\ Init
  /\ capture = <<>>
  /\ options \in {o \in Options : o.symbol = None /\ o.locate \in {None, LOCATE}}
  /\ pc = "generate"
  /\ filter_locate = None /\ seen = 0
  /\ events_out = <<>> /\ states_out = <<>>
  /\ peaks = [live_orders |-> 0, BUY |-> 0, SELL |-> 0]
  /\ live_orders = NoneLive
  /\ used = {}
  /\ lives = <<>>

-----------------------------------------------------------------------------
(* The side a price may be on; an ADD and a REPLACE respect it.            *)
OnSide(side, price) == IF side = "BUY" THEN price <= BASE ELSE price > BASE

AddPrices(side) ==
  {p \in Prices : OnSide(side, p) /\ BASE - OFFSET <= p /\ p <= BASE + OFFSET}

(* One step from the old price, kept on its side.                          *)
Clamped(side, price) ==
  IF side = "BUY"
  THEN IF price > BASE THEN BASE ELSE IF price < 1 THEN 1 ELSE price
  ELSE IF price > BASE THEN price ELSE BASE + 1

ReplacePrices(order) ==
  {p \in Prices : \E step \in -STEP .. STEP : p = Clamped(order.side, order.price + step)}

(* The file grows by one message.                                          *)
Write(event, table) ==
  /\ pc = "generate"
  /\ Len(capture) < MESSAGES_MAX
  /\ capture' = Append(capture, [kind |-> "event", locate |-> LOCATE, event |-> event])
  /\ live_orders' = table
  /\ lives' = Append(lives, table)
  /\ UNCHANGED <<vars, options, pc, filter_locate, seen, fileVars>>

EmitAdd ==
  \E ref \in Refs \ used, side \in Sides, lot \in Lots :
    \E price \in AddPrices(side) :
      /\ Write([op |-> "ADD", ref |-> ref, side |-> side, price |-> price, shares |-> lot],
               [live_orders EXCEPT ![ref] =
                  [side |-> side, price |-> price, shares |-> lot]])
      /\ used' = used \cup {ref}

(* Mutant: an order with no shares left stays in the table.                *)
reduce_live_order_KeepsEmpty(table, ref, shares) == [table EXCEPT ![ref].shares = @ - shares]

reduce_live_order(table, ref, shares) ==
  LET order == table[ref] IN
  [table EXCEPT ![ref] =
     IF order.shares = shares THEN NoOrder ELSE [order EXCEPT !.shares = @ - shares]]

(* EXECUTE and CANCEL, by part or all of what is left.                     *)
EmitReduce ==
  \E ref \in {r \in Refs : Live(live_orders, r)} :
    \E shares \in 1 .. live_orders[ref].shares :
      /\ Write([op |-> "REDUCE", ref |-> ref, shares |-> shares],
               reduce_live_order(live_orders, ref, shares))
      /\ UNCHANGED used

EmitDelete ==
  \E ref \in {r \in Refs : Live(live_orders, r)} :
    /\ Write([op |-> "DELETE", ref |-> ref], [live_orders EXCEPT ![ref] = NoOrder])
    /\ UNCHANGED used

(* A replacement keeps its reference one time in five.                     *)
EmitReplace ==
  \E ref \in {r \in Refs : Live(live_orders, r)} :
    \E new_ref \in {ref} \cup (Refs \ used), lot \in Lots,
       price \in ReplacePrices(live_orders[ref]) :
      /\ Write([op |-> "REPLACE", ref |-> ref, new_ref |-> new_ref, price |-> price,
                shares |-> lot],
               [live_orders EXCEPT ![ref] = NoOrder,
                  ![new_ref] = [side |-> live_orders[ref].side, price |-> price,
                                shares |-> lot]])
      /\ used' = used \cup {new_ref}

(* The file is written and closed.                                         *)
EndOfFeed ==
  /\ pc = "generate"
  /\ pc' = "resolve"
  /\ UNCHANGED <<vars, inputVars, filter_locate, seen, fileVars, generatorVars>>

Generate == EmitAdd \/ EmitReduce \/ EmitDelete \/ EmitReplace \/ EndOfFeed

Run == RunnerNext /\ UNCHANGED generatorVars

StimulusNext == Generate \/ Run

StimulusSpec == StimulusInit /\ [][StimulusNext]_stimulusVars

-----------------------------------------------------------------------------
(* The orders that live after n messages, as the generator counted them.   *)
LivesAfter(n) == IF n = 0 THEN NoneLive ELSE lives[n]

(* After every event the orders of the book are those the generator        *)
(* counted, and nothing has been refused.                                  *)
BookFollows ==
  ~overflowed =>
    /\ pc # "failed"
    /\ order_table = LivesAfter(Len(states_out))

(* Every message is one that a feed may carry next, as the models of the   *)
(* hardware books assume of their sources.                                 *)
FeedIsLegal ==
  \A k \in DOMAIN capture : Meaning!Legal(LivesAfter(k - 1), capture[k].event)

(* random_valid_messages (golden/stimulus.py:397) calls its stream         *)
(* "contract-valid": whatever was chosen, the book refuses no event of it, *)
(* no bid ever reaches an ask, and the run on the file ends without an     *)
(* error.  A level that outgrows 32 bits is the one way out: the generator *)
(* does not add up levels.                                                 *)
FeedIsValid == lives # <<>> => BookFollows /\ FeedIsLegal
=============================================================================
