----------------------------- MODULE SymbolRouter -----------------------------
(***************************************************************************)
(* rtl/symbol_router.sv: takes decoded events from the event FIFO and puts *)
(* each on one shared output register with the base price of its stock,    *)
(* raising valid for the book it belongs to.  Events of other stocks and   *)
(* prices outside a book's window are consumed and go nowhere.  A step is  *)
(* one rising clock edge after reset.                                      *)
(***************************************************************************)
EXTENDS Integers, Sequences

CONSTANTS
  Locates,    \* stock locate codes an event may carry
  Stocks,     \* the locates that have a book: 1, 2 and 3 in the code
  BasePrice,  \* base_price_stock0_i .. base_price_stock2_i, set before the run
  WINDOW,     \* price indices of a book, 1 << BBO_W
  Events,     \* the events a source may offer
  NoEvent, NoStock

EventRecords == [locate : Locates, priced : BOOLEAN, price : Nat, msg : Nat]

ASSUME SymbolRouterAssumption ==
  /\ Stocks \subseteq Locates
  /\ BasePrice \in [Stocks -> Nat]
  /\ WINDOW \in Nat
  /\ Events \subseteq EventRecords
  /\ NoEvent \notin Events
  /\ NoStock \notin Stocks

VARIABLES
  event,         \* rdata_i, NoEvent when valid_i is low
  ready,         \* the books whose ready is high
  rdata,         \* rdata_o
  base_price,    \* base_price_o
  valid,         \* the book whose valid is high, or NoStock
  accepted,      \* history: the last edge took an event from the source
  taken,         \* history: the event a book took on the last edge
  owed           \* history: events for a book that it has not taken yet

vars == <<event, ready, rdata, base_price, valid, accepted, taken, owed>>

Taken == [stock : Stocks, event : Events, base : Nat]

TypeOK ==
  /\ event \in Events \cup {NoEvent}
  /\ ready \subseteq Stocks
  /\ rdata \in Events \cup {NoEvent}
  /\ base_price \in Nat
  /\ valid \in Stocks \cup {NoStock}
  /\ accepted \in BOOLEAN
  /\ taken \in Taken \cup {NoEvent}
  /\ owed \in [Stocks -> Seq(Events)]

target_base_price(e) == IF e.locate \in Stocks THEN BasePrice[e.locate] ELSE 0

in_bounds(e) ==
  /\ e.price >= target_base_price(e)
  /\ e.price - target_base_price(e) < WINDOW

(* An event a book must see.                                               *)
Routed(e) == e.locate \in Stocks /\ (e.priced => in_bounds(e))

(* The output register waits for the book it is meant for.                 *)
delivering == valid # NoStock /\ valid \notin ready

(* An event nobody wants needs no ready: ob_sr_ready_bus[0] is tied high.  *)
Free(e) == e.locate \in Stocks => e.locate \in ready

(* Mutants: a book that is ready is enough, whatever the register holds;   *)
(* all books must be ready.                                                *)
ready_o_IgnoresHeld == Free(event)
ready_o_AllBooks == Stocks \subseteq ready /\ ~delivering

ready_o == Free(event) /\ ~delivering

handshake == event # NoEvent /\ ready_o

(* The books: their ready depends on what they hold and on what is offered. *)
Books == ready' \in SUBSET Stocks

(* The source, which EventFifo is: it holds its event until it is taken.   *)
Source ==
  IF event = NoEvent \/ handshake THEN event' \in Events \cup {NoEvent}
  ELSE event' = event

Deliver ==
  taken' = IF valid \in ready
           THEN [stock |-> valid, event |-> rdata, base |-> base_price]
           ELSE NoEvent

(* What a book is owed: less the event it takes, plus the one taken for it. *)
Rest(s) == IF s = valid /\ s \in ready /\ owed[s] # <<>> THEN Tail(owed[s]) ELSE owed[s]

Owe ==
  owed' = [s \in Stocks |->
    IF handshake /\ Routed(event) /\ event.locate = s THEN Append(Rest(s), event)
    ELSE Rest(s)]

(* What goes on around the output register on every clock edge.            *)
Edge == Books /\ accepted' = handshake /\ Deliver /\ Owe

-----------------------------------------------------------------------------
Init ==
  /\ event \in Events \cup {NoEvent}
  /\ ready \in SUBSET Stocks
  /\ rdata = NoEvent
  /\ base_price = 0
  /\ valid = NoStock
  /\ accepted = FALSE
  /\ taken = NoEvent
  /\ owed = [s \in Stocks |-> <<>>]

(* Mutant: while a book waits, the base price already follows the input.   *)
Hold_BaseFollows ==
  /\ delivering
  /\ base_price' = IF event # NoEvent THEN target_base_price(event) ELSE base_price
  /\ UNCHANGED <<rdata, valid>>
  /\ Edge

(* The book is not ready: nothing moves.                                   *)
Hold ==
  /\ delivering
  /\ UNCHANGED <<rdata, base_price, valid>>
  /\ Edge

(* Nothing is taken from the source; a delivered event is withdrawn.       *)
Idle ==
  /\ ~delivering
  /\ ~handshake
  /\ valid' = NoStock
  /\ UNCHANGED <<rdata, base_price>>
  /\ Edge

Route ==
  /\ ~delivering
  /\ handshake
  /\ Routed(event)
  /\ rdata' = event
  /\ base_price' = BasePrice[event.locate]
  /\ valid' = event.locate
  /\ Edge

(* Taken from the source and dropped; a price outside the window has still *)
(* loaded the register, base price included.                               *)
Discard ==
  /\ ~delivering
  /\ handshake
  /\ ~Routed(event)
  /\ rdata' = event
  /\ base_price' = IF event.priced /\ ~in_bounds(event) THEN target_base_price(event)
                   ELSE base_price
  /\ valid' = NoStock
  /\ Edge

Router == Hold \/ Idle \/ Route \/ Discard

Next == Router /\ Source

Spec == Init /\ [][Next]_vars

-----------------------------------------------------------------------------
(* What a book is owed is exactly what stands in the shared register for   *)
(* it: no event is lost, doubled or turned over to another book, although  *)
(* the three books close and open independently of each other and of the   *)
(* event that is offered.                                                  *)
RegisterHoldsWhatIsOwed ==
  \A s \in Stocks : owed[s] = IF valid = s THEN <<rdata>> ELSE <<>>

(* A book only takes its own events, oldest first, with its own base price *)
(* beside them, and with a price its index can represent (price_to_idx     *)
(* keeps BBO_W bits and would wrap silently).                              *)
TakesItsOwn ==
  [][taken' # NoEvent =>
       LET s == taken'.stock
           e == taken'.event
       IN /\ owed[s] # <<>>
          /\ e = Head(owed[s])
          /\ e.locate = s
          /\ taken'.base = BasePrice[s]
          /\ e.priced => e.price \in BasePrice[s] .. BasePrice[s] + WINDOW - 1]_vars

(* A book that stays closed for a while delays the others but never shuts  *)
(* the source out for good.                                                *)
SourceServed == (event # NoEvent) ~> accepted
=============================================================================
