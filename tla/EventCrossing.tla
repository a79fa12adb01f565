----------------------------- MODULE EventCrossing -----------------------------
(***************************************************************************)
(* The event FIFO in front of the symbol router, as ethernet_to_bbo_top    *)
(* connects them: the reader's clock is the router's, the item shown is    *)
(* the router's input and the router's ready takes it.  The decoder writes *)
(* a fixed stream of events again and again, with pauses of any length.    *)
(***************************************************************************)
EXTENDS SymbolRouter, EventFifo

CONSTANT Stream   \* what the decoder writes, over and over

ASSUME EventCrossingAssumption ==
  /\ Items \subseteq Events
  /\ NoItem = NoEvent
  /\ Stream \in Seq(Items) \ {<<>>}

VARIABLE offer   \* the position in Stream of the next event to be written

crossing_vars == <<vars, fifo_vars, offer>>

rdata_i == IF m_valid_o THEN m_data_o ELSE NoEvent

(* The decoder has its next event at hand, or nothing yet.                 *)
Offers == {<<>>, <<Stream[offer]>>}

Offered(offered) ==
  offer' = IF offered # <<>> /\ s_ready_o THEN (offer % Len(Stream)) + 1 ELSE offer

CrossingInit == Init /\ FifoInit /\ offer = 1 /\ event = rdata_i

WriteEdge ==
  \E offered \in Offers :
    /\ WriteClock(offered)
    /\ Offered(offered)
    /\ event' = rdata_i'
    /\ UNCHANGED <<ready, rdata, base_price, valid, accepted, taken, owed>>

ReadEdge ==
  /\ ReadClock(ready_o)
  /\ Router
  /\ event' = rdata_i'
  /\ UNCHANGED offer

BothEdges ==
  \E offered \in Offers :
    /\ BothClocks(offered, ready_o)
    /\ Offered(offered)
    /\ Router
    /\ event' = rdata_i'

CrossingNext == WriteEdge \/ ReadEdge \/ BothEdges

(* The router with the FIFO in front of it, the clocks as they come.       *)
CrossingSpec == CrossingInit /\ [][CrossingNext]_crossing_vars
=============================================================================
