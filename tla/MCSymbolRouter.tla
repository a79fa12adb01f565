---------------------------- MODULE MCSymbolRouter ----------------------------
(***************************************************************************)
(* Two books with overlapping windows and one stock without a book.  An    *)
(* event with a price lies below, in, at the end of, or above a window;    *)
(* two that differ only in msg show a repetition.  The router is fed by    *)
(* any source that holds its event, or by the event FIFO with four slots   *)
(* and a stream of three different events: a slot that is lost, doubled or *)
(* overwritten shows, because three does not divide four.                  *)
(***************************************************************************)
EXTENDS EventCrossing, TLC

VARIABLE behind_fifo   \* chosen once

mc_vars == <<crossing_vars, behind_fifo>>

MCBasePrice == (1 :> 2) @@ (2 :> 3)
MCEvents ==
  [locate : {1, 2}, priced : {TRUE}, price : {1, 3, 4, 5}, msg : {1}] \cup
  [locate : Locates, priced : {FALSE}, price : {0}, msg : {1, 2}] \cup
  [locate : {9}, priced : {TRUE}, price : {1, 5}, msg : {1}]

Priced(s, price) == [locate |-> s, priced |-> TRUE, price |-> price, msg |-> 1]

MCStream == <<Priced(1, 3), Priced(2, 4), Priced(9, 1)>>
MCItems == {Priced(1, 3), Priced(2, 4), Priced(9, 1)}

-----------------------------------------------------------------------------
RouterClock == ~behind_fifo /\ Next /\ UNCHANGED <<fifo_vars, offer, behind_fifo>>

FifoWrites    == behind_fifo /\ WriteEdge /\ UNCHANGED behind_fifo
FifoReads     == behind_fifo /\ ReadEdge /\ UNCHANGED behind_fifo
FifoMovesBoth == behind_fifo /\ BothEdges /\ UNCHANGED behind_fifo

MCInit ==
  /\ behind_fifo \in BOOLEAN
  /\ IF behind_fifo THEN CrossingInit ELSE Init /\ FifoInit /\ offer = 1

(* The clock keeps running; behind the FIFO each of the two clocks again   *)
(* and again has an edge the other has not, as they are unrelated.  Every  *)
(* book is ready again and again, as OrderBookPipeline is                  *)
(* (EverythingAnswered).                                                   *)
MCSpec ==
  /\ MCInit
  /\ [][RouterClock \/ FifoWrites \/ FifoReads \/ FifoMovesBoth]_mc_vars
  /\ WF_mc_vars(RouterClock)
  /\ WF_mc_vars(FifoWrites)
  /\ WF_mc_vars(FifoReads)
  /\ \A s \in Stocks : []<>(s \in ready)
=============================================================================
