------------------------- MODULE MCOrderBookPipeline -------------------------
(***************************************************************************)
(* OrderBookPipeline on small books.  Each run sends an alphabet of events *)
(* that brings one group of hazards together.                              *)
(***************************************************************************)
EXTENDS OrderBookPipeline


(* Events name a price by its distance from the base price.                *)
Add(ref, side, idx, shares) ==
  [op |-> "ADD", ref |-> ref, side |-> side, price |-> OWN_BASE + idx, shares |-> shares]
Reduce(ref, shares) == [op |-> "REDUCE", ref |-> ref, shares |-> shares]
Delete(ref) == [op |-> "DELETE", ref |-> ref]
Replace(ref, new_ref, idx, shares) ==
  [op |-> "REPLACE", ref |-> ref, new_ref |-> new_ref, price |-> OWN_BASE + idx,
   shares |-> shares]

OwnBucket  == [r \in Refs |-> r]
Shared     == [r \in Refs |-> IF r <= 5 THEN r % 2 ELSE r]  \* two crowded buckets

FourPrices == OWN_BASE .. OWN_BASE + 3
EightPrices == OWN_BASE .. OWN_BASE + 7

(* Both sides, any two orders and their replacements, in short streams.    *)
SideEvents ==
  {Add(r, side, p, r) : r \in {1, 2}, side \in Sides, p \in 0 .. 3} \cup
  {Replace(1, 3, p, 2) : p \in 0 .. 3} \cup {Replace(2, 1, p, 1) : p \in 0 .. 3} \cup
  {Delete(1), Delete(2), Reduce(1, 1), Reduce(2, 1)}

(* Orders of both sides are replaced to better, equal and worse prices.    *)
ReplaceEvents ==
  {Add(1, "BUY", 1, 1), Add(2, "SELL", 2, 2), Add(3, "BUY", 0, 2)} \cup
  {Replace(1, 4, p, 2) : p \in {0, 1, 2}} \cup
  {Replace(2, 4, p, 1) : p \in {1, 2, 3}} \cup
  {Replace(4, r, p, 1) : r \in {1, 2}, p \in {0, 2}} \cup
  {Delete(4)}

(* One order more than the bucket has slots: it overflows and comes back,  *)
(* and may be replaced where it is.                                        *)
CamEvents ==
  {Add(r, "BUY", 2, r) : r \in {1, 3}} \cup {Add(5, "BUY", 2, 2)} \cup
  {Reduce(5, 1), Delete(1), Delete(3), Delete(5)} \cup
  {Replace(1, 3, 2, 1), Replace(3, 5, 4, 2), Replace(5, 3, 0, 1), Replace(5, 5, 4, 1)}

(* Back to back: nothing shares an occupancy word.                         *)
BurstEvents ==
  {Add(1, "BUY", 2, 1), Add(2, "BUY", 2, 2), Add(6, "BUY", 4, 1), Add(7, "SELL", 6, 2)} \cup
  {Replace(1, 8, p, 1) : p \in {0, 4}} \cup
  {Delete(2), Delete(6), Reduce(7, 1)}

(* A replacement that keeps the reference of its order: its DELETE and its *)
(* ADD follow each other through one slot, with others before and behind.  *)
SameRefEvents ==
  {Add(1, "BUY", p, 2) : p \in {0, 1}} \cup {Add(3, "BUY", 1, 1), Add(2, "SELL", 3, 1)} \cup
  {Replace(1, 1, p, n) : p \in {0, 1, 2}, n \in {1, 2}} \cup {Replace(2, 2, 3, 2)} \cup
  {Reduce(1, 1), Delete(1), Delete(3)}

(* Orders that are only added, and one replacement of an unknown order.    *)
AddEvents   == {Add(r, "BUY", p, 1) : r \in Refs, p \in {0, 1}}
StrayEvents == AddEvents \cup {Replace(1, 2, 1, 1)}

-----------------------------------------------------------------------------
(* The streams of each run, and all events they draw from.                 *)
Stream(events, length, waits) == [events |-> events, length |-> length, waits |-> waits]
EventsOf(streams) == UNION {streams[name].events : name \in DOMAIN streams}

(* Both sides in any order, long chains of replacements, and as fast as    *)
(* admitted: one bucket that overflows, and many buckets.                   *)
BookStreams ==
  [sides    |-> Stream(SideEvents, 3, {8}),
   replaces |-> Stream(ReplaceEvents, 5, {5}),
   cam      |-> Stream(CamEvents, 5, {0}),
   burst    |-> Stream(BurstEvents, 4, {0, 4}),
   same     |-> Stream(SameRefEvents, 4, {0})]
BookEvents == EventsOf(BookStreams)

RawStreams   == [adds |-> Stream(AddEvents, 2, {0})]
RaceStreams  == [adds |-> Stream(AddEvents, 4, {5, 9})]
BaseStreams  == [adds |-> Stream(AddEvents, 1, {9})]
StrayStreams == [strays |-> Stream(StrayEvents, 2, {9})]
=============================================================================
