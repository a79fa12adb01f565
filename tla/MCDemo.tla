-------------------------------- MODULE MCDemo --------------------------------
(***************************************************************************)
(* DemoApp on short capture files of two stocks.  Prices are Price(4) with *)
(* ten units to the cent: 210 is 21 cents.  The files with many messages   *)
(* are replayed once and without a page, the tiny ones twice, with polls   *)
(* and clicks that overlap.                                                *)
(***************************************************************************)
EXTENDS DemoApp, TLC, Functions

MCBasePrice == ("aapl" :> 21) @@ ("msft" :> 12)

R(stock) == [type |-> "R", stock |-> stock]
A(stock, ref, side, price, shares) ==
  [type |-> "A", stock |-> stock, ref |-> ref, side |-> side, price |-> price, shares |-> shares]
X(stock, ref, shares) == [type |-> "X", stock |-> stock, ref |-> ref, shares |-> shares]
D(stock, ref) == [type |-> "D", stock |-> stock, ref |-> ref]
U(stock, ref, new_ref, price, shares) ==
  [type |-> "U", stock |-> stock, ref |-> ref, new_ref |-> new_ref, price |-> price,
   shares |-> shares]
System == [type |-> "S"]
Other == [type |-> "OTHER"]

(* 20 cents lie below the base price of aapl, 23 above its window.         *)
MCPrices == {0, 12, 13, 20, 21, 22, 23, 120, 130, 200, 210, 215, 220, 230}

Listed == <<R("aapl"), R("msft"), A("msft", "r1", "BUY", 120, 1)>>

(* One stock: orders in and out of the window, replaced into and out of it. *)
WindowMessages ==
  {A("aapl", "r1", "BUY", p, 2) : p \in {200, 210}} \cup
  {A("aapl", "r1", "SELL", p, 2) : p \in {220, 230}} \cup
  {A("aapl", "r2", "BUY", 215, 1), A("aapl", "r2", "SELL", 220, 1)} \cup
  {U("aapl", "r1", "r3", p, 2) : p \in {200, 220}} \cup
  {U("aapl", "r3", "r1", 210, 1)} \cup
  {X("aapl", r, 1) : r \in {"r1", "r3"}} \cup
  {D("aapl", r) : r \in {"r1", "r3"}}

(* Two stocks in turn, and messages nobody waits for.                      *)
MixedMessages ==
  {A("aapl", "r1", "BUY", 210, 1), D("aapl", "r1"), A("msft", "r2", "SELL", 130, 2),
   X("msft", "r2", 1), A("msft", "r3", "SELL", 230, 1), D("msft", "r3")}

MessagesOf(scenarios) ==
  UNION {scenarios[name].messages \cup Range(scenarios[name].prefix) :
         name \in DOMAIN scenarios}

OneRun(prefix, messages, length) ==
  [prefix |-> prefix, messages |-> messages, length |-> length,
   faults |-> 0, clicks |-> 1, polls |-> 0]

WindowFiles == OneRun(Listed, WindowMessages, 7)
MixedFiles == OneRun(<<Other, R("aapl"), System>>, {R("msft")} \cup MixedMessages, 8)
FaultFiles ==
  [OneRun(Listed, {A("aapl", "r1", "BUY", 210, 2), X("aapl", "r1", 1),
                   A("aapl", "r2", "SELL", 220, 1), D("aapl", "r2"),
                   D("aapl", "r1")}, 7) EXCEPT !.faults = 2]

(* The page: one file, replayed twice with a click on a button that an old *)
(* answer has enabled in between; or once, under polls that overlap.       *)
PageFiles ==
  [prefix |-> Listed \o <<A("aapl", "r1", "BUY", 210, 2)>>, messages |-> {}, length |-> 4,
   faults |-> 1, clicks |-> 2, polls |-> 1]
PollFiles == [PageFiles EXCEPT !.clicks = 1, !.polls = 2]

DemoScenarios ==
  [window |-> WindowFiles, mixed |-> MixedFiles, fault |-> FaultFiles, page |-> PageFiles,
   poll |-> PollFiles]
MCMessages == MessagesOf(DemoScenarios)

(* Files in which the only order out of the window is a bid below the base *)
(* price that stays, while the ask side changes inside the window.         *)
BelowMessages ==
  {A("aapl", "r1", "BUY", 200, 2), A("aapl", "r2", "SELL", 220, 2),
   A("aapl", "r3", "SELL", 210, 1), X("aapl", "r2", 1), D("aapl", "r3")}
BelowScenarios == [below |-> OneRun(Listed, BelowMessages, 7)]
OracleMessages == MessagesOf(BelowScenarios)
=============================================================================
