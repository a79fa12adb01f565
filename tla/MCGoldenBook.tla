---------------------------- MODULE MCGoldenBook ----------------------------
(* The golden book on a few orders, driven in every way, the runner that   *)
(* feeds it small captures, and the runner on a feed of the generator.     *)
(* References are interchangeable.                                         *)
EXTENDS Stimulus, TLC

RefSymmetry == Permutations(Refs)

EventMessage(locate, event) == [kind |-> "event", locate |-> locate, event |-> event]
Directory(stock, locate) == [kind |-> "directory", stock |-> stock, locate |-> locate]
Other(kind) == [kind |-> kind]

Add(ref, side, price) ==
  [op |-> "ADD", ref |-> ref, side |-> side, price |-> price, shares |-> 2]

EventsOver(a, b) ==
  {EventMessage(1, Add(a, "BUY", 1)),
   EventMessage(2, Add(a, "BUY", 2)),
   EventMessage(1, Add(b, "SELL", 2)),
   EventMessage(1, [op |-> "REDUCE", ref |-> a, shares |-> 1]),
   EventMessage(1, [op |-> "DELETE", ref |-> a]),
   EventMessage(1, [op |-> "REPLACE", ref |-> a, new_ref |-> b, price |-> 2, shares |-> 2])}

(* What surrounds the events: directories of one or two stocks, a second   *)
(* directory that disagrees, and every damage at the end.                  *)
Heads ==
  {<<>>, <<Directory("A", 1)>>, <<Directory("B", 1), Directory("A", 2)>>,
   <<Other("bad_directory"), Other("other")>>}
Tails ==
  {<<>>, <<Directory("A", 2)>>} \cup
  {<<Other(kind)>> : kind \in {"cut", "empty", "bad_event"}}

Bodies(a, b) == UNION {[1 .. n -> EventsOver(a, b)] : n \in 0 .. 2}

SmallCaptures ==
  UNION {{head \o body \o tail : head \in Heads, body \in Bodies(a, b), tail \in Tails} :
           <<a, b>> \in {pair \in Refs \X Refs : pair[1] # pair[2]}}

(* Three events without anything around them; one order through all its    *)
(* operations with another stock in between; a level that overflows.       *)
LongCaptures ==
  UNION {[1 .. 3 -> EventsOver(a, b)] :
           <<a, b>> \in {pair \in Refs \X Refs : pair[1] # pair[2]}} \cup
  {<<EventMessage(1, Add(a, "BUY", 1)),
     EventMessage(1, [op |-> "REDUCE", ref |-> a, shares |-> 1]),
     EventMessage(1, [op |-> "REPLACE", ref |-> a, new_ref |-> b, price |-> 2, shares |-> 2]),
     EventMessage(2, Add(a, "BUY", 2)),
     EventMessage(1, [op |-> "DELETE", ref |-> b])>> :
       <<a, b>> \in {pair \in Refs \X Refs : pair[1] # pair[2]}} \cup
  {[i \in DOMAIN refs |-> EventMessage(1, Add(refs[i], "BUY", 1))] :
     refs \in {order \in [1 .. 3 -> Refs] : \A i, j \in 1 .. 3 : i # j => order[i] # order[j]}}

AllCaptures == SmallCaptures \cup LongCaptures

Arguments(locate, symbol, max_messages, max_events) ==
  [locate |-> locate, symbol |-> symbol,
   max_messages |-> max_messages, max_events |-> max_events]

AllOptions ==
  {Arguments(l, None, None, None) : l \in {None, 1}} \cup
  {Arguments(None, "A", m, None) : m \in {None, 3}} \cup
  {Arguments(None, None, 3, 1), Arguments(1, "A", None, None)}

-----------------------------------------------------------------------------
(* The book alone, with any calls in any order.                            *)
BookAlone ==
  /\ Init
  /\ pc = "book alone"
  /\ capture = <<>> /\ options = Arguments(None, None, None, None)
  /\ filter_locate = None /\ seen = 0
  /\ events_out = <<>> /\ states_out = <<>>
  /\ peaks = [live_orders |-> 0, BUY |-> 0, SELL |-> 0]

NoGenerator == live_orders = NoneLive /\ used = {} /\ lives = <<>>

Ended == pc \in {"done", "failed"} /\ UNCHANGED stimulusVars

MCSpec ==
  /\ \/ (BookAlone \/ RunnerInit) /\ NoGenerator
     \/ StimulusInit
  /\ [][\/ pc = "book alone" /\ Next /\ UNCHANGED <<runnerVars, generatorVars>>
        \/ StimulusNext
        \/ Ended]_stimulusVars
=============================================================================
