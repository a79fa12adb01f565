----------------------------- MODULE RunnerProofs -----------------------------
(***************************************************************************)
(* Proofs about Runner for every capture, every choice of arguments and    *)
(* any orders and prices; then that every feed of the Stimulus generator   *)
(* is valid, for any instrument, prices, lots and length: the book never   *)
(* refuses an event of it.                                                 *)
(***************************************************************************)
EXTENDS Stimulus, GoldenBookProofs, SequenceTheorems

allVars == <<vars, runnerVars>>

(* What the variables may hold.  The type of a state line does not matter. *)
RunnerTypes ==
  /\ capture \in Seq(Records)
  /\ options \in Options
  /\ pc \in {"resolve", "loop", "apply", "done", "failed"}
  /\ seen \in 0 .. Len(capture)
  /\ events_out \in Seq([msg_index : Nat, event : BookEvents])
  /\ \E S : states_out \in Seq(S)
  /\ raised \in BOOLEAN

(* Nothing is written before the locate is known; while an event is        *)
(* applied its line is the last; a refused event ends the run.             *)
Phases ==
  /\ pc = "resolve" => seen = 0 /\ events_out = <<>> /\ states_out = <<>> /\ filter_locate = None
  /\ pc = "apply" => events_out # <<>>
  /\ raised => pc = "failed"

RInv == RunnerTypes /\ Phases /\ OneLineApart /\ EventsAreTheWanted

-----------------------------------------------------------------------------
LEMMA ApplyIsABookStep ==
  ASSUME RunnerTypes, Phases, ApplyEvent
  PROVE  /\ Next
         /\ LastEvent \in [msg_index : Nat, event : BookEvents]
<1>1. Len(events_out) \in Nat \ {0} /\ LastEvent \in [msg_index : Nat, event : BookEvents]
  <2>1. events_out \in Seq([msg_index : Nat, event : BookEvents]) /\ events_out # <<>>
    BY DEF RunnerTypes, Phases, ApplyEvent
  <2>2. Len(events_out) \in Nat \ {0}
    BY <2>1, EmptySeq, LenProperties
  <2> DEFINE Line == [msg_index : Nat, event : BookEvents]
  <2>3. events_out \in Seq(Line) /\ Len(events_out) \in 1 .. Len(events_out)
    BY <2>1, <2>2
  <2> HIDE DEF Line
  <2>4. events_out[Len(events_out)] \in Line
    BY <2>3, ElementOfSeq
  <2> QED BY <2>2, <2>4 DEF LastEvent, Line
<1> DEFINE e == LastEvent.event
<1>2. e \in BookEvents
  BY <1>1
<1>3. BookApply(e)
  BY DEF ApplyEvent
<1>4. CASE e.op = "ADD" /\ ApplyAdd(e.ref, e.side, e.price, e.shares)
  <2>1. e.ref \in Refs /\ e.side \in Sides /\ e.price \in Prices /\ e.shares \in Quantities
    BY <1>2, <1>4 DEF BookEvents
  <2> QED BY <2>1, <1>4, <1>1 DEF Next
<1>5. CASE e.op = "REDUCE" /\ ReduceOrder(e.ref, e.shares)
  <2>1. e.ref \in Refs /\ e.shares \in Quantities
    BY <1>2, <1>5 DEF BookEvents
  <2> QED BY <2>1, <1>5, <1>1 DEF Next
<1>6. CASE e.op = "DELETE" /\ ApplyDelete(e.ref)
  <2>1. e.ref \in Refs
    BY <1>2, <1>6 DEF BookEvents
  <2> QED BY <2>1, <1>6, <1>1 DEF Next
<1>7. CASE e.op = "REPLACE" /\ ApplyReplace(e.ref, e.new_ref, e.price, e.shares)
  <2>1. e.ref \in Refs /\ e.new_ref \in Refs /\ e.price \in Prices /\ e.shares \in Quantities
    BY <1>2, <1>7 DEF BookEvents
  <2> QED BY <2>1, <1>7, <1>1 DEF Next
<1> QED BY <1>3, <1>4, <1>5, <1>6, <1>7 DEF BookApply

(* A call of apply says how it ended.                                      *)
LEMMA NextRaisesOrNot ==
  ASSUME Next PROVE raised' \in BOOLEAN
BY DEF Next, ApplyAdd, ReduceOrder, ApplyDelete, ApplyReplace, ApplyForeignLocate, AddOrder, Raise

-----------------------------------------------------------------------------
LEMMA RInvInit == RunnerInit => RInv
<1> SUFFICES ASSUME RunnerInit PROVE RInv
  OBVIOUS
<1>1. capture \in Seq(Records) /\ options \in Options
  BY CapturesAssumption DEF RunnerInit
<1>2. RunnerTypes
  <2>1. \E S : states_out \in Seq(S)
    <3>1. states_out \in Seq({})
      BY DEF RunnerInit
    <3> QED BY <3>1
  <2>2. seen \in 0 .. Len(capture)
    BY <1>1 DEF RunnerInit
  <2>3. pc = "resolve" /\ raised = FALSE /\ events_out \in Seq([msg_index : Nat, event : BookEvents])
    BY DEF RunnerInit, Init
  <2> QED BY <1>1, <2>1, <2>2, <2>3 DEF RunnerTypes
<1>3. Phases
  BY DEF RunnerInit, Phases, Init
<1>4. OneLineApart
  BY DEF RunnerInit, OneLineApart, Init
<1>5. EventsAreTheWanted
  BY DEF RunnerInit, EventsAreTheWanted
<1> QED BY <1>2, <1>3, <1>4, <1>5 DEF RInv

(* Steps before and after the loop: nothing has been, or is, written.      *)
LEMMA RInvQuiet ==
  ASSUME RInv, UNCHANGED <<vars, inputVars, seen, fileVars>>,
         \/ pc = "resolve"
         \/ pc = "loop" /\ filter_locate' = filter_locate,
         pc' \in {"loop", "done", "failed"}
  PROVE  RInv'
<1> USE DEF vars, inputVars, fileVars
<1>1. RunnerTypes'
  BY DEF RInv, RunnerTypes
<1>2. Phases'
  BY DEF RInv, Phases
<1>3. OneLineApart'
  BY DEF RInv, Phases, OneLineApart
<1>4. EventsAreTheWanted'
  <2>1. CASE pc = "resolve"
    BY <2>1 DEF RInv, Phases, EventsAreTheWanted
  <2>2. CASE pc = "loop" /\ filter_locate' = filter_locate
    BY <2>2 DEF RInv, EventsAreTheWanted, Wanted
  <2> QED BY <2>1, <2>2
<1> QED BY <1>1, <1>2, <1>3, <1>4 DEF RInv

(* A message that writes no line, and is not wanted.                       *)
LEMMA RInvSkip ==
  ASSUME RInv, pc = "loop", ~AtEnd, ~Wanted(capture[seen + 1]),
         UNCHANGED <<vars, inputVars, filter_locate, fileVars>>,
         seen' = seen + 1, pc' \in {"loop", "failed"}
  PROVE  RInv'
<1> USE DEF vars, inputVars, fileVars
<1>0. seen + 1 \in 1 .. Len(capture)
  BY DEF AtEnd, Scanned, RInv, RunnerTypes
<1>1. RunnerTypes'
  BY <1>0 DEF RInv, RunnerTypes
<1>2. Phases'
  BY DEF RInv, Phases
<1>3. OneLineApart'
  BY DEF RInv, Phases, OneLineApart
<1>4. EventsAreTheWanted'
  <2>1. \A record : Wanted(record)' <=> Wanted(record)
    BY DEF Wanted
  <2>2. {i \in 0 .. seen' - 1 : Wanted(capture[i + 1])} = {i \in 0 .. seen - 1 : Wanted(capture[i + 1])}
    BY <1>0 DEF RInv, RunnerTypes
  <2> QED BY <2>1, <2>2 DEF RInv, EventsAreTheWanted
<1> QED BY <1>1, <1>2, <1>3, <1>4 DEF RInv

LEMMA RInvReadWanted ==
  ASSUME RInv, ReadWanted PROVE RInv'
<1> USE DEF vars, inputVars, fileVars
<1> DEFINE record == capture[seen + 1]
           line == [msg_index |-> seen, event |-> record.event]
<1>0. seen \in Nat /\ seen + 1 \in 1 .. Len(capture) /\ capture \in Seq(Records)
  BY DEF ReadWanted, AtEnd, Scanned, RInv, RunnerTypes
<1>1. line \in [msg_index : Nat, event : BookEvents]
  <2>1. record \in Records /\ record.kind = "event"
    BY <1>0 DEF ReadWanted, Wanted
  <2>2. record.event \in BookEvents
    BY <2>1 DEF Records, Damages
  <2> QED BY <1>0, <2>2
<1>2. events_out' = Append(events_out, line) /\ UNCHANGED <<vars, capture, options, filter_locate, states_out>>
      /\ seen' = seen + 1 /\ pc = "loop" /\ pc' = "apply" /\ Wanted(record)
  BY DEF ReadWanted
<1>3. events_out \in Seq([msg_index : Nat, event : BookEvents]) /\ Len(events_out) \in Nat
  BY DEF RInv, RunnerTypes
<1>4. /\ Len(events_out') = Len(events_out) + 1
      /\ events_out' \in Seq([msg_index : Nat, event : BookEvents])
      /\ \A k \in 1 .. Len(events_out) : events_out'[k] = events_out[k]
      /\ events_out'[Len(events_out) + 1] = line
      /\ DOMAIN events_out' = 1 .. Len(events_out) + 1
      /\ DOMAIN events_out = 1 .. Len(events_out)
  BY <1>1, <1>2, <1>3
<1>5. RunnerTypes'
  BY <1>0, <1>2, <1>4 DEF RInv, RunnerTypes
<1>6. Phases'
  BY <1>2, <1>4, <1>3 DEF RInv, Phases
<1>7. OneLineApart'
  <2>1. \E S : states_out \in Seq(S)
    BY DEF RInv, RunnerTypes
  <2>2. Len(states_out) \in Nat
    BY <2>1
  <2>3. Len(events_out) = Len(states_out)
    BY <1>2, <1>3, <2>2 DEF RInv, Phases, OneLineApart
  <2> QED BY <1>2, <1>3, <1>4, <2>2, <2>3 DEF vars, OneLineApart
<1>8. EventsAreTheWanted'
  <2>1. \A r : Wanted(r)' <=> Wanted(r)
    BY <1>2 DEF Wanted
  <2>2. {i \in 0 .. seen' - 1 : Wanted(capture[i + 1])} =
          {i \in 0 .. seen - 1 : Wanted(capture[i + 1])} \cup {seen}
    BY <1>0, <1>2
  <2>3. {events_out'[k].msg_index : k \in DOMAIN events_out'} =
          {events_out[k].msg_index : k \in DOMAIN events_out} \cup {seen}
    <3>1. line.msg_index = seen
      OBVIOUS
    <3>2. DOMAIN events_out' = DOMAIN events_out \cup {Len(events_out) + 1}
      BY <1>3, <1>4
    <3> HIDE DEF line
    <3> QED BY <3>1, <3>2, <1>3, <1>4
  <2>4. \A k \in DOMAIN events_out : events_out[k].msg_index \in 0 .. seen - 1
    BY DEF RInv, EventsAreTheWanted
  <2>5. ASSUME NEW k \in DOMAIN events_out'
        PROVE  /\ events_out'[k].event = capture[events_out'[k].msg_index + 1].event
               /\ \A j \in 1 .. k - 1 : events_out'[j].msg_index < events_out'[k].msg_index
    <3>1. CASE k \in DOMAIN events_out
      BY <3>1, <1>3, <1>4 DEF RInv, EventsAreTheWanted
    <3>2. CASE k = Len(events_out) + 1
      <4>1. events_out'[k] = line /\ line.msg_index = seen /\ line.event = record.event
        BY <3>2, <1>4
      <4>2. ASSUME NEW j \in 1 .. k - 1 PROVE events_out'[j].msg_index < seen
        <5>1. j \in DOMAIN events_out /\ events_out'[j] = events_out[j]
          BY <3>2, <1>3, <1>4
        <5>2. events_out[j].msg_index \in 0 .. seen - 1
          BY <5>1, <2>4
        <5> QED BY <5>1, <5>2, <1>0
      <4> HIDE DEF line
      <4> QED BY <4>1, <4>2
    <3> QED BY <3>1, <3>2, <1>3, <1>4
  <2>6. {events_out[k].msg_index : k \in DOMAIN events_out} =
          {i \in 0 .. seen - 1 : Wanted(capture[i + 1])}
    BY DEF RInv, EventsAreTheWanted
  <2>7. capture' = capture
    BY <1>2
  <2> QED BY <2>1, <2>2, <2>3, <2>5, <2>6, <2>7 DEF EventsAreTheWanted
<1> QED BY <1>5, <1>6, <1>7, <1>8 DEF RInv

LEMMA RInvApply ==
  ASSUME RInv, ApplyEvent PROVE RInv'
<1> USE DEF inputVars
<1>1. raised' \in BOOLEAN
  BY ApplyIsABookStep, NextRaisesOrNot DEF RInv
<1>2. PICK S : states_out \in Seq(S)
  BY DEF RInv, RunnerTypes
<1>3. Len(states_out) \in Nat /\ Len(events_out) \in Nat
  BY <1>2 DEF RInv, RunnerTypes
<1>4. Len(events_out) - Len(states_out) = 1
  BY DEF RInv, OneLineApart, ApplyEvent
<1>5. EventsAreTheWanted'
  BY DEF RInv, ApplyEvent, EventsAreTheWanted, Wanted
<1>6. CASE raised'
  <2>1. pc' = "failed" /\ UNCHANGED <<states_out, capture, options, seen, events_out>>
    BY <1>6 DEF ApplyEvent
  <2> QED BY <2>1, <1>1, <1>4, <1>5, <1>6 DEF RInv, RunnerTypes, Phases, OneLineApart
<1>7. CASE ~raised'
  <2> DEFINE line == [msg_index |-> LastEvent.msg_index, bbo |-> bbo']
  <2>1. /\ pc' \in {"done", "loop"}
        /\ states_out' = Append(states_out, line)
        /\ UNCHANGED <<capture, options, seen, events_out>>
    BY <1>7 DEF ApplyEvent, WriteState
  <2> HIDE DEF line
  <2>2. states_out' \in Seq(S \cup {line}) /\ Len(states_out') = Len(states_out) + 1
    <3>1. states_out \in Seq(S \cup {line})
      BY <1>2
    <3> QED BY <3>1, <2>1
  <2> QED BY <2>1, <2>2, <1>1, <1>3, <1>4, <1>5, <1>7
       DEF RInv, RunnerTypes, Phases, OneLineApart
<1> QED BY <1>1, <1>6, <1>7

LEMMA RInvStep == RInv /\ [RunnerNext]_allVars => RInv'
<1> SUFFICES ASSUME RInv, [RunnerNext]_allVars PROVE RInv'
  OBVIOUS
<1>1. CASE TakeLocate
  BY <1>1, RInvQuiet DEF TakeLocate, StartWith
<1>2. CASE ResolveSymbol
  BY <1>2, RInvQuiet DEF ResolveSymbol, StartWith
<1>3. CASE CannotResolve
  BY <1>3, RInvQuiet DEF CannotResolve, Fail
<1>4. CASE ReadCut
  BY <1>4, RInvQuiet DEF ReadCut, Fail
<1>5. CASE ReadMalformed
  <2>1. ~Wanted(capture[seen + 1])
    BY <1>5 DEF ReadMalformed, Wanted
  <2> QED BY <1>5, <2>1, RInvSkip DEF ReadMalformed, Fail
<1>6. CASE ReadIgnored
  BY <1>6, RInvSkip DEF ReadIgnored
<1>7. CASE ReadWanted
  BY <1>7, RInvReadWanted
<1>8. CASE EndOfCapture
  BY <1>8, RInvQuiet DEF EndOfCapture
<1>9. CASE ApplyEvent
  BY <1>9, RInvApply
<1>10. CASE UNCHANGED allVars
  BY <1>10 DEF allVars, vars, runnerVars, inputVars, fileVars, RInv, RunnerTypes, Phases,
               OneLineApart, EventsAreTheWanted, Wanted
<1> QED BY <1>1, <1>2, <1>3, <1>4, <1>5, <1>6, <1>7, <1>8, <1>9, <1>10 DEF RunnerNext

LEMMA RInvHolds == RunnerSpec => []RInv
BY RInvInit, RInvStep, PTL DEF RunnerSpec, allVars

-----------------------------------------------------------------------------
(* Whatever ends a run, the event file holds the wanted messages of what   *)
(* was read, in order, and at most the line of a refused event has no      *)
(* state line: runner.py:120 writes one before and one after apply.        *)
THEOREM FilesStayInStep == RunnerSpec => [](EventsAreTheWanted /\ OneLineApart)
BY RInvHolds, PTL DEF RInv

(* Only ApplyEvent touches the book.                                       *)
LEMMA RunnerStepsTheBook == RInv /\ [RunnerNext]_allVars => [Next]_vars
<1> SUFFICES ASSUME RInv, [RunnerNext]_allVars PROVE [Next]_vars
  OBVIOUS
<1>1. CASE ApplyEvent
  BY <1>1, ApplyIsABookStep DEF RInv
<1>2. CASE UNCHANGED vars
  BY <1>2
<1> QED BY <1>1, <1>2
     DEF RunnerNext, TakeLocate, ResolveSymbol, CannotResolve, ReadCut, ReadMalformed,
         ReadIgnored, ReadWanted, EndOfCapture, StartWith, Fail, allVars

(* The runner uses the golden book as GoldenBook describes it.             *)
THEOREM RunnerUsesTheBook == RunnerSpec => Spec
<1>1. RunnerInit => Init
  BY DEF RunnerInit
<1> QED BY <1>1, RunnerStepsTheBook, RInvHolds, PTL DEF RunnerSpec, Spec, allVars

(* So every state line is written from a book whose levels are those of    *)
(* its orders.                                                             *)
THEOREM RunnersBookIsRight == RunnerSpec => [](LevelsMatchOrders /\ BboIsBest)
BY RunnerUsesTheBook, LevelsAggregateOrders, BboIsCorrect, PTL

-----------------------------------------------------------------------------
(* The generator.                                                          *)

(* What a table of the generator always is: bids and asks apart, and       *)
(* quantities an event can carry.                                          *)
Sound(table) ==
  \A ref \in Refs : Live(table, ref) =>
    /\ OnSide(table[ref].side, table[ref].price)
    /\ 1 .. table[ref].shares \subseteq Quantities

(* What an event must be for the book to accept it.                        *)
Allowed(table, e) ==
  /\ e \in BookEvents
  /\ e.op = "ADD" => ~Live(table, e.ref)
  /\ e.op # "ADD" => Live(table, e.ref)
  /\ e.op = "REDUCE" => e.shares <= table[e.ref].shares
  /\ e.op = "REPLACE" => e.new_ref = e.ref \/ ~Live(table, e.new_ref)

(* The file and the generator's tables belong together.                    *)
FeedTypes ==
  /\ capture \in Seq(Records)
  /\ lives \in Seq(Table)
  /\ Len(lives) = Len(capture)
  /\ live_orders \in Table
  /\ live_orders = LivesAfter(Len(lives))
  /\ Sound(live_orders)
  /\ \A ref \in Refs : Live(live_orders, ref) => ref \in used

EachIsAllowed ==
  \A k \in 1 .. Len(capture) :
    /\ capture[k].kind = "event" /\ capture[k].locate = LOCATE
    /\ Allowed(LivesAfter(k - 1), capture[k].event)
    /\ lives[k] = Meaning!Apply(LivesAfter(k - 1), capture[k].event)
    /\ Sound(lives[k])

FeedInv == FeedTypes /\ EachIsAllowed

(* The run has applied a prefix of the feed.                               *)
Generating ==
  /\ seen = 0 /\ events_out = <<>> /\ states_out = <<>>
  /\ filter_locate = None /\ raised = FALSE

RunInv ==
  /\ options \in Options /\ options.symbol = None /\ options.locate \in {None, LOCATE}
  /\ filter_locate \in {None, LOCATE}
  /\ pc = "generate" => Generating
  /\ pc # "generate" => RInv
  /\ seen = Len(events_out)
  /\ \A k \in 1 .. Len(events_out) : events_out[k].event = capture[k].event

SInv == FeedInv /\ RunInv /\ IInv /\ BookFollows

-----------------------------------------------------------------------------
LEMMA NoneLiveIsATable == NoneLive \in Table /\ \A ref \in Refs : ~Live(NoneLive, ref)
BY DEF NoneLive, Table, Live

LEMMA TableEntries ==
  ASSUME NEW table \in Table, NEW ref \in Refs, Live(table, ref)
  PROVE  /\ table[ref] \in Order
         /\ table[ref].shares \in Nat
BY LimitOrdersAssumption DEF Table, Live, Order, Shares

(* The tables after each prefix are sound.                                 *)
LEMMA PrefixTables ==
  ASSUME FeedInv, NEW n \in 0 .. Len(capture)
  PROVE  LivesAfter(n) \in Table /\ Sound(LivesAfter(n))
<1>1. CASE n = 0
  BY <1>1, NoneLiveIsATable DEF LivesAfter, Sound
<1>2. CASE n # 0
  <2>1. n \in 1 .. Len(capture) /\ lives \in Seq(Table) /\ Len(lives) = Len(capture)
    BY <1>2 DEF FeedInv, FeedTypes
  <2>2. lives[n] \in Table
    BY <2>1
  <2>3. Sound(lives[n])
    BY <2>1 DEF FeedInv, EachIsAllowed
  <2> QED BY <1>2, <2>2, <2>3 DEF LivesAfter
<1> QED BY <1>1, <1>2

-----------------------------------------------------------------------------
(* Appending an allowed event and what it makes of the table.              *)
LEMMA WriteKeeps ==
  ASSUME FeedInv, NEW event, NEW table \in Table,
         Write(event, table), Allowed(live_orders, event),
         table = Meaning!Apply(live_orders, event), Sound(table),
         \A ref \in Refs : Live(table, ref) => ref \in used'
  PROVE  FeedInv'
<1> DEFINE record == [kind |-> "event", locate |-> LOCATE, event |-> event]
           n == Len(capture)
<1>1. /\ capture \in Seq(Records) /\ lives \in Seq(Table) /\ Len(lives) = n /\ n \in Nat
      /\ live_orders = LivesAfter(n)
  BY DEF FeedInv, FeedTypes
<1>2. record \in Records
  BY StimulusAssumption DEF Allowed, Records
<1>3. capture' = Append(capture, record) /\ lives' = Append(lives, table) /\ live_orders' = table
  BY DEF Write
<1> HIDE DEF record
<1>4. /\ capture' \in Seq(Records) /\ Len(capture') = n + 1
      /\ \A k \in 1 .. n : capture'[k] = capture[k]
      /\ capture'[n + 1] = record
  BY <1>1, <1>2, <1>3
<1>5. /\ lives' \in Seq(Table) /\ Len(lives') = n + 1
      /\ \A k \in 1 .. n : lives'[k] = lives[k]
      /\ lives'[n + 1] = table
  BY <1>1, <1>3
<1> HIDE DEF n
<1>6. \A k \in 0 .. n : LivesAfter(k)' = LivesAfter(k)
  BY <1>1, <1>5 DEF LivesAfter
<1>7. FeedTypes'
  <2>1. Sound(live_orders')
    BY <1>3
  <2>2. \A ref \in Refs : Live(live_orders', ref) => ref \in used'
    BY <1>3
  <2>3. live_orders' = LivesAfter(Len(lives))'
    <3>1. LivesAfter(Len(lives))' = IF Len(lives') = 0 THEN NoneLive ELSE lives'[Len(lives')]
      BY DEF LivesAfter, NoneLive
    <3> QED BY <3>1, <1>1, <1>3, <1>5
  <2> QED BY <1>3, <1>4, <1>5, <2>1, <2>2, <2>3 DEF FeedTypes, Sound, OnSide, Live
<1>8. EachIsAllowed'
  <2> SUFFICES ASSUME NEW k \in 1 .. n + 1
               PROVE  /\ capture'[k].kind = "event" /\ capture'[k].locate = LOCATE
                      /\ Allowed(LivesAfter(k - 1)', capture'[k].event)
                      /\ lives'[k] = Meaning!Apply(LivesAfter(k - 1)', capture'[k].event)
                      /\ Sound(lives'[k])
    BY <1>4 DEF EachIsAllowed, LivesAfter, NoneLive, Allowed, Sound, OnSide, Live
  <2>1. k - 1 \in 0 .. n /\ LivesAfter(k - 1)' = LivesAfter(k - 1)
    BY <1>1, <1>6
  <2>2. CASE k \in 1 .. n
    BY <1>4, <1>5, <2>1, <2>2 DEF FeedInv, EachIsAllowed, n
  <2>3. CASE k = n + 1
    <3>1. /\ record.kind = "event" /\ record.locate = LOCATE /\ record.event = event
          /\ k - 1 = n
      BY <1>1, <2>3 DEF record
    <3> QED BY <1>1, <1>4, <1>5, <2>1, <2>3, <3>1
  <2> QED BY <1>1, <2>2, <2>3
<1> QED BY <1>7, <1>8 DEF FeedInv

(* The four kinds of messages.                                             *)
LEMMA EmitAddKeeps ==
  ASSUME FeedInv, EmitAdd PROVE FeedInv'
<1>1. PICK ref \in Refs \ used, side \in Sides, lot \in Lots, price \in Prices :
        /\ price \in AddPrices(side)
        /\ Write([op |-> "ADD", ref |-> ref, side |-> side, price |-> price, shares |-> lot],
                 [live_orders EXCEPT ![ref] =
                    [side |-> side, price |-> price, shares |-> lot]])
        /\ used' = used \cup {ref}
  BY DEF EmitAdd, AddPrices
<1> DEFINE order == [side |-> side, price |-> price, shares |-> lot]
           event == [op |-> "ADD", ref |-> ref, side |-> side, price |-> price, shares |-> lot]
           table == [live_orders EXCEPT ![ref] = order]
<1>2. live_orders \in Table /\ Sound(live_orders) /\ (\A r \in Refs : Live(live_orders, r) => r \in used)
  BY DEF FeedInv, FeedTypes
<1>3. price \in Prices /\ OnSide(side, price)
  BY <1>1 DEF AddPrices
<1>4. lot \in Quantities /\ lot \in Shares /\ 1 .. lot \subseteq Quantities
  BY StimulusAssumption, QuantitiesAssumption
<1>5. order \in Order
  BY <1>3, <1>4 DEF Order
<1>6. table \in Table
  BY <1>2, <1>5 DEF Table
<1>7. Sound(table)
  BY <1>2, <1>3, <1>4 DEF Sound, Live, Table
<1>8. ~Live(live_orders, ref)
  BY <1>2
<1>9. event \in BookEvents
  BY <1>3, <1>4 DEF BookEvents
<1>10. Allowed(live_orders, event)
  BY <1>8, <1>9 DEF Allowed
<1>11. table = Meaning!Apply(live_orders, event)
  BY DEF Meaning!Apply, Meaning!Known, Meaning!NewOrder
<1>12. \A r \in Refs : Live(table, r) => r \in used'
  BY <1>1, <1>2 DEF Live, Table
<1> QED BY <1>1, <1>6, <1>7, <1>10, <1>11, <1>12, WriteKeeps

LEMMA EmitReduceKeeps ==
  ASSUME FeedInv, EmitReduce PROVE FeedInv'
<1>1. PICK ref \in {r \in Refs : Live(live_orders, r)}, shares \in Nat :
        /\ shares \in 1 .. live_orders[ref].shares
        /\ Write([op |-> "REDUCE", ref |-> ref, shares |-> shares],
                 reduce_live_order(live_orders, ref, shares))
        /\ UNCHANGED used
  <2>1. PICK ref \in {r \in Refs : Live(live_orders, r)} :
          \E shares \in 1 .. live_orders[ref].shares :
            /\ Write([op |-> "REDUCE", ref |-> ref, shares |-> shares],
                     reduce_live_order(live_orders, ref, shares))
            /\ UNCHANGED used
    BY DEF EmitReduce
  <2>2. live_orders[ref].shares \in Nat
    BY TableEntries DEF FeedInv, FeedTypes
  <2> QED BY <2>1, <2>2
<1> DEFINE old == live_orders[ref]
           entry == IF old.shares = shares THEN NoOrder ELSE [old EXCEPT !.shares = @ - shares]
           event == [op |-> "REDUCE", ref |-> ref, shares |-> shares]
           table == reduce_live_order(live_orders, ref, shares)
<1>2. live_orders \in Table /\ Sound(live_orders) /\ (\A r \in Refs : Live(live_orders, r) => r \in used)
  BY DEF FeedInv, FeedTypes
<1>3. ref \in Refs /\ Live(live_orders, ref)
  OBVIOUS
<1>4. old \in Order /\ old.shares \in Nat
  BY <1>2, <1>3, TableEntries
<1>5. shares \in Quantities /\ shares \in 1 .. old.shares
  BY <1>1, <1>2, <1>3 DEF Sound
<1>6. table = [live_orders EXCEPT ![ref] = entry]
  BY DEF reduce_live_order
<1>7. /\ entry \in Order \cup {NoOrder}
      /\ entry # NoOrder => /\ entry.side = old.side /\ entry.price = old.price
                            /\ entry.shares = old.shares - shares
  BY <1>4, <1>5, LimitOrdersAssumption DEF Order, Shares
<1> HIDE DEF entry
<1>8. table \in Table
  BY <1>2, <1>3, <1>6, <1>7 DEF Table
<1>9. Sound(table)
  <2> SUFFICES ASSUME NEW r \in Refs, Live(table, r)
               PROVE  /\ OnSide(table[r].side, table[r].price)
                      /\ 1 .. table[r].shares \subseteq Quantities
    BY DEF Sound
  <2>1. CASE r = ref
    <3>1. table[r] = entry /\ entry # NoOrder
      BY <1>2, <1>6, <2>1 DEF Table, Live
    <3>2. OnSide(old.side, old.price) /\ 1 .. old.shares \subseteq Quantities
      BY <1>2, <1>3 DEF Sound
    <3> QED BY <3>1, <3>2, <1>4, <1>5, <1>7
  <2>2. CASE r # ref
    BY <1>2, <1>6, <2>2 DEF Table, Live, Sound
  <2> QED BY <2>1, <2>2
<1>10. event \in BookEvents
  BY <1>3, <1>5 DEF BookEvents
<1>11. Allowed(live_orders, event)
  BY <1>3, <1>4, <1>5, <1>10 DEF Allowed
<1>12. table = Meaning!Apply(live_orders, event)
  BY <1>3, <1>6 DEF Meaning!Apply, Meaning!Known, Meaning!AfterReduce, Meaning!Live, Live, entry
<1>13. \A r \in Refs : Live(table, r) => r \in used'
  BY <1>1, <1>2, <1>3, <1>6 DEF Live, Table
<1> HIDE DEF table
<1> QED BY <1>1, <1>8, <1>9, <1>11, <1>12, <1>13, WriteKeeps DEF table

LEMMA EmitDeleteKeeps ==
  ASSUME FeedInv, EmitDelete PROVE FeedInv'
<1>1. PICK ref \in {r \in Refs : Live(live_orders, r)} :
        /\ Write([op |-> "DELETE", ref |-> ref], [live_orders EXCEPT ![ref] = NoOrder])
        /\ UNCHANGED used
  BY DEF EmitDelete
<1> DEFINE event == [op |-> "DELETE", ref |-> ref]
           table == [live_orders EXCEPT ![ref] = NoOrder]
<1>2. live_orders \in Table /\ Sound(live_orders) /\ (\A r \in Refs : Live(live_orders, r) => r \in used)
  BY DEF FeedInv, FeedTypes
<1>3. ref \in Refs /\ Live(live_orders, ref)
  OBVIOUS
<1>4. table \in Table /\ Sound(table)
  BY <1>2, <1>3 DEF Table, Sound, Live
<1>5. Allowed(live_orders, event)
  BY <1>3 DEF Allowed, BookEvents
<1>6. table = Meaning!Apply(live_orders, event)
  BY <1>3 DEF Meaning!Apply, Meaning!Known, Meaning!Live, Live
<1>7. \A r \in Refs : Live(table, r) => r \in used'
  BY <1>1, <1>2 DEF Live, Table
<1> QED BY <1>1, <1>4, <1>5, <1>6, <1>7, WriteKeeps

(* A replacement stays on its side of the base price.                      *)
LEMMA ReplaceOnSide ==
  ASSUME NEW order \in Order, NEW price \in ReplacePrices(order)
  PROVE  price \in Prices /\ OnSide(order.side, price)
<1>1. PICK step \in -STEP .. STEP : price = Clamped(order.side, order.price + step)
  BY DEF ReplacePrices
<1>2. price \in Prices
  BY DEF ReplacePrices
<1>3. BASE \in Nat \ {0}
  BY StimulusAssumption
<1> DEFINE p == order.price + step
<1>4. p \in Int
  <2>1. order.price \in Prices
    BY DEF Order
  <2>2. order.price \in Nat
    <3>1. Prices \subseteq 0 .. PRICE_MAX /\ 0 .. PRICE_MAX \subseteq Nat
      BY LimitOrdersAssumption
    <3> QED BY <2>1, <3>1, Zenon
  <2>3. step \in Int
    BY StimulusAssumption
  <2> QED BY <2>2, <2>3
<1> HIDE DEF p
<1>5. price = Clamped(order.side, p)
  BY <1>1 DEF p
<1> QED BY <1>2, <1>3, <1>4, <1>5 DEF Clamped, OnSide

LEMMA EmitReplaceKeeps ==
  ASSUME FeedInv, EmitReplace PROVE FeedInv'
<1>1. PICK ref \in {r \in Refs : Live(live_orders, r)},
           new_ref \in Refs, lot \in Lots, price \in Prices :
        /\ new_ref \in {ref} \cup (Refs \ used)
        /\ price \in ReplacePrices(live_orders[ref])
        /\ Write([op |-> "REPLACE", ref |-> ref, new_ref |-> new_ref, price |-> price,
                  shares |-> lot],
                 [live_orders EXCEPT ![ref] = NoOrder,
                    ![new_ref] = [side |-> live_orders[ref].side, price |-> price,
                                  shares |-> lot]])
        /\ used' = used \cup {new_ref}
  BY DEF EmitReplace, ReplacePrices
<1> DEFINE order == [side |-> live_orders[ref].side, price |-> price, shares |-> lot]
           event == [op |-> "REPLACE", ref |-> ref, new_ref |-> new_ref, price |-> price,
                     shares |-> lot]
           table == [live_orders EXCEPT ![ref] = NoOrder, ![new_ref] = order]
<1>2. live_orders \in Table /\ Sound(live_orders) /\ (\A r \in Refs : Live(live_orders, r) => r \in used)
  BY DEF FeedInv, FeedTypes
<1>3. ref \in Refs /\ Live(live_orders, ref) /\ new_ref \in Refs
  OBVIOUS
<1>4. live_orders[ref] \in Order
  BY <1>2, <1>3, TableEntries
<1>5. price \in Prices /\ OnSide(live_orders[ref].side, price)
  BY <1>1, <1>4, ReplaceOnSide
<1>6. lot \in Quantities /\ lot \in Shares /\ 1 .. lot \subseteq Quantities
  BY StimulusAssumption, QuantitiesAssumption
<1>7. order \in Order
  BY <1>4, <1>5, <1>6 DEF Order
<1>8. /\ table \in Table
      /\ \A r \in Refs : table[r] = IF r = new_ref THEN order
                                     ELSE IF r = ref THEN NoOrder ELSE live_orders[r]
  <2> HIDE DEF order
  <2> QED BY <1>2, <1>3, <1>7 DEF Table
<1>9. Sound(table)
  <2> HIDE DEF table
  <2> QED BY <1>2, <1>5, <1>6, <1>8 DEF Sound, Live
<1>10. new_ref = ref \/ ~Live(live_orders, new_ref)
  BY <1>1, <1>2
<1>11. event \in BookEvents
  BY <1>3, <1>5, <1>6 DEF BookEvents
<1>12. Allowed(live_orders, event)
  BY <1>3, <1>10, <1>11 DEF Allowed
<1>13. table = Meaning!Apply(live_orders, event)
  BY <1>3 DEF Meaning!Apply, Meaning!Known, Meaning!NewOrder, Meaning!Live, Live
<1>14. \A r \in Refs : Live(table, r) => r \in used'
  <2> HIDE DEF table
  <2> QED BY <1>1, <1>2, <1>3, <1>8 DEF Live
<1>15. table \in Table
  BY <1>8
<1>16. Write(event, table)
  BY <1>1
<1> HIDE DEF table, event
<1> QED BY <1>9, <1>12, <1>13, <1>14, <1>15, <1>16, WriteKeeps

-----------------------------------------------------------------------------
(* An allowed event is taken, and makes of the orders what it means.       *)
LEMMA BookTakes ==
  ASSUME IInv, ~overflowed', NEW e, Allowed(order_table, e), BookApply(e)
  PROVE  raised' = FALSE /\ order_table' = Meaning!Apply(order_table, e)
<1>1. e \in BookEvents
  BY DEF Allowed
<1>2. ~overflowed
  BY DEF BookApply, ApplyAdd, ReduceOrder, ApplyDelete, ApplyReplace, AddOrder, Raise
<1>3. order_table \in Table /\ Aggregates(levels, order_table)
  BY <1>2 DEF IInv, TypeOK, Table, LevelsMatchOrders, BookInvariants, Aggregates
<1>4. ASSUME NEW ref \in Refs, Live(order_table, ref)
      PROVE  LET record == order_table[ref] IN
             /\ CanDecrease(levels, record.side, record.price, record.shares, 1)
             /\ \A shares \in Shares : shares < record.shares =>
                  CanDecrease(levels, record.side, record.price, shares, 0)
  BY <1>3, <1>4, LiveDecreases
<1>5. CASE e.op = "ADD" /\ ApplyAdd(e.ref, e.side, e.price, e.shares)
  <2>1. ~Live(order_table, e.ref)
    BY <1>5 DEF Allowed
  <2>2. raised' = FALSE
        /\ order_table' = [order_table EXCEPT ![e.ref] =
                             [side |-> e.side, price |-> e.price, shares |-> e.shares]]
    BY <1>5, <2>1 DEF ApplyAdd, AddOrder
  <2> QED BY <1>5, <2>2 DEF Meaning!Apply, Meaning!Known, Meaning!NewOrder
<1>6. CASE e.op = "REDUCE" /\ ReduceOrder(e.ref, e.shares)
  <2> DEFINE record == order_table[e.ref]
             whole == record.shares = e.shares
             count == IF whole THEN 1 ELSE 0
  <2>1. e.ref \in Refs /\ e.shares \in Quantities
    BY <1>1, <1>6 DEF BookEvents
  <2>2. Live(order_table, e.ref) /\ e.shares <= record.shares
    BY <1>6 DEF Allowed
  <2>3. e.shares \in Shares /\ e.shares \in Nat /\ record.shares \in Nat
    <3>1. record.shares \in Nat
      BY <1>3, <2>1, <2>2, TableEntries
    <3>2. e.shares \in Shares
      BY <2>1, QuantitiesAssumption
    <3>3. e.shares \in Nat
      BY <3>2, LimitOrdersAssumption DEF Shares
    <3> QED BY <3>1, <3>2, <3>3
  <2>4. CanDecrease(levels, record.side, record.price, e.shares, count)
    <3>1. CASE whole
      BY <1>4, <2>1, <2>2, <3>1
    <3>2. CASE ~whole
      <4>1. e.shares < record.shares
        BY <2>2, <2>3, <3>2
      <4> QED BY <1>4, <2>1, <2>2, <2>3, <3>2, <4>1
    <3> QED BY <3>1, <3>2
  <2>5. raised' = FALSE
        /\ order_table' = [order_table EXCEPT ![e.ref] =
                             IF whole THEN NoOrder ELSE [record EXCEPT !.shares = @ - e.shares]]
    <3>1. ~(e.shares > record.shares)
      BY <2>2, <2>3
    <3> QED BY <1>6, <2>2, <2>4, <3>1 DEF ReduceOrder
  <2> QED BY <1>6, <2>2, <2>5 DEF Meaning!Apply, Meaning!Known, Meaning!Live, Live, Meaning!AfterReduce
<1>7. CASE e.op = "DELETE" /\ ApplyDelete(e.ref)
  <2>1. e.ref \in Refs /\ Live(order_table, e.ref)
    BY <1>1, <1>7 DEF BookEvents, Allowed
  <2>2. raised' = FALSE /\ order_table' = [order_table EXCEPT ![e.ref] = NoOrder]
    BY <1>4, <1>7, <2>1 DEF ApplyDelete
  <2> QED BY <1>7, <2>1, <2>2 DEF Meaning!Apply, Meaning!Known, Meaning!Live, Live
<1>8. CASE e.op = "REPLACE" /\ ApplyReplace(e.ref, e.new_ref, e.price, e.shares)
  <2>1. e.ref \in Refs /\ Live(order_table, e.ref)
        /\ (e.new_ref = e.ref \/ ~Live(order_table, e.new_ref))
    BY <1>1, <1>8 DEF BookEvents, Allowed
  <2> DEFINE lv == DecreaseLevel(levels, order_table[e.ref].side, order_table[e.ref].price,
                                 order_table[e.ref].shares, 1)
             rest == [order_table EXCEPT ![e.ref] = NoOrder]
  <2>2. AddOrder(rest, lv, e.new_ref, order_table[e.ref].side, e.price, e.shares)
    BY <1>4, <1>8, <2>1 DEF ApplyReplace
  <2>3. raised' = FALSE
        /\ order_table' = [rest EXCEPT ![e.new_ref] =
             [side |-> order_table[e.ref].side, price |-> e.price, shares |-> e.shares]]
    <3> HIDE DEF rest, lv
    <3> QED BY <2>2 DEF AddOrder
  <2> QED BY <1>8, <2>1, <2>3 DEF Meaning!Apply, Meaning!Known, Meaning!Live, Live, Meaning!NewOrder
<1> QED BY <1>5, <1>6, <1>7, <1>8 DEF BookApply

-----------------------------------------------------------------------------
LEMMA SInvInit == StimulusInit => SInv
<1> SUFFICES ASSUME StimulusInit PROVE SInv
  OBVIOUS
<1> USE DEF StimulusInit
<1>1. FeedInv
  <2>1. capture \in Seq(Records) /\ lives \in Seq(Table) /\ Len(capture) = 0 /\ Len(lives) = 0
    OBVIOUS
  <2>2. live_orders = LivesAfter(Len(lives))
    BY <2>1 DEF LivesAfter
  <2> QED BY <2>1, <2>2, NoneLiveIsATable DEF FeedInv, FeedTypes, EachIsAllowed, Sound
<1>2. RunInv
  BY DEF RunInv, Generating, Init
<1>3. IInv
  BY InitIInv
<1>4. BookFollows
  BY DEF BookFollows, LivesAfter, Init, NoneLive
<1> QED BY <1>1, <1>2, <1>3, <1>4 DEF SInv

(* While the feed is written the book is empty.                            *)
LEMMA EmitKeepsTheRest ==
  ASSUME SInv, NEW event, NEW table, Write(event, table)
  PROVE  RunInv' /\ IInv' /\ BookFollows'
<1>1. /\ UNCHANGED <<order_table, levels, raised, overflowed, options, pc, filter_locate, seen,
                    events_out, states_out>>
      /\ pc = "generate"
  BY DEF Write, vars, fileVars
<1>2. Generating
  BY <1>1 DEF SInv, RunInv
<1>3. RunInv'
  BY <1>1, <1>2 DEF SInv, RunInv, Generating
<1>4. IInv'
  BY <1>1 DEF SInv, IInv, TypeOK, LevelsMatchOrders, BookInvariants
<1>5. BookFollows'
  BY <1>1, <1>2 DEF SInv, BookFollows, LivesAfter, NoneLive, Generating
<1> QED BY <1>3, <1>4, <1>5

LEMMA FeedInvKept ==
  ASSUME FeedInv, UNCHANGED <<capture, generatorVars>>
  PROVE  FeedInv'
BY DEF FeedInv, FeedTypes, EachIsAllowed, generatorVars, LivesAfter, NoneLive, Sound, OnSide,
       Live, Allowed

LEMMA EndOfFeedKeeps ==
  ASSUME SInv, EndOfFeed PROVE SInv'
<1>1. /\ UNCHANGED <<order_table, levels, raised, overflowed, capture, options, filter_locate, seen,
                    events_out, states_out, live_orders, used, lives>>
      /\ pc = "generate" /\ pc' = "resolve"
  BY DEF EndOfFeed, vars, inputVars, fileVars, generatorVars
<1>2. Generating
  BY <1>1 DEF SInv, RunInv
<1>3. FeedInv'
  BY <1>1, FeedInvKept DEF SInv, generatorVars
<1>4. RInv'
  <2>1. capture' \in Seq(Records) /\ options' \in Options
    BY <1>1 DEF SInv, RunInv, FeedInv, FeedTypes
  <2>2. \E S : states_out' \in Seq(S)
    <3>1. states_out' \in Seq({})
      BY <1>1, <1>2 DEF Generating
    <3> QED BY <3>1
  <2>3. RunnerTypes'
    <3>1. seen' \in 0 .. Len(capture')
      BY <1>1, <1>2, <2>1 DEF Generating
    <3>2. events_out' \in Seq([msg_index : Nat, event : BookEvents])
      BY <1>1, <1>2 DEF Generating
    <3>3. pc' = "resolve" /\ raised' = FALSE
      BY <1>1, <1>2 DEF Generating
    <3> QED BY <2>1, <2>2, <3>1, <3>2, <3>3 DEF RunnerTypes
  <2>4. Phases' /\ OneLineApart'
    BY <1>1, <1>2 DEF Generating, Phases, OneLineApart
  <2>5. EventsAreTheWanted'
    BY <1>1, <1>2 DEF Generating, EventsAreTheWanted
  <2> QED BY <2>3, <2>4, <2>5 DEF RInv
<1>5. RunInv'
  BY <1>1, <1>2, <1>4 DEF SInv, RunInv, Generating
<1>6. IInv'
  BY <1>1 DEF SInv, IInv, TypeOK, LevelsMatchOrders, BookInvariants
<1>7. BookFollows'
  BY <1>1, <1>2 DEF SInv, BookFollows, LivesAfter, NoneLive, Generating
<1> QED BY <1>3, <1>5, <1>6, <1>7 DEF SInv

(* The next record is always a wanted event.                               *)
LEMMA AllAreWanted ==
  ASSUME SInv, RInv, ~AtEnd
  PROVE  Wanted(capture[seen + 1])
<1>1. seen + 1 \in 1 .. Len(capture)
  BY DEF AtEnd, Scanned, RInv, RunnerTypes
<1> QED BY <1>1 DEF SInv, FeedInv, EachIsAllowed, RunInv, Wanted

(* Steps of the run that leave the book and the state file alone.          *)
LEMMA QuietFollows ==
  ASSUME BookFollows, UNCHANGED <<order_table, overflowed, states_out, lives>>, pc' # "failed"
  PROVE  BookFollows'
BY DEF BookFollows, LivesAfter, NoneLive

LEMMA ApplyFollows ==
  ASSUME SInv, RInv, ApplyEvent, UNCHANGED generatorVars
  PROVE  BookFollows'
<1> SUFFICES ASSUME ~overflowed'
             PROVE  pc' # "failed" /\ order_table' = LivesAfter(Len(states_out))'
  BY DEF BookFollows
<1> DEFINE n == Len(events_out)
<1>1. pc = "apply" /\ BookApply(LastEvent.event)
  BY DEF ApplyEvent
<1>2. /\ n \in 1 .. Len(capture)
      /\ events_out[n].event = capture[n].event
  <2>1. events_out # <<>> /\ events_out \in Seq([msg_index : Nat, event : BookEvents])
    BY <1>1 DEF RInv, Phases, RunnerTypes
  <2>2. n \in Nat \ {0}
    BY <2>1, EmptySeq, LenProperties
  <2>3. n = seen /\ seen <= Len(capture)
    BY DEF SInv, RunInv, RInv, RunnerTypes
  <2>4. capture \in Seq(Records)
    BY DEF RInv, RunnerTypes
  <2>5. n \in 1 .. Len(capture)
    BY <2>2, <2>3, <2>4
  <2>6. n \in 1 .. n
    BY <2>2
  <2> QED BY <2>5, <2>6 DEF SInv, RunInv
<1>3. Len(states_out) = n - 1 /\ Len(states_out) \in Nat
  <2>1. PICK S : states_out \in Seq(S)
    BY DEF RInv, RunnerTypes
  <2>2. Len(states_out) \in Nat
    BY <2>1
  <2> QED BY <1>1, <1>2, <2>2 DEF RInv, OneLineApart
<1>4. ~overflowed
  BY <1>1 DEF BookApply, ApplyAdd, ReduceOrder, ApplyDelete, ApplyReplace, AddOrder, Raise
<1>5. order_table = LivesAfter(n - 1)
  BY <1>3, <1>4 DEF SInv, BookFollows
<1>6. /\ Allowed(order_table, LastEvent.event)
      /\ lives[n] = Meaning!Apply(order_table, LastEvent.event)
  BY <1>2, <1>5 DEF SInv, FeedInv, EachIsAllowed, LastEvent
<1>7. raised' = FALSE /\ order_table' = lives[n]
  BY <1>1, <1>6, BookTakes DEF SInv
<1>8. pc' \in {"done", "loop"} /\ Len(states_out') = n
  <2> DEFINE line == [msg_index |-> LastEvent.msg_index, bbo |-> bbo']
  <2>1. pc' \in {"done", "loop"} /\ states_out' = Append(states_out, line)
    BY <1>7 DEF ApplyEvent, WriteState
  <2> HIDE DEF line
  <2>2. PICK S : states_out \in Seq(S)
    BY DEF RInv, RunnerTypes
  <2>3. states_out \in Seq(S \cup {line})
    BY <2>2
  <2>4. Len(states_out') = Len(states_out) + 1
    BY <2>1, <2>3
  <2> QED BY <2>1, <2>4, <1>2, <1>3
<1>9. LivesAfter(Len(states_out))' = IF n = 0 THEN NoneLive ELSE lives[n]
  BY <1>8 DEF LivesAfter, NoneLive, generatorVars
<1> QED BY <1>2, <1>7, <1>8, <1>9

LEMMA RunKeeps ==
  ASSUME SInv, Run PROVE SInv'
<1>1. RunnerNext /\ UNCHANGED generatorVars /\ lives' = lives
  BY DEF Run, generatorVars
<1>2. pc # "generate" /\ RInv
  <2>1. pc # "generate"
    BY <1>1 DEF RunnerNext, TakeLocate, ResolveSymbol, CannotResolve, ReadCut, ReadMalformed,
               ReadIgnored, ReadWanted, EndOfCapture, ApplyEvent
  <2> QED BY <2>1 DEF SInv, RunInv
<1>3. RInv'
  BY <1>1, <1>2, RInvStep
<1>4. capture' = capture /\ options' = options /\ pc' # "generate"
  <2>1. pc' # "generate"
    BY <1>3 DEF RInv, RunnerTypes
  <2> QED BY <1>1, <2>1
       DEF RunnerNext, TakeLocate, ResolveSymbol, CannotResolve, ReadCut, ReadMalformed,
           ReadIgnored, ReadWanted, EndOfCapture, StartWith, Fail, ApplyEvent, inputVars
<1>5. FeedInv'
  BY <1>1, <1>4, FeedInvKept DEF SInv
<1>6. IInv'
  <2>1. [Next]_vars
    BY <1>1, <1>2, RunnerStepsTheBook
  <2> QED BY <2>1, NextIInv DEF SInv
<1>7. /\ filter_locate' \in {None, LOCATE}
      /\ seen' = Len(events_out')
      /\ \A k \in 1 .. Len(events_out') : events_out'[k].event = capture[k].event
      /\ BookFollows'
  <2>0. /\ filter_locate \in {None, LOCATE} /\ options.symbol = None
        /\ options.locate \in {None, LOCATE}
        /\ seen = Len(events_out)
        /\ \A k \in 1 .. Len(events_out) : events_out[k].event = capture[k].event
        /\ BookFollows
    BY DEF SInv, RunInv
  <2>1. CASE TakeLocate
    BY <1>1, <2>0, <2>1, QuietFollows DEF TakeLocate, StartWith, vars, fileVars
  <2>2. CASE ResolveSymbol \/ CannotResolve
    BY <2>0, <2>2 DEF ResolveSymbol, CannotResolve
  <2>3. CASE ReadCut \/ ReadMalformed \/ ReadIgnored
    <3>1. ~AtEnd
      BY <2>3 DEF ReadCut, ReadMalformed, ReadIgnored
    <3>2. Wanted(capture[seen + 1])
      BY <1>2, <3>1, AllAreWanted
    <3> QED BY <2>3, <3>2 DEF ReadCut, ReadMalformed, ReadIgnored, Wanted
  <2>4. CASE ReadWanted
    <3> DEFINE line == [msg_index |-> seen, event |-> capture[seen + 1].event]
               Line == [msg_index : Nat, event : BookEvents]
    <3>1. /\ seen' = seen + 1 /\ events_out' = Append(events_out, line)
          /\ pc' = "apply"
          /\ UNCHANGED <<order_table, overflowed, states_out, filter_locate>>
      BY <2>4 DEF ReadWanted, vars
    <3>2. events_out \in Seq(Line) /\ events_out' \in Seq(Line)
      BY <1>2, <1>3 DEF RInv, RunnerTypes
    <3>3. line.event = capture[seen + 1].event
      OBVIOUS
    <3> HIDE DEF line, Line
    <3>4. events_out \in Seq(Line \cup {line})
      BY <3>2
    <3>5. /\ Len(events_out') = Len(events_out) + 1
          /\ \A k \in 1 .. Len(events_out) : events_out'[k] = events_out[k]
          /\ events_out'[Len(events_out) + 1] = line
          /\ Len(events_out) \in Nat
      BY <3>1, <3>4
    <3>6. \A k \in 1 .. Len(events_out') : events_out'[k].event = capture[k].event
      BY <2>0, <3>3, <3>5
    <3>7. BookFollows'
      BY <1>1, <2>0, <3>1, QuietFollows
    <3> QED BY <2>0, <3>1, <3>5, <3>6, <3>7
  <2>5. CASE EndOfCapture
    BY <1>1, <2>0, <2>5, QuietFollows DEF EndOfCapture, vars, fileVars
  <2>6. CASE ApplyEvent
    <3>1. BookFollows'
      BY <1>1, <1>2, <2>6, ApplyFollows
    <3> QED BY <2>0, <2>6, <3>1 DEF ApplyEvent
  <2> QED BY <1>1, <2>1, <2>2, <2>3, <2>4, <2>5, <2>6 DEF RunnerNext
<1>8. RunInv'
  <2>1. options \in Options /\ options.symbol = None /\ options.locate \in {None, LOCATE}
    BY DEF SInv, RunInv
  <2> QED BY <1>3, <1>4, <1>7, <2>1 DEF RunInv
<1> QED BY <1>5, <1>6, <1>7, <1>8 DEF SInv

LEMMA SInvStep == SInv /\ [StimulusNext]_stimulusVars => SInv'
<1> SUFFICES ASSUME SInv, [StimulusNext]_stimulusVars PROVE SInv'
  OBVIOUS
<1>0. FeedInv
  BY DEF SInv
<1>1. CASE EmitAdd
  <2>1. RunInv' /\ IInv' /\ BookFollows'
    BY <1>1, EmitKeepsTheRest DEF EmitAdd
  <2> QED BY <1>0, <1>1, <2>1, EmitAddKeeps DEF SInv
<1>2. CASE EmitReduce
  <2>1. RunInv' /\ IInv' /\ BookFollows'
    BY <1>2, EmitKeepsTheRest DEF EmitReduce
  <2> QED BY <1>0, <1>2, <2>1, EmitReduceKeeps DEF SInv
<1>3. CASE EmitDelete
  <2>1. RunInv' /\ IInv' /\ BookFollows'
    BY <1>3, EmitKeepsTheRest DEF EmitDelete
  <2> QED BY <1>0, <1>3, <2>1, EmitDeleteKeeps DEF SInv
<1>4. CASE EmitReplace
  <2>1. RunInv' /\ IInv' /\ BookFollows'
    BY <1>4, EmitKeepsTheRest DEF EmitReplace
  <2> QED BY <1>0, <1>4, <2>1, EmitReplaceKeeps DEF SInv
<1>5. CASE EndOfFeed
  BY <1>5, EndOfFeedKeeps
<1>6. CASE Run
  BY <1>6, RunKeeps
<1>7. CASE UNCHANGED stimulusVars
  <2>1. UNCHANGED <<capture, generatorVars>>
    BY <1>7 DEF stimulusVars, runnerVars, inputVars
  <2>2. FeedInv'
    BY <1>0, <2>1, FeedInvKept
  <2>3. IInv'
    BY <1>7, NextIInv DEF SInv, stimulusVars
  <2>4. RInv => RInv'
    BY <1>7, RInvStep DEF allVars, stimulusVars
  <2>5. UNCHANGED <<order_table, overflowed, raised, pc, filter_locate, seen, events_out,
                    states_out, options, lives, capture>>
    BY <1>7 DEF stimulusVars, vars, runnerVars, inputVars, fileVars, generatorVars
  <2>6. RunInv'
    BY <2>4, <2>5 DEF SInv, RunInv, Generating
  <2>7. BookFollows'
    BY <2>5 DEF SInv, BookFollows, LivesAfter, NoneLive
  <2> QED BY <2>2, <2>3, <2>6, <2>7 DEF SInv
<1> QED BY <1>1, <1>2, <1>3, <1>4, <1>5, <1>6, <1>7 DEF StimulusNext, Generate

(* Bids at or below the base price and asks above it never meet.           *)
LEMMA SoundIsUncrossed ==
  ASSUME NEW table \in Table, Sound(table) PROVE Meaning!Uncrossed(table)
<1> SUFFICES ASSUME NEW bid \in Meaning!OccupiedPrices(table, "BUY"),
                    NEW ask \in Meaning!OccupiedPrices(table, "SELL")
             PROVE  bid < ask
  BY DEF Meaning!Uncrossed
<1> USE DEF Meaning!OccupiedPrices, Meaning!OrdersAt, Meaning!Live
<1>1. PICK b \in Refs : Live(table, b) /\ table[b].side = "BUY" /\ table[b].price = bid
  BY DEF Live
<1>2. PICK a \in Refs : Live(table, a) /\ table[a].side = "SELL" /\ table[a].price = ask
  BY DEF Live
<1>3. bid <= BASE /\ ask > BASE
  BY <1>1, <1>2 DEF Sound, OnSide
<1>4. Prices \subseteq 0 .. PRICE_MAX /\ 0 .. PRICE_MAX \subseteq Nat
  BY LimitOrdersAssumption
<1>5. bid \in Nat /\ ask \in Nat /\ BASE \in Nat
  BY <1>4, StimulusAssumption
<1> QED BY <1>3, <1>5

LEMMA SInvSuffices == SInv => FeedIsValid
<1> SUFFICES ASSUME SInv, NEW k \in DOMAIN capture
             PROVE  Meaning!Legal(LivesAfter(k - 1), capture[k].event)
  BY DEF SInv, FeedIsValid, FeedIsLegal
<1> DEFINE table == LivesAfter(k - 1)
           e == capture[k].event
<1>1. k \in 1 .. Len(capture) /\ k - 1 \in 0 .. Len(capture)
  BY DEF SInv, FeedInv, FeedTypes
<1>2. Allowed(table, e) /\ lives[k] = Meaning!Apply(table, e) /\ Sound(lives[k])
  BY <1>1 DEF SInv, FeedInv, EachIsAllowed
<1>3. lives[k] \in Table
  BY <1>1 DEF SInv, FeedInv, FeedTypes
<1>4. Meaning!Uncrossed(Meaning!Apply(table, e))
  BY <1>2, <1>3, SoundIsUncrossed
<1> HIDE DEF table, e
<1> QED BY <1>2, <1>4 DEF Meaning!Legal, Meaning!Known, Meaning!Live, Live, Allowed, table, e

-----------------------------------------------------------------------------
(* golden/stimulus.py calls its streams contract-valid: whatever is chosen *)
(* at random, the book refuses nothing and no bid reaches an ask.          *)
THEOREM FeedsAreValid == StimulusSpec => []FeedIsValid
BY SInvInit, SInvStep, SInvSuffices, PTL DEF StimulusSpec

-----------------------------------------------------------------------------
(* The two files together.  What the state lines must show is a recursion  *)
(* over the event lines; the run itself is the induction that unrolls it.  *)
EventLines == [msg_index : Nat, event : BookEvents]

Solves(tables, lines) ==
  tables = [n \in 0 .. Len(lines) |->
              IF n = 0 THEN Meaning!NoOrders
              ELSE Meaning!Apply(tables[n - 1], lines[n].event)]

(* The recursion has one solution for these lines.                         *)
Unrolls(lines) ==
  \E tables : Solves(tables, lines) /\ \A other : Solves(other, lines) => other = tables

LEMMA TablesSolve ==
  ASSUME NEW lines, Unrolls(lines)
  PROVE  /\ Solves(TablesOf(lines), lines)
         /\ \A other : Solves(other, lines) => other = TablesOf(lines)
<1>1. TablesOf(lines) = CHOOSE tables : Solves(tables, lines)
  BY DEF TablesOf, Solves
<1>2. PICK tables : Solves(tables, lines) /\ \A other : Solves(other, lines) => other = tables
  BY DEF Unrolls
<1>3. Solves(TablesOf(lines), lines)
  BY <1>1, <1>2, Zenon
<1> QED
  BY <1>2, <1>3, Zenon

LEMMA NoLinesUnroll ==
  Unrolls(<<>>) /\ TablesOf(<<>>)[0] = Meaning!NoOrders
<1> DEFINE none == [n \in 0 .. 0 |-> Meaning!NoOrders]
<1>1. \A tables : Solves(tables, <<>>) <=> tables = none
  <2> SUFFICES ASSUME NEW tables PROVE Solves(tables, <<>>) <=> tables = none
    OBVIOUS
  <2>1. Len(<<>>) = 0
    OBVIOUS
  <2>2. [n \in 0 .. 0 |-> IF n = 0 THEN Meaning!NoOrders
                          ELSE Meaning!Apply(tables[n - 1], <<>>[n].event)] = none
    OBVIOUS
  <2> QED
    BY <2>1, <2>2, Zenon DEF Solves
<1>2. none[0] = Meaning!NoOrders
  OBVIOUS
<1> HIDE DEF none
<1>3. Unrolls(<<>>)
  <2>1. Solves(none, <<>>)
    BY <1>1, Zenon
  <2>2. ASSUME NEW other, Solves(other, <<>>) PROVE other = none
    BY <1>1, <2>2, Zenon
  <2> QED
    BY <2>1, <2>2, Zenon DEF Unrolls
<1>4. TablesOf(<<>>) = none
  BY <1>1, <1>3, TablesSolve
<1> QED
  BY <1>2, <1>3, <1>4

LEMMA NextTable ==
  ASSUME NEW lines \in Seq(EventLines), Unrolls(lines), NEW n \in 1 .. Len(lines)
  PROVE  TablesOf(lines)[n] = Meaning!Apply(TablesOf(lines)[n - 1], lines[n].event)
<1> DEFINE tables == TablesOf(lines)
<1>1. Solves(tables, lines)
  BY TablesSolve
<1>2. n \in 0 .. Len(lines) /\ n # 0
  BY LenProperties
<1> HIDE DEF tables
<1>3. tables[n] = IF n = 0 THEN Meaning!NoOrders
                  ELSE Meaning!Apply(tables[n - 1], lines[n].event)
  BY <1>1, <1>2 DEF Solves
<1> QED
  BY <1>2, <1>3 DEF tables

(* One more line leaves the tables before it as they are.                  *)
LEMMA LineUnrolls ==
  ASSUME NEW lines \in Seq(EventLines), Unrolls(lines), NEW line \in EventLines
  PROVE  /\ Unrolls(Append(lines, line))
         /\ \A n \in 0 .. Len(lines) :
              TablesOf(Append(lines, line))[n] = TablesOf(lines)[n]
<1> DEFINE more == Append(lines, line)
           last == Len(lines)
           tables == TablesOf(lines)
           longer == [n \in 0 .. last + 1 |->
                        IF n <= last THEN tables[n]
                        ELSE Meaning!Apply(tables[last], line.event)]
<1>1. /\ last \in Nat /\ Len(more) = last + 1 /\ more[last + 1] = line
      /\ \A n \in 1 .. last : more[n] = lines[n]
  BY AppendProperties, LenProperties
<1>2. Solves(tables, lines) /\ \A other : Solves(other, lines) => other = tables
  BY TablesSolve
<1> HIDE DEF more, last, tables
<1>3. tables = [n \in 0 .. last |-> IF n = 0 THEN Meaning!NoOrders
                                    ELSE Meaning!Apply(tables[n - 1], lines[n].event)]
  BY <1>2 DEF Solves, last
<1>4. Solves(longer, more)
  <2>1. ASSUME NEW n \in 0 .. last + 1
        PROVE  longer[n] = IF n = 0 THEN Meaning!NoOrders
                           ELSE Meaning!Apply(longer[n - 1], more[n].event)
    <3>1. CASE n = 0
      <4>1. longer[0] = tables[0] /\ tables[0] = Meaning!NoOrders
        BY <1>1, <1>3
      <4> QED
        BY <3>1, <4>1
    <3>2. CASE n \in 1 .. last
      <4>1. longer[n] = tables[n] /\ longer[n - 1] = tables[n - 1] /\ n # 0
        BY <1>1, <3>2
      <4>2. tables[n] = Meaning!Apply(tables[n - 1], lines[n].event)
        BY <1>1, <1>3, <3>2
      <4> QED
        BY <1>1, <3>2, <4>1, <4>2
    <3>3. CASE n = last + 1
      <4>1. longer[n] = Meaning!Apply(tables[last], line.event)
        BY <1>1, <3>3
      <4>2. longer[n - 1] = tables[last] /\ n # 0
        BY <1>1, <3>3
      <4> QED
        BY <1>1, <3>3, <4>1, <4>2
    <3> QED
      BY <1>1, <3>1, <3>2, <3>3
  <2>2. longer = [n \in 0 .. last + 1 |-> longer[n]]
    OBVIOUS
  <2> HIDE DEF longer
  <2>3. longer = [n \in 0 .. last + 1 |->
                    IF n = 0 THEN Meaning!NoOrders
                    ELSE Meaning!Apply(longer[n - 1], more[n].event)]
    BY <2>1, <2>2
  <2> QED
    BY <1>1, <2>3 DEF Solves
<1>5. ASSUME NEW other, Solves(other, more) PROVE other = longer
  <2>1. other = [n \in 0 .. last + 1 |->
                   IF n = 0 THEN Meaning!NoOrders
                   ELSE Meaning!Apply(other[n - 1], more[n].event)]
    BY <1>1, <1>5 DEF Solves
  <2> DEFINE part == [n \in 0 .. last |-> other[n]]
  <2>2. \A n \in 0 .. last : part[n] = other[n]
    OBVIOUS
  <2>3. ASSUME NEW n \in 0 .. last
        PROVE  part[n] = IF n = 0 THEN Meaning!NoOrders
                         ELSE Meaning!Apply(part[n - 1], lines[n].event)
    <3>1. CASE n = 0
      <4>1. other[0] = Meaning!NoOrders
        BY <1>1, <2>1
      <4> QED
        BY <2>2, <3>1, <4>1
    <3>2. CASE n # 0
      <4>1. n \in 1 .. last /\ n - 1 \in 0 .. last /\ n \in 0 .. last + 1
        BY <1>1, <3>2
      <4>2. other[n] = Meaning!Apply(other[n - 1], more[n].event)
        BY <2>1, <3>2, <4>1
      <4>3. part[n] = other[n] /\ part[n - 1] = other[n - 1]
        BY <2>2, <4>1
      <4> QED
        BY <1>1, <3>2, <4>1, <4>2, <4>3
    <3> QED
      BY <3>1, <3>2
  <2>4. part = [n \in 0 .. last |-> part[n]]
    OBVIOUS
  <2> HIDE DEF part
  <2>5. Solves(part, lines)
    <3>1. part = [n \in 0 .. last |-> IF n = 0 THEN Meaning!NoOrders
                                      ELSE Meaning!Apply(part[n - 1], lines[n].event)]
      BY <2>3, <2>4
    <3> QED
      BY <3>1 DEF Solves, last
  <2>6. part = tables
    BY <1>2, <2>5
  <2>7. ASSUME NEW n \in 0 .. last + 1 PROVE other[n] = longer[n]
    <3>1. CASE n \in 0 .. last
      BY <1>1, <2>2, <2>6, <3>1
    <3>2. CASE n = last + 1
      <4>1. other[n] = Meaning!Apply(other[last], line.event)
        <5>1. n \in 0 .. last + 1 /\ n # 0 /\ n - 1 = last
          BY <1>1, <3>2
        <5>2. other[n] = IF n = 0 THEN Meaning!NoOrders
                         ELSE Meaning!Apply(other[n - 1], more[n].event)
          BY <2>1, <5>1
        <5>3. more[n] = line
          BY <1>1, <3>2
        <5> QED
          BY <5>1, <5>2, <5>3
      <4>2. other[last] = tables[last]
        BY <1>1, <2>2, <2>6
      <4> QED
        BY <1>1, <3>2, <4>1, <4>2
    <3> QED
      BY <1>1, <3>1, <3>2
  <2>8. other = [n \in 0 .. last + 1 |-> other[n]]
    BY <2>1
  <2> QED
    BY <2>7, <2>8
<1> HIDE DEF longer
<1>6. Unrolls(more)
  BY <1>4, <1>5, Zenon DEF Unrolls
<1>7. TablesOf(more) = longer
  BY <1>4, <1>6, TablesSolve
<1>8. \A n \in 0 .. last : longer[n] = tables[n]
  BY <1>1 DEF longer
<1> QED
  BY <1>6, <1>7, <1>8 DEF more, last, tables

-----------------------------------------------------------------------------
(* What one apply does to the files.                                       *)

LEMMA LiveOrdersCounts ==
  ASSUME NEW table
  PROVE  LiveOrders(table) \in Nat
<1>1. IsFiniteSet({ref \in Refs : Live(table, ref)})
  BY LimitOrdersAssumption, FS_Subset
<1> QED
  BY <1>1, FS_CardinalityType DEF LiveOrders

(* A level that overflows makes the apply raise.                           *)
LEMMA OverflowRaises ==
  ASSUME NEW e, BookApply(e), overflowed'
  PROVE  overflowed \/ raised'
BY DEF BookApply, ApplyAdd, ReduceOrder, ApplyDelete, ApplyReplace, AddOrder, Raise

(* What the book has accepted was allowed.                                 *)
LEMMA BookAccepts ==
  ASSUME NEW e \in BookEvents, BookApply(e), ~raised'
  PROVE  Allowed(order_table, e)
<1>1. CASE e.op = "ADD" /\ ApplyAdd(e.ref, e.side, e.price, e.shares)
  BY <1>1 DEF ApplyAdd, Raise, Allowed
<1>2. CASE e.op = "REDUCE" /\ ReduceOrder(e.ref, e.shares)
  BY <1>2 DEF ReduceOrder, Raise, Allowed
<1>3. CASE e.op = "DELETE" /\ ApplyDelete(e.ref)
  BY <1>3 DEF ApplyDelete, Raise, Allowed
<1>4. CASE e.op = "REPLACE" /\ ApplyReplace(e.ref, e.new_ref, e.price, e.shares)
  BY <1>4 DEF ApplyReplace, Raise, Allowed
<1> QED
  BY <1>1, <1>2, <1>3, <1>4 DEF BookApply

(* Why the book may refuse an event.                                       *)
NotAllowed(table, e) ==
  \/ e.op = "ADD" /\ Live(table, e.ref)
  \/ e.op # "ADD" /\ ~Live(table, e.ref)
  \/ e.op = "REDUCE" /\ Live(table, e.ref) /\ e.shares > table[e.ref].shares
  \/ e.op = "REPLACE" /\ e.new_ref # e.ref /\ Live(table, e.new_ref)

LEMMA BookRefuses ==
  ASSUME IInv, NEW e \in BookEvents, BookApply(e), raised', ~overflowed'
  PROVE  NotAllowed(order_table, e)
<1>1. ~Allowed(order_table, e)
  BY BookTakes
<1>2. CASE e.op = "REDUCE" /\ Live(order_table, e.ref)
  <2>1. ~(e.shares <= order_table[e.ref].shares)
    BY <1>1, <1>2 DEF Allowed
  <2>2. e.ref \in Refs /\ e.shares \in Quantities
    BY <1>2 DEF BookEvents
  <2>3. order_table[e.ref].shares \in Nat
    BY <1>2, <2>2, TableEntries DEF IInv, TypeOK, Table
  <2>4. e.shares \in Shares
    BY <2>2, QuantitiesAssumption
  <2>5. e.shares \in Nat
    BY <2>4, LimitOrdersAssumption DEF Shares
  <2> QED
    BY <1>2, <2>1, <2>3, <2>5 DEF NotAllowed
<1>3. CASE ~(e.op = "REDUCE" /\ Live(order_table, e.ref))
  BY <1>1, <1>3 DEF Allowed, NotAllowed
<1> QED
  BY <1>2, <1>3

(* The files and the book: the orders are those the event lines with a     *)
(* state line leave.                                                       *)
FilesMatch ==
  /\ Unrolls(events_out)
  /\ overflowed => raised
  /\ ~raised => order_table = TableAfter[Len(states_out)]
  /\ StatesFollowEvents
  /\ RefusedForAReason

LEMMA NothingWrittenMatches ==
  ASSUME events_out = <<>>, states_out = <<>>, raised = FALSE, overflowed = FALSE,
         peaks.live_orders = 0, order_table = [ref \in Refs |-> NoOrder]
  PROVE  FilesMatch
<1>1. Unrolls(events_out) /\ TableAfter[0] = Meaning!NoOrders
  BY NoLinesUnroll DEF TableAfter
<1>2. Meaning!NoOrders = order_table
  BY DEF Meaning!NoOrders
<1>3. Len(states_out) = 0 /\ DOMAIN states_out = {}
  OBVIOUS
<1>4. StatesFollowEvents
  BY <1>3 DEF StatesFollowEvents
<1> QED
  BY <1>1, <1>2, <1>3, <1>4 DEF FilesMatch, RefusedForAReason

LEMMA QuietMatches ==
  ASSUME FilesMatch, UNCHANGED <<order_table, raised, overflowed, fileVars>>
  PROVE  FilesMatch'
<1>1. /\ events_out' = events_out /\ states_out' = states_out /\ peaks' = peaks
      /\ order_table' = order_table /\ raised' = raised /\ overflowed' = overflowed
  BY DEF fileVars
<1>2. TableAfter' = TableAfter
  BY <1>1 DEF TableAfter
<1>3. Unrolls(events_out)'
  BY <1>1 DEF FilesMatch
<1>4. StatesFollowEvents'
  BY <1>1, <1>2 DEF FilesMatch, StatesFollowEvents
<1>5. RefusedForAReason'
  BY <1>1, <1>2 DEF FilesMatch, RefusedForAReason, LastEvent
<1> QED
  BY <1>1, <1>2, <1>3, <1>4, <1>5 DEF FilesMatch

(* How long the two files are.                                             *)
LEMMA FileLengths ==
  ASSUME RInv
  PROVE  /\ Len(events_out) \in Nat /\ Len(states_out) \in Nat
         /\ Len(events_out) = Len(states_out) + (IF pc = "apply" \/ raised THEN 1 ELSE 0)
         /\ DOMAIN states_out = 1 .. Len(states_out)
         /\ events_out \in Seq(EventLines)
<1>1. PICK S : states_out \in Seq(S)
  BY DEF RInv, RunnerTypes
<1>2. events_out \in Seq(EventLines)
  BY DEF RInv, RunnerTypes, EventLines
<1>3. Len(events_out) \in Nat /\ Len(states_out) \in Nat /\ DOMAIN states_out = 1 .. Len(states_out)
  BY <1>1, <1>2
<1> QED
  BY <1>2, <1>3 DEF RInv, OneLineApart

(* A new event line changes nothing the state lines speak of.              *)
LEMMA ReadMatches ==
  ASSUME RInv, FilesMatch, ReadWanted
  PROVE  FilesMatch'
<1> DEFINE line == [msg_index |-> seen, event |-> capture[seen + 1].event]
<1>1. /\ events_out' = Append(events_out, line)
      /\ states_out' = states_out /\ peaks' = peaks
      /\ order_table' = order_table /\ raised' = raised /\ overflowed' = overflowed
      /\ pc = "loop" /\ raised = FALSE
  BY DEF ReadWanted, vars, RInv, RunnerTypes, Phases
<1>2. line \in EventLines
  <2>1. seen \in Nat /\ seen + 1 \in 1 .. Len(capture) /\ capture \in Seq(Records)
    BY DEF ReadWanted, AtEnd, Scanned, RInv, RunnerTypes
  <2>2. capture[seen + 1] \in Records /\ capture[seen + 1].kind = "event"
    BY <2>1 DEF ReadWanted, Wanted
  <2>3. capture[seen + 1].event \in BookEvents
    BY <2>2 DEF Records, Damages
  <2> QED
    BY <2>1, <2>3 DEF EventLines
<1>3. /\ Len(events_out) \in Nat /\ Len(states_out) = Len(events_out)
      /\ DOMAIN states_out = 1 .. Len(states_out)
      /\ events_out \in Seq(EventLines)
  BY <1>1, FileLengths
<1> HIDE DEF line
<1>4. /\ Unrolls(events_out)'
      /\ \A n \in 0 .. Len(events_out) : TableAfter'[n] = TableAfter[n]
  BY <1>1, <1>2, <1>3, LineUnrolls DEF FilesMatch, TableAfter
<1>5. \A k \in 1 .. Len(events_out) : events_out'[k] = events_out[k]
  BY <1>1, <1>2, <1>3, AppendProperties
<1>6. \A k \in DOMAIN states_out :
        events_out'[k] = events_out[k] /\ TableAfter'[k] = TableAfter[k]
  BY <1>3, <1>4, <1>5
<1>7. StatesFollowEvents'
  BY <1>1, <1>6 DEF FilesMatch, StatesFollowEvents
<1>8. order_table' = TableAfter'[Len(states_out')]
  BY <1>1, <1>3, <1>4 DEF FilesMatch
<1> QED
  BY <1>1, <1>4, <1>7, <1>8 DEF FilesMatch, RefusedForAReason

(* The state line of an event the book has taken.                          *)
LEMMA TakenMatches ==
  ASSUME RInv, IInv, FilesMatch, ApplyEvent, ~raised'
  PROVE  FilesMatch'
<1> DEFINE n == Len(states_out)
           e == LastEvent.event
           top == bbo'
           size == LiveOrders(order_table')
           line == [msg_index |-> LastEvent.msg_index, bbo |-> top]
<1>1. /\ n \in Nat /\ Len(events_out) = n + 1 /\ DOMAIN states_out = 1 .. n
      /\ events_out \in Seq(EventLines)
  BY FileLengths DEF ApplyEvent
<1>2. pc = "apply" /\ raised = FALSE /\ ~overflowed
  BY DEF ApplyEvent, RInv, RunnerTypes, Phases, FilesMatch
<1>3. /\ states_out' = Append(states_out, line)
      /\ peaks'.live_orders = Peak(peaks.live_orders, size)
      /\ events_out' = events_out
  BY DEF ApplyEvent, WriteState
<1>4. Next /\ e \in BookEvents /\ BookApply(e)
  BY ApplyIsABookStep DEF RInv, ApplyEvent
<1>5. overflowed' = FALSE
  <2>1. overflowed' \in BOOLEAN
    BY <1>4, NextIInv DEF IInv, TypeOK
  <2> QED
    BY <1>2, <1>4, <2>1, OverflowRaises
<1>6. order_table' = Meaning!Apply(order_table, e)
  <2>1. Allowed(order_table, e)
    BY <1>4, BookAccepts
  <2> QED
    BY <1>4, <1>5, <2>1, BookTakes
<1>7. top = BboOf(order_table')
  <2>1. IInv'
    BY <1>4, NextIInv
  <2>2. BboIsBest'
    BY <2>1, LevelsGiveTheTop, PTL
  <2> QED
    BY <1>5, <2>2 DEF BboIsBest
<1>8. TableAfter' = TableAfter
  BY <1>3 DEF TableAfter
<1>9. order_table' = TableAfter[n + 1]
  <2>1. n + 1 \in 1 .. Len(events_out) /\ (n + 1) - 1 = n
    BY <1>1
  <2>2. TableAfter[n + 1] = Meaning!Apply(TableAfter[(n + 1) - 1], events_out[n + 1].event)
    BY <1>1, <2>1, NextTable DEF FilesMatch, TableAfter
  <2>3. order_table = TableAfter[n] /\ e = events_out[n + 1].event
    BY <1>1, <1>2 DEF FilesMatch, LastEvent
  <2> QED
    BY <1>6, <2>1, <2>2, <2>3
<1>10. line.msg_index = events_out[n + 1].msg_index /\ line.bbo = BboOf(TableAfter[n + 1])
  BY <1>1, <1>7, <1>9 DEF LastEvent
<1>11. size = LiveOrders(TableAfter[n + 1])
  BY <1>9
<1> HIDE DEF n, e, top, size, line
<1>12. /\ Len(states_out') = n + 1
       /\ \A k \in 1 .. n : states_out'[k] = states_out[k]
       /\ states_out'[n + 1] = line
       /\ DOMAIN states_out' = 1 .. n + 1
  <2>1. PICK S : states_out \in Seq(S)
    BY DEF RInv, RunnerTypes
  <2>2. states_out \in Seq(S \cup {line})
    BY <2>1
  <2> QED
    BY <1>1, <1>3, <2>2, AppendProperties DEF n
<1>13. StatesFollowEvents'
  <2> DEFINE sizes == {0} \cup {LiveOrders(TableAfter[k]) : k \in 1 .. n}
             all == {0} \cup {LiveOrders(TableAfter[k]) : k \in 1 .. n + 1}
             old == peaks.live_orders
             new == peaks'.live_orders
  <2>1. ASSUME NEW k \in 1 .. n + 1
        PROVE  /\ states_out'[k].msg_index = events_out[k].msg_index
               /\ states_out'[k].bbo = BboOf(TableAfter[k])
    <3>1. CASE k \in 1 .. n
      BY <1>1, <1>12, <3>1 DEF FilesMatch, StatesFollowEvents
    <3>2. CASE k = n + 1
      BY <1>10, <1>12, <3>2
    <3> QED
      BY <1>1, <3>1, <3>2
  <2>2. old \in sizes /\ \A m \in sizes : m <= old
    BY <1>1 DEF FilesMatch, StatesFollowEvents
  <2>3. all = sizes \cup {size}
    BY <1>1, <1>11
  <2>4. sizes \subseteq Nat /\ size \in Nat
    BY LiveOrdersCounts DEF size
  <2>5. new = IF size > old THEN size ELSE old
    BY <1>3 DEF Peak
  <2> HIDE DEF sizes, all, old, new
  <2>6. new \in all /\ \A m \in all : m <= new
    <3>1. CASE size > old
      BY <2>2, <2>3, <2>4, <2>5, <3>1
    <3>2. CASE ~(size > old)
      BY <2>2, <2>3, <2>4, <2>5, <3>2
    <3> QED
      BY <3>1, <3>2
  <2> QED
    BY <1>3, <1>8, <1>12, <2>1, <2>6 DEF StatesFollowEvents, all, new
<1> QED
  BY <1>3, <1>5, <1>8, <1>9, <1>12, <1>13 DEF FilesMatch, RefusedForAReason

(* An event the book refuses leaves its line without a state.              *)
LEMMA RefusedMatches ==
  ASSUME RInv, IInv, FilesMatch, ApplyEvent, raised'
  PROVE  FilesMatch'
<1> DEFINE n == Len(states_out)
           e == LastEvent.event
<1>1. n \in Nat /\ Len(events_out) = n + 1
  BY FileLengths DEF ApplyEvent
<1>2. pc = "apply" /\ raised = FALSE
  BY DEF ApplyEvent, RInv, RunnerTypes, Phases
<1>3. states_out' = states_out /\ peaks' = peaks /\ events_out' = events_out
  BY DEF ApplyEvent
<1>4. e \in BookEvents /\ BookApply(e)
  BY ApplyIsABookStep DEF RInv, ApplyEvent
<1>5. TableAfter' = TableAfter
  BY <1>3 DEF TableAfter
<1>6. order_table = TableAfter[Len(events_out) - 1]
  BY <1>1, <1>2 DEF FilesMatch
<1>7. overflowed' \/ NotAllowed(TableAfter[Len(events_out) - 1], e)
  BY <1>4, <1>6, BookRefuses
<1>8. RefusedForAReason'
  BY <1>3, <1>5, <1>7 DEF RefusedForAReason, NotAllowed, LastEvent
<1>9. StatesFollowEvents'
  BY <1>3, <1>5 DEF FilesMatch, StatesFollowEvents
<1> QED
  BY <1>3, <1>8, <1>9 DEF FilesMatch

LEMMA FilesMatchStep ==
  ASSUME RInv, IInv, FilesMatch, [RunnerNext]_allVars
  PROVE  FilesMatch'
<1>1. CASE ReadWanted
  BY <1>1, ReadMatches
<1>2. CASE ApplyEvent
  BY <1>2, TakenMatches, RefusedMatches
<1>3. CASE UNCHANGED <<vars, fileVars>>
  BY <1>3, QuietMatches DEF vars
<1> QED
  BY <1>1, <1>2, <1>3
     DEF RunnerNext, TakeLocate, ResolveSymbol, CannotResolve, ReadCut, ReadMalformed,
         ReadIgnored, EndOfCapture, StartWith, Fail, allVars, runnerVars

-----------------------------------------------------------------------------
(* How a run ends.  A pass over the directories that went through has seen *)
(* every record the loop will see.                                         *)
EndInv ==
  /\ EndsForAReason
  /\ options.symbol # None /\ filter_locate # None => ~DirectoryPassFails

LEMMA EndInvStep ==
  ASSUME RInv, EndInv, [RunnerNext]_allVars
  PROVE  EndInv'
<1> USE DEF inputVars, fileVars
<1>1. capture' = capture /\ options' = options
  BY DEF RunnerNext, TakeLocate, ResolveSymbol, CannotResolve, ReadCut, ReadMalformed,
         ReadIgnored, ReadWanted, EndOfCapture, ApplyEvent, StartWith, Fail, allVars, runnerVars
<1>2. DirectoryPassFails' = DirectoryPassFails
  BY <1>1 DEF DirectoryPassFails, Directories, Scanned
<1>3. CASE TakeLocate
  BY <1>1, <1>3 DEF TakeLocate, StartWith, EndInv, EndsForAReason
<1>4. CASE ResolveSymbol
  BY <1>1, <1>2, <1>4 DEF ResolveSymbol, StartWith, EndInv, EndsForAReason
<1>5. CASE CannotResolve
  BY <1>5 DEF CannotResolve, Fail, RInv, Phases, EndInv, EndsForAReason
<1>6. CASE ReadCut
  <2>1. DirectoryPassFails
    BY <1>6 DEF ReadCut, AtEnd, DirectoryPassFails
  <2> QED
    BY <1>1, <1>2, <1>6, <2>1 DEF ReadCut, Fail, EndInv, EndsForAReason
<1>7. CASE ReadMalformed
  <2>1. capture[seen + 1].kind = "empty" => DirectoryPassFails
    BY <1>7 DEF ReadMalformed, AtEnd, DirectoryPassFails
  <2> QED
    BY <1>1, <1>2, <1>7, <2>1 DEF ReadMalformed, Fail, EndInv, EndsForAReason
<1>8. CASE ReadIgnored \/ ReadWanted
  BY <1>1, <1>2, <1>8 DEF ReadIgnored, ReadWanted, EndInv, EndsForAReason
<1>9. CASE EndOfCapture
  <2>1. AtEnd'
    BY <1>1, <1>9 DEF EndOfCapture, AtEnd, Scanned
  <2> QED
    BY <1>1, <1>2, <1>9, <2>1 DEF EndOfCapture, EndInv, EndsForAReason
<1>10. CASE ApplyEvent
  <2>1. \/ raised' /\ pc' = "failed"
        \/ pc' = "loop"
        \/ pc' = "done" /\ LimitReached(Len(events_out), options.max_events)
    BY <1>10 DEF ApplyEvent
  <2>2. filter_locate' = filter_locate /\ events_out' = events_out
    BY <1>10 DEF ApplyEvent
  <2> QED
    BY <1>1, <1>2, <2>1, <2>2 DEF EndInv, EndsForAReason
<1>11. CASE UNCHANGED allVars
  BY <1>1, <1>2, <1>11
     DEF allVars, vars, runnerVars, EndInv, EndsForAReason, AtEnd, Scanned
<1> QED
  BY <1>3, <1>4, <1>5, <1>6, <1>7, <1>8, <1>9, <1>10, <1>11 DEF RunnerNext

-----------------------------------------------------------------------------
FilesInv == RInv /\ IInv /\ FilesMatch /\ EndInv

LEMMA FilesInvSuffices == FilesInv => FilesOfARun
BY DEF FilesInv, RInv, FilesMatch, EndInv, FilesOfARun, FilesFitTogether

LEMMA FilesInvInit == RunnerInit => FilesInv
<1> SUFFICES ASSUME RunnerInit PROVE FilesInv
  OBVIOUS
<1>1. FilesMatch
  BY NothingWrittenMatches DEF RunnerInit, Init
<1>2. EndInv
  BY DEF RunnerInit, EndInv, EndsForAReason
<1>3. IInv
  BY InitIInv DEF RunnerInit
<1> QED
  BY <1>1, <1>2, <1>3, RInvInit DEF FilesInv

LEMMA FilesInvStep == FilesInv /\ [RunnerNext]_allVars => FilesInv'
<1> SUFFICES ASSUME FilesInv, [RunnerNext]_allVars PROVE FilesInv'
  OBVIOUS
<1>1. IInv'
  BY RunnerStepsTheBook, NextIInv DEF FilesInv
<1> QED
  BY <1>1, RInvStep, FilesMatchStep, EndInvStep DEF FilesInv

(* golden/runner.py: whatever ends a run, and whatever capture it reads,   *)
(* state line k shows the top of the book the first k event lines leave,   *)
(* an event without a state line is one the book had a reason to refuse,   *)
(* and a run that has resolved its symbol does not fail on the framing of  *)
(* the file.                                                               *)
THEOREM FilesTellTheCapture == RunnerSpec => []FilesOfARun
BY FilesInvInit, FilesInvStep, FilesInvSuffices, PTL DEF RunnerSpec, allVars

(* The same of the run on a file of golden/stimulus.py, and before it.     *)
FeedFilesInv == SInv /\ FilesMatch /\ EndInv

LEMMA FeedFilesInvStep == FeedFilesInv /\ [StimulusNext]_stimulusVars => FeedFilesInv'
<1> SUFFICES ASSUME FeedFilesInv, [StimulusNext]_stimulusVars PROVE FeedFilesInv'
  OBVIOUS
<1>1. SInv'
  BY SInvStep DEF FeedFilesInv
<1>2. CASE Generate
  <2>1. /\ UNCHANGED <<vars, options, filter_locate, seen, fileVars>>
        /\ pc' \in {"generate", "resolve"}
    BY <1>2 DEF Generate, EmitAdd, EmitReduce, EmitDelete, EmitReplace, EndOfFeed, Write, inputVars
  <2>2. FilesMatch'
    BY <2>1, QuietMatches DEF FeedFilesInv, vars
  <2>3. options.symbol = None
    BY DEF FeedFilesInv, SInv, RunInv
  <2>4. EndInv'
    BY <2>1, <2>3 DEF EndInv, EndsForAReason
  <2> QED
    BY <1>1, <2>2, <2>4 DEF FeedFilesInv
<1>3. CASE Run
  <2>1. RunnerNext /\ pc # "generate"
    BY <1>3 DEF Run, RunnerNext, TakeLocate, ResolveSymbol, CannotResolve, ReadCut,
                ReadMalformed, ReadIgnored, ReadWanted, EndOfCapture, ApplyEvent
  <2>2. RInv /\ IInv
    BY <2>1 DEF FeedFilesInv, SInv, RunInv
  <2> QED
    BY <1>1, <2>1, <2>2, FilesMatchStep, EndInvStep DEF FeedFilesInv
<1>4. CASE UNCHANGED stimulusVars
  <2>1. UNCHANGED <<vars, runnerVars>>
    BY <1>4 DEF stimulusVars
  <2>2. FilesMatch'
    BY <2>1, QuietMatches DEF FeedFilesInv, vars, runnerVars
  <2>3. EndInv'
    BY <2>1 DEF FeedFilesInv, vars, runnerVars, inputVars, fileVars, EndInv, EndsForAReason,
                AtEnd, DirectoryPassFails, Directories, Scanned
  <2> QED
    BY <1>1, <2>2, <2>3 DEF FeedFilesInv
<1> QED
  BY <1>2, <1>3, <1>4 DEF StimulusNext

THEOREM FilesOfAFeed == StimulusSpec => []FilesOfARun
<1>1. StimulusInit => FeedFilesInv
  <2> SUFFICES ASSUME StimulusInit PROVE FeedFilesInv
    OBVIOUS
  <2>1. FilesMatch
    BY NothingWrittenMatches DEF StimulusInit, Init
  <2>2. EndInv
    BY DEF StimulusInit, EndInv, EndsForAReason
  <2> QED
    BY <2>1, <2>2, SInvInit DEF FeedFilesInv
<1>2. FeedFilesInv => FilesOfARun
  <2> SUFFICES ASSUME FeedFilesInv, pc # "generate" PROVE FilesOfARun
    BY DEF FilesOfARun
  <2>1. RInv /\ IInv
    BY DEF FeedFilesInv, SInv, RunInv
  <2> QED
    BY <2>1, FilesInvSuffices DEF FeedFilesInv, FilesInv
<1> QED
  BY <1>1, <1>2, FeedFilesInvStep, PTL DEF StimulusSpec
=============================================================================
