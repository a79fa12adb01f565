-------------------------------- MODULE Runner --------------------------------
(***************************************************************************)
(* The oracle runner, golden/runner.py, over the records of one BinaryFILE *)
(* capture, golden/itch_parser.py: it finds out which locate the wanted    *)
(* symbol has, then decodes message after message, writes an event line,   *)
(* applies the event to the golden book and writes a state line.  An       *)
(* exception ends the run and leaves both files as they are.               *)
(*                                                                         *)
(* A record of a capture is an event message, a Stock Directory, another   *)
(* sound message, or one of the damages the readers tell apart:            *)
(*   bad_event      an event message of a wrong length or side             *)
(*   bad_directory  a Stock Directory of a wrong length                    *)
(*   empty          a message without bytes                                *)
(*   cut            the file ends inside this record                       *)
(***************************************************************************)
EXTENDS GoldenBook, Sequences

CONSTANTS
  Stocks,     \* symbols a directory may name
  Locates,    \* the numbers instruments go by
  Captures,   \* sequences of records
  Options,    \* arguments of run_bytes
  None        \* an argument that is not given, a locate that is not known

(* EXECUTE and CANCEL are one operation for the book.                      *)
BookEvents ==
  [op : {"ADD"}, ref : Refs, side : Sides, price : Prices, shares : Quantities] \cup
  [op : {"REDUCE"}, ref : Refs, shares : Quantities] \cup
  [op : {"DELETE"}, ref : Refs] \cup
  [op : {"REPLACE"}, ref : Refs, new_ref : Refs, price : Prices, shares : Quantities]

Damages == {"bad_event", "bad_directory", "empty", "cut"}

Records ==
  [kind : {"event"}, locate : Locates, event : BookEvents] \cup
  [kind : {"directory"}, stock : Stocks, locate : Locates] \cup
  [kind : {"other"} \cup Damages]

ASSUME CapturesAssumption ==
  /\ Captures \subseteq Seq(Records)
  /\ Options \subseteq [locate : Locates \cup {None}, symbol : Stocks \cup {None},
                        max_messages : Nat \cup {None}, max_events : Nat \cup {None}]
  /\ None \notin Nat

VARIABLES
  capture,        \* the records of the input file
  options,        \* locate, symbol, max_messages and max_events of this call
  pc,             \* "resolve", "loop", "apply", "done" or "failed"
  filter_locate,  \* the locate events must have, or None for any
  seen,           \* source_messages_seen; also the msg_index of the next one
  events_out,     \* lines of the event file
  states_out,     \* lines of the state file
  peaks           \* peak_live_orders, peak_bid_levels, peak_ask_levels

fileVars == <<events_out, states_out, peaks>>
inputVars == <<capture, options>>
runnerVars == <<inputVars, pc, filter_locate, seen, fileVars>>

RunnerInit ==
  /\ Init
  /\ capture \in Captures
  /\ options \in Options
  /\ pc = "resolve"
  /\ filter_locate = None
  /\ seen = 0
  /\ events_out = <<>>
  /\ states_out = <<>>
  /\ peaks = [live_orders |-> 0, BUY |-> 0, SELL |-> 0]

-----------------------------------------------------------------------------
(* The record reader.  It stops at max_messages before it looks at what    *)
(* comes next, so damage behind that point is never seen.                  *)

LimitReached(count, limit) == limit # None /\ count >= limit

Scanned == {i \in DOMAIN capture : ~LimitReached(i - 1, options.max_messages)}

AtEnd == seen + 1 \notin Scanned

-----------------------------------------------------------------------------
(* Resolving the symbol is a pass of its own over the same records, which  *)
(* looks at nothing but directories.                                       *)

Directories == {capture[i] : i \in {j \in Scanned : capture[j].kind = "directory"}}

DirectoryPassFails ==
  \/ \E i \in Scanned : capture[i].kind \in {"cut", "empty", "bad_directory"}
  \/ \E d, e \in Directories : d.stock = e.stock /\ d.locate # e.locate

Fail == pc' = "failed" /\ UNCHANGED <<vars, inputVars, filter_locate, fileVars>>

StartWith(locate) ==
  /\ pc' = "loop"
  /\ filter_locate' = locate
  /\ UNCHANGED <<vars, inputVars, seen, fileVars>>

(* Without a symbol the given locate is taken unseen.                      *)
TakeLocate ==
  /\ pc = "resolve"
  /\ options.symbol = None
  /\ StartWith(options.locate)

ResolveSymbol ==
  /\ pc = "resolve"
  /\ options.symbol # None
  /\ options.locate = None
  /\ ~DirectoryPassFails
  /\ \E d \in Directories : d.stock = options.symbol /\ StartWith(d.locate)

(* Both filters given, a broken or ambiguous directory, no such symbol.    *)
CannotResolve ==
  /\ pc = "resolve"
  /\ options.symbol # None
  /\ \/ options.locate # None
     \/ DirectoryPassFails
     \/ \A d \in Directories : d.stock # options.symbol
  /\ Fail
  /\ UNCHANGED seen

-----------------------------------------------------------------------------
(* The loop.  The locate the book itself expects is filter_locate, so its  *)
(* own check cannot fail here.                                             *)

Wanted(record) ==
  /\ record.kind = "event"
  /\ filter_locate # None => record.locate = filter_locate

ReadCut ==
  /\ pc = "loop" /\ ~AtEnd
  /\ capture[seen + 1].kind = "cut"
  /\ Fail
  /\ UNCHANGED seen

ReadMalformed ==
  /\ pc = "loop" /\ ~AtEnd
  /\ capture[seen + 1].kind \in {"empty", "bad_event"}
  /\ seen' = seen + 1
  /\ Fail

(* Messages that are no events, broken directories among them, and events  *)
(* of other instruments.                                                   *)
ReadIgnored ==
  /\ pc = "loop" /\ ~AtEnd
  /\ capture[seen + 1].kind \notin {"cut", "empty", "bad_event"}
  /\ ~Wanted(capture[seen + 1])
  /\ seen' = seen + 1
  /\ UNCHANGED <<vars, inputVars, pc, filter_locate, fileVars>>

(* The event line is written before the book has seen the event.           *)
ReadWanted ==
  /\ pc = "loop" /\ ~AtEnd
  /\ Wanted(capture[seen + 1])
  /\ seen' = seen + 1
  /\ pc' = "apply"
  /\ events_out' =
       Append(events_out, [msg_index |-> seen, event |-> capture[seen + 1].event])
  /\ UNCHANGED <<vars, inputVars, filter_locate, states_out, peaks>>

EndOfCapture ==
  /\ pc = "loop" /\ AtEnd
  /\ pc' = "done"
  /\ UNCHANGED <<vars, inputVars, filter_locate, seen, fileVars>>

LastEvent == events_out[Len(events_out)]

(* OrderBook.apply with the event just written.                            *)
BookApply(e) ==
  \/ e.op = "ADD" /\ ApplyAdd(e.ref, e.side, e.price, e.shares)
  \/ e.op = "REDUCE" /\ ReduceOrder(e.ref, e.shares)
  \/ e.op = "DELETE" /\ ApplyDelete(e.ref)
  \/ e.op = "REPLACE" /\ ApplyReplace(e.ref, e.new_ref, e.price, e.shares)

Peak(old, new) == IF new > old THEN new ELSE old

LevelCount(lv, side) == Cardinality({price \in Prices : lv[side][price] # NoLevel})

LiveOrders(table) == Cardinality({ref \in Refs : Live(table, ref)})

(* Mutant: the state line is written first, of the book as it was.         *)
WriteState_BeforeApply ==
  /\ states_out' = Append(states_out, [msg_index |-> LastEvent.msg_index, bbo |-> bbo])
  /\ peaks' = peaks

WriteState ==
  /\ states_out' = Append(states_out, [msg_index |-> LastEvent.msg_index, bbo |-> bbo'])
  /\ peaks' = [live_orders |-> Peak(peaks.live_orders, LiveOrders(order_table')),
               BUY |-> Peak(peaks.BUY, LevelCount(levels', "BUY")),
               SELL |-> Peak(peaks.SELL, LevelCount(levels', "SELL"))]

(* max_events is looked at only after an event, so at least one is applied. *)
ApplyEvent ==
  /\ pc = "apply"
  /\ BookApply(LastEvent.event)
  /\ IF raised'
     THEN pc' = "failed" /\ UNCHANGED <<states_out, peaks>>
     ELSE /\ WriteState
          /\ pc' = IF LimitReached(Len(events_out), options.max_events)
                   THEN "done" ELSE "loop"
  /\ UNCHANGED <<inputVars, filter_locate, seen, events_out>>

RunnerNext ==
  \/ TakeLocate
  \/ ResolveSymbol
  \/ CannotResolve
  \/ ReadCut
  \/ ReadMalformed
  \/ ReadIgnored
  \/ ReadWanted
  \/ EndOfCapture
  \/ ApplyEvent

RunnerSpec == RunnerInit /\ [][RunnerNext]_<<vars, runnerVars>>

-----------------------------------------------------------------------------
(* What the files must say, computed from the capture and from the meaning *)
(* of the events alone.                                                    *)

Meaning == INSTANCE OrderEvents
           WITH Events <- {}, StrayOps <- {"REDUCE", "DELETE", "REPLACE"}

TablesOf(lines) ==
  LET f[n \in 0 .. Len(lines)] ==
        IF n = 0 THEN Meaning!NoOrders
        ELSE Meaning!Apply(f[n - 1], lines[n].event)
  IN  f

TableAfter == TablesOf(events_out)

(* The event file is the wanted part of what was read, in its order.       *)
EventsAreTheWanted ==
  /\ {events_out[k].msg_index : k \in DOMAIN events_out} =
       {i \in 0 .. seen - 1 : Wanted(capture[i + 1])}
  /\ \A k \in DOMAIN events_out :
       /\ events_out[k].event = capture[events_out[k].msg_index + 1].event
       /\ \A j \in 1 .. k - 1 : events_out[j].msg_index < events_out[k].msg_index

(* One event line has no state line exactly while it is applied, or when   *)
(* it is the one the book refused.                                         *)
OneLineApart ==
  Len(events_out) - Len(states_out) = IF pc = "apply" \/ raised THEN 1 ELSE 0

(* State line k belongs to event line k and shows the orders that event    *)
(* lines 1 to k leave.                                                     *)
StatesFollowEvents ==
  /\ \A k \in DOMAIN states_out :
       /\ states_out[k].msg_index = events_out[k].msg_index
       /\ states_out[k].bbo = BboOf(TableAfter[k])
  /\ LET sizes == {0} \cup {LiveOrders(TableAfter[k]) : k \in DOMAIN states_out} IN
       peaks.live_orders \in sizes /\ \A n \in sizes : n <= peaks.live_orders

(* The book refuses only what the orders so far do not allow, or what      *)
(* leaves a level too wide.                                                *)
RefusedForAReason ==
  raised =>
    LET table == TableAfter[Len(events_out) - 1]
        e == LastEvent.event
    IN  \/ overflowed
        \/ e.op = "ADD" /\ Live(table, e.ref)
        \/ e.op # "ADD" /\ ~Live(table, e.ref)
        \/ e.op = "REDUCE" /\ Live(table, e.ref) /\ e.shares > table[e.ref].shares
        \/ e.op = "REPLACE" /\ e.new_ref # e.ref /\ Live(table, e.new_ref)

(* A run that has resolved its symbol has seen the whole input, so it is   *)
(* not stopped by its end later; and one that ends has reached a limit.    *)
EndsForAReason ==
  /\ pc = "failed" /\ filter_locate # None /\ options.symbol # None =>
       raised \/ capture[seen].kind = "bad_event"
  /\ pc = "done" =>
       AtEnd \/ LimitReached(Len(events_out), options.max_events)

(* golden/runner.py promises "one message-indexed JSONL stream for         *)
(* normalised events" and one "for book states": whatever ends the run,    *)
(* the two files fit together and tell what the capture holds.             *)
FilesFitTogether ==
  /\ EventsAreTheWanted
  /\ OneLineApart
  /\ StatesFollowEvents
  /\ RefusedForAReason
  /\ EndsForAReason

(* ... from the moment a run begins.                                       *)
FilesOfARun == pc \in {"resolve", "loop", "apply", "done", "failed"} => FilesFitTogether
=============================================================================
