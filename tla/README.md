# Verification of the ITCH feed handler and order book

TLA+ modules, TLC configurations and TLAPS proofs for the FPGA ITCH 5.0 feed
handler (SystemVerilog in `rtl/`), its Python golden model (`golden/`) and the
demo application (`demo/`). Paths below are relative to the repository's root.

    tlc -config MCGoldenBook.cfg MCGoldenBook.tla      one run (section 4)
    tlapm GoldenBookProofs.tla                         one set of proofs (section 6)

## 1. Inventory

Datagrams travel top to bottom; the golden model and the demo stand beside it.

| Component | Source | State | Operations | What makes it correct |
|---|---|---|---|---|
| Ethernet MAC and PHY | `rtl/taxi/` (third party) | | | external |
| Source boundary, mux, lane rewire | `rtl/ingress_source_boundary.v`, `axis_source_mux.sv`, `lane_rewire.sv` | selected source | select, pass a beat | no beat of the other source inside a packet |
| **Frame cracker** | `rtl/frame_crack.sv` | header position, carry, verdict | strip Ethernet, IPv4 and UDP, drop foreign packets | the payload length is the UDP length; a bad packet leaves no trace |
| **MoldUDP64 deframer** | `rtl/mold_deframe.sv` | header beats, parser, descriptor, compactor, reservoir, credit, body and length FIFOs | parse the header, ask the guard, pass or drop the body | a dropped packet reaches nobody, lengths match bodies |
| **Sequence guard** | `rtl/mold_seq_guard.sv` | expected number, stale flag, gap registers | classify one header, update, clear | nothing twice, nothing out of order, nothing lost unreported |
| **Data realigner** | `rtl/data_realign.sv`, `ingress_data_realign_top.sv` | byte reservoir, length FIFO | find message boundaries, decode events | one event per supported message, under back-pressure |
| Control registers | `rtl/itch_csr.v` | configuration registers | read, write | register file |
| **Event FIFO** | `rtl/event_async_fifo.v` (model: `tb/rtl/event_async_fifo_sim.sv`) | Gray pointers in two clock domains | write, read | no event lost, doubled or read early |
| **Symbol router** | `rtl/symbol_router.sv` | one output register, valid of three books | accept, hold, discard | each event goes to its book once, with its base price |
| **Order book pipeline** (three of them) | `rtl/ob/` | order table of hash buckets, overflow CAM, price levels, occupancy bits, best price, fifteen stages | ADD, EXECUTE/CANCEL, DELETE, REPLACE | answers equal those of a book that does one event at a time |
| **Top and BBO multiplexer** | `rtl/order_book_top.sv` | three FIFOs, rotating counter | store an answer, publish | answers of a book stay in order and none is lost |
| **Golden book** | `golden/order_book.py`, `contracts.py` | order table, level dictionaries | `apply`, `bbo` | levels are the aggregate of the orders, a failing call changes nothing |
| **Parser and runner** | `golden/itch_parser.py`, `runner.py` | place in the capture, locate, two output files | resolve the symbol, read, write an event line, apply, write a state line | the two files fit together, whatever ends the run |
| **Encapsulator** | `golden/network_encapsulator.py` | frames | group, number, lose, repeat, close | frames whose decoder finds the messages again |
| **Stimulus** | `golden/stimulus.py` | table of live orders, next reference | write ADD, EXECUTE, CANCEL, DELETE or REPLACE at random | every message is legal after the ones before it |
| **Demo** | `demo/app.py`, `hardware.py`, `oracle.py`, `generate_oracle.py`, `static/app.js` | oracle sequences, mirror of orders, verifier, run state under a lock, page | generate, start, replay a packet, wait for its BBO, compare, poll, render | one run at a time; a verdict that is exact; a late BBO is not taken for the next one |

Components in bold are modelled. How they interact: the deframer gives the guard
one pulse per datagram; the guard's verdict decides whether the body goes on to
the realigner; decoded events cross a clock domain in the event FIFO, which holds
its head until the router takes it; the router hands it to one of three books over
one shared register and a valid/ready handshake; each book publishes one best bid
and offer per event into its FIFO in the top module, and a rotating counter lets the
three FIFOs publish. The demo writes its oracle with the golden book, sends the same
capture to the board packet by packet, predicts which packets are answered, and hands
each BBO it reads to the verifier; the server's worker thread shares the result with
the HTTP handlers that the page polls.

What is hard in it: the pipeline applies up to four events at once to RAMs that are
read three to nine cycles before they are written, with four separate forwarding
paths, a split REPLACE and a stall that stops some stages and not others; the
network side loses, repeats and reorders datagrams; shared registers and FIFOs
have no test for full. `PROJECT.json` lists each such hazard with its line and the
properties about it. The unit tests of the book send one event and wait for its
answer (`tb/tests/unit/test_order_book.py:205-215`), so overlapping events are
exactly what they do not reach.

## 2. Plan

Modelled so far, in this order: the sequence guard, the meaning of order books and the
golden book, the pipeline, the router and the multiplexer; then the demo around a board
that is what router and book promise, the feed ingress from the encapsulator's frames to
decoded events, the runner around the golden book, the generator of its random feeds, and
the event FIFO in front of the router. `Ingress` composes
`NetworkEncapsulator`, `FrameCrack`, `MoldDeframe` (with `SeqGuard` inside) and
`DataRealign`; `EventCrossing` composes `EventFifo` and `SymbolRouter`; `DemoApp` extends
`DemoReplay`, which uses `OracleVerifier` and `LimitOrders`; `Runner` extends `GoldenBook`
and `Stimulus` extends `Runner`. What is left:

1. `OrderBookSystem`: router, several `TopOfBook` services and multiplexer in one
   specification, refining a service per stock; the pipeline's admission (`ready_o`
   for another event than the one in the register) as the router's environment.
2. A run of the pipeline with a full CAM (section 7), the CLEAR sweep, crossed books.
3. Proofs: that the events of undamaged frames are their messages (`EventsAreMessages`), on top of the
   books of `PromisesAreKept`.
4. The handshakes of `rtl/itch_csr.v`, whose BBO snapshot `DemoReplay` reads as a register.

## 3. Modules

| Module | Stands for |
|---|---|
| `InOrderFeed` | abstract: numbers are handed on once, upwards, and skipped ones are on record |
| `SeqGuard` | `rtl/mold_seq_guard.sv` |
| `LimitOrders` | what orders, levels and best prices mean, for any representation |
| `GoldenBook` | `golden/order_book.py` |
| `Runner` | `golden/runner.py`, `golden/itch_parser.py` |
| `Stimulus` | `golden/stimulus.py` and the run on the file it writes |
| `OrderEvents` | what each event does to a table of live orders, and which events a feed may send |
| `TopOfBook` | abstract: one answer per event, in order, each the top of the book after its event |
| `OrderBookPipeline` | `rtl/ob/*.sv`, cycle by cycle |
| `EventQueue` | abstract: a bounded queue whose sides are told of room and items late, never wrongly |
| `EventFifo` | `tb/rtl/event_async_fifo_sim.sv` |
| `SymbolRouter` | `rtl/symbol_router.sv` |
| `EventCrossing` | FIFO and router as `tb/rtl/ethernet_to_bbo_top.sv` connects them |
| `BboMux` | the FIFOs and the round robin of `rtl/order_book_top.sv` |
| `FeedBytes` | the bytes of a feed, as far as anything tells them apart |
| `NetworkEncapsulator` | `golden/network_encapsulator.py`: from messages to frames and back |
| `FrameCrack`, `MoldDeframe`, `DataRealign` | the RTL files of these names |
| `Ingress` | `rtl/ingress_data_realign_top.sv`: the three stages between a frame source and an event sink |
| `OracleVerifier` | `demo/oracle.py` |
| `DemoReplay` | `demo/generate_oracle.py`, `demo/hardware.py` and the board they drive |
| `DemoApp` | `demo/app.py`, `demo/static/app.js` around a replay |
| `MC...` | instances for TLC |
| `...Proofs` | theorems |

Operators called `X_Something` with a comment "Mutant" are wrong variants of `X`
that some property of the runs must reject. They are used by nothing else.

**SeqGuard.** A step is a clock edge with `seq_valid_i`; one action per branch of the
`always_ff` block (`FirstStatus`, `StatusAhead`, `StatusKept` for heartbeats and end
of session, `AcceptDue`, `AcceptAhead`, `DropLate` for data), plus `ClearStale`, which concerns the guard as a
unit: `mold_deframe.sv:457` ties `clear_stale_i` low. The
registers have the names of the source; `first`, `forwarded` and `reported` are
history.

**GoldenBook.** A step is one call of `OrderBook.apply`. `raised` says how it ended, and
what a raising call has written by then stays written: `_add_order` stores the order
before the level is built. `bbo` is the method of that name. Field validation is
represented by the ranges of the constants; the width check of `Level` is modelled.

**Runner.** A step is one pass of the loop in `run_bytes` up to `book.apply`, or the call
of `apply` with what follows it. `ResolveSymbol` and `CannotResolve` are the first pass
over the directories as a whole: nothing is written during it. A record is an event, a directory,
another message, or one of four damages: those the readers tell apart, for what one pass
refuses (`bad_directory`) the other ignores. `pc = "failed"` is an exception. `msg_index` counts from
`start_index` = 0.

**Stimulus.** A step adds one message to the file (`EmitAdd`, `EmitReduce` for EXECUTE and
CANCEL, `EmitDelete`, `EmitReplace`), ends it, or is a step of the runner that then reads it.
Every random choice is free within its range, probabilities aside; references are only
compared, so the next one is any unused one. `lives` is history: the generator's table after each message.

**OrderBookPipeline.** A step is a clock edge after the CLEAR sweep: `Accept` (handshake),
`EnterReplacement` (the ADD half of a REPLACE, one cycle after its DELETE half),
`EnterNothing` and `Stalled`. Every step does everything the design does on that edge
(`Pipeline`). `stage[1..10]` are REPCHECK, IDLE, IDXREQ, IDXSEARCH, UPDATERDTBL,
ISSUEBOOKREAD, two RAM delays, UPDATERDBOOK/UPDATEWR and the register in front of
BBOEVAL; `eval` is BBOEVAL/BBORESOLVE and `line` the delays in front of BBOOUT. A token
in a stage carries what the design keeps in the registers of that stage. A RAM read of
several cycles is sampled when issued and travels with its token, so that a write in
between is seen only if a forwarding path shows it, as in the design. A CAM entry that ends keeps its data
behind a tombstone, and a lookup in flight may still read it. Order numbers
and prices are small; the hash is a constant. `ledger` and `expected` are history:
the orders accepted so far and the answers owed.

**SymbolRouter.** A step is a clock edge: `Hold` (the book in question is not ready),
`Idle`, `Route`, `Discard`. The books' `ready` is free on every edge, which covers what
a real book does; the source holds its event until taken. `owed` and `taken` are
history.

**EventFifo.** A step is an edge of the writer's clock, of the reader's, or of both. Each side
keeps its own count and a copy of the other's, two of its own edges old; when both have an
edge, every bit of a count in change may be sampled old or new, which is what Gray code is
for. A Gray register always is the code of its binary count (the two are written together)
and is an operator here. In **EventCrossing** the reader is the router: what the FIFO
shows is the router's input, and the router's `ready_o` takes it.

**BboMux.** A step is a clock edge: `Publish` or `Pass`, and each book may deliver an
answer if the last one is `SPACING` edges old. This spacing is not an assumption
without a base: it is `AnswersSpaced`, checked on the pipeline.

**Ingress.** A step is a clock edge (`Clock`) of all three stages and of a source and a sink
that hesitate at will. Each stage's module gives its outputs as operators and its
registers' next values as one `...Step`, with the names of the source. A byte is its
value, where something reads it, and the numbers of the messages it belongs to, which
the hardware does not have: so an event shows whose bytes it was made of. Frames are
what `encapsulate_bytes` makes of a few messages, whole or damaged; the Ethernet, IPv4 and UDP
fields are one verdict (`headers_ok`) and the declared length. `forwarded`, `reported` and `dropped` are history.

**DemoReplay.** First the oracle is generated, message by message (`Generate`, `WriteOracle`);
then a step is one register access or message of `hardware.py` (`ReadMessage`, `PollCounter`,
`ReadBid`, `ReadAsk`), one packet of the board (`Board`, or `FaultyBoard`, which answers
wrongly) or the time-out. The board is external: it does what `SymbolRouter` and `TopOfBook`
promise, with the known half-dropped REPLACE. **DemoApp** adds the server's worker
(`WorkerStep`, `WorkerExits`), the POST handler in three steps, as its lock is taken and
left, and the page: `Poll`, `Answer`, `Render` may overlap and overtake each other.

## 4. Runs

| Run | Distinct states | What it shows |
|---|---|---|
| `seq_guard` | 118,000 | two specifications side by side. The guard alone: all headers with numbers up to six, up to three messages each, clear in any cycle: nothing forwarded twice or out of order, every loss reported, gap registers true, a clear hides no new gap; refines `InOrderFeed`. The ingress: every grouping, loss, copy and closing of a feed of four messages, a packet that fills all buffers, damaged packets with a sound copy: events are the sent messages, lengths and bytes never part, everything is accounted for and consumed |
| `golden_book` | 127,000 | the book alone: three orders, three prices, quantities 0 to 2, levels up to 5 so that the width error happens: no drift, correct BBO, defensive checks dead, failing calls change nothing. The runner: captures of up to five events between directories and damages, all filters and limits: `FilesFitTogether`. The generator: every feed it may write is legal and the book follows it (`FeedIsValid`) |
| `book` | 321,000 | chains of REPLACE in shared buckets, replaces that keep their reference (`tb/tests/unit/test_order_book.py:478`), any three events on both sides, events at the smallest distance, a bucket that overflows into the CAM and back: each order in one place, levels right, refines `TopOfBook`, answers spaced, every event accepted and answered |
| `symbol_router` | 91,000 | two books with overlapping windows, one stock without a book, from any source that holds its event; and the same router behind a FIFO of four slots, the clocks in any order: `FifoIsAQueue`, a refinement of `EventQueue` |
| `bbo_mux` | 554,000 | three books at full rate, FIFOs of two entries |
| `demo` | 487,000 | two stocks: prices in and out of the window, messages nobody waits for, a board with up to two wrong answers, a page whose polls overlap and whose button is clicked twice: the mirror is the board, no wait is in vain, verdicts are exact, one replay at a time, the page catches up |
| `book_chunk_raw`, `book_cam_race`, `book_stray_replace`, `book_shared_base`, `demo_oracle`, `ingress_partial` | | violations, section 7 |

The longest (`book`, `demo`, `symbol_router`) take two to four minutes with two workers.

Bounds. `Streams` of the pipeline names what a behaviour may send: how many events, of which
set, at which distance, with which buckets. Four or five events are enough to have
three tokens between lookup and write and a fourth that meets what they left. Waits
are counted in unstalled cycles. The smallest distance the admission allows is four; the streams
with several prices of one occupancy word leave five or more, because at exactly four two of
them collide (section 7); the stream at the smallest distance has one price per word. Buckets have one or two slots instead of three, so that they overflow with two
or three orders; the CAM of `book` has four entries, which its streams never fill (a full CAM is in
section 7), that of the violations one or two. `SHARES_MOD` is above
every sum a run can reach. The passing runs send what an exchange sends: no reduction
beyond the order, no reference in use twice, no crossed book, but deletions and
reductions of orders that were never seen (after a gap). The FIFOs of `bbo_mux` have two
entries instead of sixteen, which makes the claim stronger; the event FIFO has four, the
fewest its full test allows, and a stream of three different events, so that a slot lost, doubled or
overwritten shows, because three does not divide four. Order references of the
golden book and BBO values of the multiplexer are symmetric; nothing is ordered by
them. Captures of the runner use any two references; all bodies of up to two events
stand between every head and tail, those of three alone. The generator writes up to four messages
over three references and three prices, enough for a replacement by the same reference or by a new
one, a clamp on either side, and an order reduced in parts and then named no more.

`Feeds` of the ingress are four messages of nine, ten and twelve bytes, so that with two bytes of
length every alignment to beats of eight occurs, in packets of one to three, and one
packet of ten that makes every buffer full while the sink waits. `LEN_FIFO_DEPTH` is 2,
the smallest the code accepts (the default is 16). `Scenarios` of the demo bound the messages of a
file (seven or eight, of which four vary), wrong answers, clicks and polls; those of `demo_oracle`
have no price above the window, so that only a price below the base can keep an order from the board; the completion counter
counts modulo 4, so that it wraps.

Deadlock is checked in every run but the demo's, which ends when run and page are done. A pipeline
without events still clocks; a runner that has ended stays as it is (`Ended`).

## 5. Liveness and fairness

`EverythingAnswered` (pipeline) assumes that the clock keeps running, `WF_vars(Next)`:
the source offers what it has and stops at the end of its stream. `SourceServed` (router)
assumes the clock and that each book is ready again and again; that is what
`EverythingAnswered` gives, as a book to which nothing is offered drains and opens. Behind the FIFO
`FifoIsAQueue` and `SourceServed` assume that either clock again and again has an edge the other has
not (`WF(FifoWrites)`, `WF(FifoReads)`): the clocks of 156.25 and 250 MHz are unrelated
(`rtl/event_async_fifo.v`, `RELATED_CLOCKS(0)`).

`FeedConsumed` (ingress) assumes that again and again the clock ticks while the source has no hole
and the sink is ready, `WF(Clock(~AllSent, TRUE))`: a frame source ends its frames and the
router takes its events (`SourceServed`). The demo's `RunEnds` and `PageCatchesUp` assume
that the board takes packets off the wire, that the worker, the handlers and the page's
timer run, and that an answer that is asked for again and again comes through once
(strong fairness: polls may fail). A time-out is possible at any wait and never forced.
No other fairness is used; the actions of one clock edge are not scheduled separately.

## 6. Proofs

Everything is proved from the assumptions named in the modules, which TLC also
evaluates on each run.

- `IngressProofs`, in five sections:
  - The guard alone: its invariants, its action property and `Spec => FeedSpec`; also `GapIsFinal` and
    `ForwardOnce`, which `FeedSpec` implies and no run repeats. The invariant adds to the checked ones that
    the accounted numbers are exactly the interval from the first to the expected one (`Accounted`); without
    it a gap might start below a number already forwarded. Any packets, any sizes; numbers do not wrap
    (`mold_seq_guard.sv:6` declares that out of scope).
  - Words and lengths: what taking and leaving do to a word; the sum of a queue of lengths as the size of
    a finite set.
  - The registers of cracker, deframer and realigner, for any frames at all (`FeedsAssumption`: a payload is
    a sequence of bytes): `DataIsWellFormed`, and from it that reservoir, body FIFO and FIFO of lengths
    never take more than they have room for (`NoBufferOverflows`).
  - The guard inside the deframer: what the deframer asks it is a header with numbers in range, at most one
    in a datagram, so the guard's invariants hold of the whole ingress, and the ingress refines `SeqGuard`
    and `InOrderFeed`. The refinements assume `HeadersAllowed`: the guard's alphabet contains every header
    two bytes can hold, as its ports do.
  - The two sets of books. The deframer's (`DeframerBooks`) need no assumption: the bytes of the lengths it has
    found are the bytes it holds and still waits for (`OwedInv`), which needs to know where the last word of a
    datagram can be (`LastInv`), what is empty between datagrams (`PhaseInv`), and that nothing follows a word
    presented as the last (`PresentedInv`). The realigner's join them (`PromiseInv`): what it announces is what the
    deframer may still send. `PromisesAreKept` derives `LengthsCoverBytes` under two hypotheses about the
    feed. `GivesUpNothingPromised`, that no datagram is given up once one of its lengths was accepted, is
    necessary as well as sufficient: giving up clears `released_bytes`, the realigner's books stay, and
    `ingress_partial` is what happens then. `NoShortMessage`, that no message is shorter than a word: then at most
    one message ends in a word, which the realigner takes for granted (its PAYLOAD_OVERFLOW); the shortest
    message of ITCH 5.0 has twelve bytes. Both hold throughout the feeds of `seq_guard`, damaged packets
    included.
- `GoldenBookProofs`: for any finite set of references and any prices, `TypeOK` and
  `LevelsMatchOrders` are inductive together; from them the BBO is the top of the live
  orders and no defensive check can fire. `RaisingIsAtomic` is about each step alone. All
  but type correctness are until the first level overflow, which is why `overflowed`
  is there: after it the property is false, as the order of the failing call is stored and its level is not.
  The lemmas before it say how adding, removing or changing one order changes the orders and
  shares at a price, counted as cardinalities of finite sets.
- `RunnerProofs`: for every capture and any arguments the event file is the wanted part of what was read
  and at most one line ahead of the state file (`FilesStayInStep`); a run is a behaviour of
  `GoldenBook`, so the theorems above hold for the book the runner prints (`RunnersBookIsRight`). The
  invariant adds the phases of a run: nothing is written before the locate is known, a
  refused event ends it. On top of it, `FilesTellTheCapture` is all of `FilesOfARun`. What state line k must
  show is a recursion over the event lines (`TablesOf`), and the run itself is the induction: the invariant
  says that the recursion has exactly one solution for the lines written so far (`Unrolls`), a new line
  extends it without changing what it says of the lines before (`LineUnrolls`), and until an event is
  refused the book's orders are its last value (`FilesMatch`). A refusal is justified because
  the book takes every event its orders allow (`BookTakes`, `BookRefuses`); an end is, because a pass over the
  directories that went through has seen every record the loop can reach (`EndInv`). `FilesOfAFeed` says the
  same of runs on generated files.
  Of the generator, in the same module: for any orders, prices, lots and length of feed the generator's feed is legal, and the
  runner's book follows it until a level overflows (`FeedsAreValid`). The invariant has three layers:
  of the feed (`FeedInv`: each message was allowed by the table before it and made the table after it,
  bids stay at or below the base and asks above, no live reference is unused), of the run (`RunInv`: what has been
  applied is a prefix of the feed, on top of the runner's and the book's own invariants), and
  `BookFollows`, which joins them: the book's table is the generator's after as many messages. Without the
  first an accepted step might still refuse the next event.
- `DemoReplayProofs`: for any capture, prices, windows, a counter of any width, a board that may answer
  wrongly, and time-outs anywhere. Four invariants, each resting on the ones before it:
  - `MInv`, for the mirror: between two messages the mirror is the board's tables and nothing on the wire will
    complete (`AtRest`); while an answer is awaited exactly the last packet will (`Pending`), or it has and
    committing the plan would make the mirror right again (`Completed`). From it
    `MirrorTracksBoard`, `NeverWaitsInVain` and `CounterNeverSurprises`.
  - `VInv`, for the verdict: as long as nothing is latched each stock is a prefix of its oracle and as long as
    its position; once something is, some stock will never be a prefix again (`Tracking`); the counters
    belong together (`Counted`). From it `VerdictExact`, resynchronisation included.
  - `LInv`, for the losses: the position of a stock is never further than the end of any way to find
    the updates seen in the oracle (`Greedy`), so whatever was passed over is a loss (`PassedOver`). From it
    `LossesCounted`. That the first later match is never too far is an exchange argument on those ways.
  - `HInv`, for the honest board. The oracle is written before the replay and its books are gone by then,
    so the invariant says that some sequence of states, one per message of the file, leads to the oracle
    (`Trace`) and that the board holds after n messages what the n-th state holds, in cents
    (`Following`). The lemmas say that conversion to cents keeps best prices, levels and every effect of a
    message (`TopInCents`, `AppliedInCents`), and that two updates differ on the registers if and
    only if they differ in the oracle (`UpdatesAreSeen`). From it `HonestBoardPasses`.

  The proof of the last found what its hypothesis lacked: an order of zero shares makes a level of size 0 in
  the oracle, which on the registers is an empty side. `Representative` now says that orders have shares.
- `DemoAppProofs`: for any captures, clicks and boards. For `OneReplay` the invariant says what
  `_worker_lock` protects (`LockHeld`): while one request holds it no worker is alive, the board is at rest, and
  the state is already about the run whose thread comes next. For `PassIsEarned` and `SnapshotCoherent`
  it ties the state to the verifier of the replay (`SInv`) and says that every state copied for a reader was
  the server's at some moment. The replays it talks about are behaviours of `DemoReplay` (`AppRunsReplays`).
- `OrderBookPipelineProofs`: for any hash, depths, prices, feed and entry gap, `AnswersSpaced`. There only where
  tokens are matters. The fifteen stages are read as one row (`Pipe`); whatever follows a token that
  will be answered keeps its distance (`Spaced`), the entry counter counts the empty stages at the
  entrance (`GapCounts`), the held half of a REPLACE is only behind its first half (`HeldBehind`),
  and a stall holds back nothing within the gap of what stalled (`StallSpaced`).
  `PipelineTypes` is `TypeOK`, for which the data matters. The invariant says which fields a token has in
  each stage and of which type (`TokenTypes`, from `Entered` to `Indexed`), and the same of every store and
  register (`StorageTypes`, `BestTypes`, `AdmissionTypes`). It needs that what is forwarded from any stage into another has
  the type of what was read, that indices and rows computed by division stay in range, and that the table of
  a legal feed stays one. The one hypothesis is `OrdersHaveShares`, about the feed. Of the CAM nothing is
  assumed: an entry read a stage after it was matched may by then hold another order, one that ended (kept
  behind its tombstone) or nothing since the CLEAR sweep (`Blank`), all of which have the type of an entry;
  and the indices of several matches, joined bit by bit, are still an index (`JoinedTypes`).
- `EventCrossingProofs`: what the router's shared register means is invariant (`RegisterIsMeant`);
  hence nothing is lost and each book takes its own, for any windows and ready signals. Of the
  FIFO, for any depth that is a power of two, any items and any order of the clocks' edges: the counts are
  numbers of writes and reads modulo twice the depth (`Counted`), each side's copies of the
  other's count are counts the other really had, and a count sampled while its Gray code changes is the
  old or the new one, because exactly one bit differs. Bits are halves of numbers and powers of two
  sizes of sets of subsets, so no recursion is met. So the FIFO keeps the safety part of `EventQueue`
  (`FifoKeepsItsPromise`), a router behind it is the router of `SymbolRouter` (`RouterBehindTheFifo`), and
  what is proved of that holds behind the FIFO (`CrossingKeepsTheRegister`).
- `BboMuxProofs`: for any number of books, FIFO depth from two, and spacing above the
  number of books. The age of an owed answer plus the distance to its book's turn never
  exceeds one round (`OwedIsYoung`), and a book's next answer is later than that; so a FIFO
  holds at most one.

TLC finds no state of its run that violates any of these invariants (`Greedy` with its sets of places
kept within the oracle); only `HInv`, which quantifies over sequences of states, is out of its reach.

Only model-checked:
- What the pipeline's data means: `OrdersStored`, `LevelsAgree`, `OneCopy` and the refinement of
  `TopOfBook`. They hold for the streams of the run and not for every one: two overflowing events
  may be given one CAM entry, and two prices of one occupancy word may meet at the smallest distance
  (section 7), so no invariant of the specification implies them; a theorem would need the absence of
  both as an assumption about a feed, which no part of the design provides.
- The ingress: `EventsAreMessages` and `AllAccountedFor` relate events to what the encapsulator wrote, a
  fold over the bytes of all frames, which three modules take apart again; the first is false for packets
  that are too long (`ingress_partial`). Proved are the parts that do not look into the bytes: the books, and
  the first conjunct of `AllAccountedFor`, at rest or not (`IngressForwardsTheRest`).
- The liveness part of `FifoIsAQueue`; its safety part is `FifoKeepsItsPromise`.
- All liveness properties: fairness and ENABLED are beyond the prover.

Induction over data is possible only by hand: the library's induction theorems cannot be used, but a
least counterexample among the natural numbers exists (`LeastNatural`, and from it `InductionUpTo` for a
property given as a set), and sums were written as sizes of finite sets (`Places`, `ShareUnits`, `SumOf`)
so that no recursion is met. Where a recursive function follows the steps of a behaviour, as `TablesOf`
does, the behaviour's own induction carries its existence along.

## 7. Where code and its documents disagree

- `book_chunk_raw`: an occupancy word is read four stages before it is written and only the
  word written one cycle ago is forwarded (`order_book_v4.sv:597-602`). Two events accepted
  exactly four cycles apart at different prices of one 64-price word: the second
  write erases the first bit, and the level is forgotten. `MIN_ENTRY_GAP` is said to avoid
  raw hazards (line 98); five would.
- `book_cam_race`: a free CAM entry is chosen nine cycles before it is written and only
  events of one bucket are kept apart, so two overflowing buckets can take the same entry.
- `book_stray_replace`: a REPLACE of an unknown order is dropped in its DELETE half only; the
  ADD half creates an order on the side of the previous REPLACE
  (`docs/pipelined_order_book.md:40`).
- `book_shared_base`: stages 3, 6 and 15 use the live `base_price_i`, which the router rewrites
  for another book's event (`order_book_v4.sv:812, 917, 1232`), while the ports are called
  `latched_base_price_i`.

- `demo_oracle`: a state with one side below the base price is left out of the oracle as a whole
  (`generate_oracle.py:60-70`), the side the board does show included; a board that works is
  then failed. Line 264 calls the sequences hardware-visible. In the trace two asks of one stock stand at one
  price in the window, a bid of 200 cents comes in below the base, and one share of an ask is cancelled: the
  board shows the smaller ask, the oracle has no such state. The files of this run have no price above the
  window. An ask up there is another divergence, the opposite one: lines 67-72 record it, and the router drops
  it, so the oracle has a state the board never shows.
- `ingress_partial`: when a later message of a packet is too long, the deframer drops the rest
  (`mold_deframe.sv:1118-1132`), but the realigner keeps the length and bytes it has taken, and the
  next good packet completes them to an event that was never sent.
  `docs/networking_ingress.md:548` says "No partial malformed message emission".

Others were met and have no run of their own: a full CAM, where the code
overwrites entry 0 (`ob_idx_req.sv:79`) and `docs/pipelined_order_book.md:38` promises a drop, and where a
REPLACE in a full bucket needs a free CAM entry for a moment, as its ADD half looks for a slot before
its own DELETE half has freed one. An order in the CAM that is replaced under its own reference needs one
too, and stays in the CAM whatever its bucket has free, because the ADD half still finds the entry its DELETE
half is about to end (`ob_update_read_tbl.sv:95`). A header that counts more
messages than its body holds, after which the deframer waits in ST_BODY for good
(`mold_deframe.sv:822`; tested is only the opposite, `tb/tests/unit/test_mold_deframe.py:1551`); a frame
that ends after some of its words were sent, which glues the next datagram to it
(`frame_crack.sv:493`); `Thread.start` failing in `demo/app.py:234`, which leaves the state
at INITIALISING. An order of zero shares
(the contracts allow it, `golden/contracts.py:121`) is a level of size 0 in the oracle and an empty
side on the registers, so a board that works is failed; ITCH has no such orders. Two prices in one cent are
two levels of the golden book and one of the board, whose registers count cents; `Representative` has prices in
whole cents and leaves them out. One more is a matter of reading: `test_symbol_router.py:219` says that only
the selected sink may block acceptance; an event held for another, closed book
blocks as well (`symbol_router.sv:59, 92`), and `SourceServed` shows that it does not last.

## 8. Not modelled

- Ethernet MAC and PHY: third-party code. Source boundary, mux and lane rewire: wiring without state.
- `rtl/event_async_fifo.v` wraps a vendor FIFO, which is external: `EventFifo` is the simulation
  model that stands for it, without a reset while events are in flight.
- `rtl/itch_csr.v`: one register file (plan, 4). The directed cases of `golden/stimulus.py` are constant
  lists. `tb/`, `tools/`, notebooks and scripts drive, measure and test the system and promise
  nothing of their own.
- In the pipeline: the CLEAR sweep after reset, a reset in mid operation, the `cam_is_full_o` flag and
  the wrap of an order's own shares below zero; in the router, the multiplexer and the
  ingress: a reset in mid operation.
- In the ingress: error codes and the session, which nothing reads; sequence numbers beyond 16 bits; the
  realigner's error for a length of zero, which the deframer never sends; which field a byte lands in.
- In the demo: byte layout, file hashes, the graph's history and wording.
- Earlier versions (`rtl/deprecated/`, `releases/`) are copies of the same components, and most of
  the repository's lines. Of its Python and notebook lines half are such copies, and most of the
  rest are test benches, measurements and notebooks; the hardware, where most of the model is, is in
  neither. So the share of those lines that definitions stand for stays low.
