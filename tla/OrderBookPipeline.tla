--------------------------- MODULE OrderBookPipeline ---------------------------
(***************************************************************************)
(* One order book of the FPGA, rtl/ob/order_book_v4.sv with its blocks: a  *)
(* fifteen-stage pipeline over an order table of hash buckets, an overflow *)
(* CAM, price levels and occupancy bits.  A step is one rising clock edge  *)
(* after the CLEAR sweep.                                                  *)
(*                                                                         *)
(* A valid stage holds a token, the event with everything looked up for it *)
(* so far; a RAM read of several cycles is sampled when it is issued and   *)
(* travels with the token.  Stages 1 to 10 (REPCHECK to UPDATEWR) are held *)
(* by stall; stage 11 (BBOEVAL) and the four behind it always move.        *)
(***************************************************************************)
EXTENDS OrderEvents, Sequences

CONSTANTS
  Hash,           \* Refs -> bucket number, hash_orn
  SLOTS,          \* entries per bucket
  CAM_DEPTH,      \* entries of the overflow CAM
  DEPTH,          \* number of price indices, BBO_DEPTH
  OWN_BASE,       \* the base price configured for this book's stock
  BasePrices,     \* the base prices the router puts on base_price_i
  CHUNK,          \* price indices per occupancy word
  SHARES_MOD,     \* level registers count modulo this
  MIN_ENTRY_GAP,  \* unstalled cycles between two entries
  BUSY_DEPTH,     \* unstalled cycles for which a bucket is busy
  Streams,        \* bound: streams a source may send, by name, see StreamRecords
  Bubble, NoEvent, NoEntry, NoBbo, NoWrite

(* A stream draws up to length events from an alphabet and leaves one of   *)
(* the given numbers of idle unstalled cycles before the next offer.       *)
StreamRecords == [events : SUBSET Events, length : Nat \ {0}, waits : SUBSET Nat]

(* What a slot of the order table or of the CAM holds.                     *)
Entry == [ref : Refs, side : Sides, price : Prices, shares : 1 .. SHARES_MAX]

ASSUME PipelineAssumption ==
  /\ Hash \in [Refs -> Nat]
  /\ SLOTS \in Nat \ {0}
  /\ CAM_DEPTH \in {1, 2, 4, 8, 16, 32, 64}   \* an index has up to six bits
  /\ DEPTH \in Nat \ {0}
  /\ OWN_BASE \in BasePrices
  /\ BasePrices \subseteq Nat
  /\ Prices = OWN_BASE .. (OWN_BASE + DEPTH - 1)
  /\ CHUNK \in Nat \ {0}
  /\ SHARES_MOD \in Nat \ {0}
  /\ NoEntry \notin Entry
  /\ MIN_ENTRY_GAP \in Nat \ {0}
  /\ BUSY_DEPTH \in Nat \ {0}
  /\ \A name \in DOMAIN Streams : Streams[name] \in StreamRecords

VARIABLES
  stream,                    \* the stream the source sends
  offer, idle, sent,         \* the source: its event, idle cycles left, count
  base_price,                \* the base_price_i input
  entry_gap, busy, held,     \* admission: ready_o and the split of a REPLACE
  stage,                     \* tokens of stages 1 to 10
  table, cam, cam_q,         \* order table, CAM, the CAM write in its register
  level, bits, enc,          \* shares per price, occupancy bits, occupied rows
  prev_cw,                   \* the occupancy word written a cycle ago
  writes,                    \* the last nine updates that left stage 9
  rep_side,                  \* side of the order the last REPLACE deleted
  stall, stall_q,            \* bbo_stall and its edge detector
  eval, line,                \* stage 11; stages 12 to 15
  w1, w2,                    \* level writes one and two cycles ago
  best, bbo_shares, refresh, \* current best, its shares, reads on their way
  bbo,                       \* the output register
  ledger, expected           \* history: orders accepted, answers still owed

source    == <<stream, offer, idle, sent, ledger>>
admission == <<entry_gap, busy, held>>
storage   == <<table, cam, cam_q, level, bits, enc, prev_cw, writes, rep_side>>
bboregs   == <<stall, stall_q, eval, line, w1, w2, best, bbo_shares, refresh>>
vars      == <<source, base_price, admission, stage, storage, bboregs, bbo, expected>>

Indices == 0 .. DEPTH - 1
Idx(price) == (price - base_price) % DEPTH   \* price_to_idx keeps BBO_W bits
Row(idx) == idx \div CHUNK
Word(side, row) == {idx \in bits[side] : Row(idx) = row}
Sentinel(side) == IF side = "BUY" THEN 0 ELSE DEPTH - 1
Better(side, idx, than) == IF side = "BUY" THEN idx > than ELSE idx < than
Lowest(set, default) == IF set = {} THEN default ELSE Best("SELL", set)

(* What the CLEAR sweep leaves in a CAM entry; side 0 is SELL.             *)
Blank == [ref |-> 0, side |-> "SELL", price |-> 0, shares |-> 0]

(* A token with more fields; those it has already stay as they are.        *)
With(t, more) ==
  [field \in DOMAIN t \cup DOMAIN more |->
     IF field \in DOMAIN t THEN t[field] ELSE more[field]]

-----------------------------------------------------------------------------
(* Admission.                                                              *)

(* Mutant: the busy window is shorter than the pipeline.                   *)
bucket_busy_Shallow(e) ==
  \E k \in 1 .. 4 :
    \/ Hash[e.ref] \in busy[k]
    \/ e.op = "REPLACE" /\ Hash[e.new_ref] \in busy[k]

bucket_busy(e) ==
  \E k \in 1 .. BUSY_DEPTH :
    \/ Hash[e.ref] \in busy[k]
    \/ e.op = "REPLACE" /\ Hash[e.new_ref] \in busy[k]

(* Mutant: only the busy buckets keep events apart.                        *)
ready_o_NoGap == /\ ~stall
                 /\ held = Bubble
                 /\ ~bucket_busy(offer)

ready_o == /\ ~stall
           /\ held = Bubble
           /\ entry_gap >= MIN_ENTRY_GAP
           /\ ~bucket_busy(offer)

valid_i == offer # NoEvent /\ idle = 0

(* A REPLACE enters as a DELETE and, a cycle later, an ADD without a side. *)
First(e) ==
  CASE e.op = "REPLACE" -> [op |-> "DELETE", ref |-> e.ref, rep |-> "DEL"]
    [] OTHER            -> With(e, [rep |-> "NONE"])

Second(e) ==
  IF e.op = "REPLACE"
  THEN [op |-> "ADD", ref |-> e.new_ref, price |-> e.price, shares |-> e.shares,
        rep |-> "ADD"]
  ELSE Bubble

-----------------------------------------------------------------------------
(* Stages 2 to 8: finding the order, reading its level.                    *)

ReadBucket(t) == With(t, [bucket |-> table[Hash[t.ref]]])

(* Recorded writes to the same bucket are patched in, the newest last.     *)
Patched(t) ==
  [slot \in 0 .. SLOTS - 1 |->
     LET hits == {k \in 1 .. 9 : /\ writes[k] # NoWrite
                                 /\ writes[k].in_table
                                 /\ writes[k].hash = Hash[t.ref]
                                 /\ writes[k].slot = slot}
     IN  IF hits = {} THEN t.bucket[slot] ELSE writes[Lowest(hits, 1)].entry]

Holds(entry, ref) == entry # NoEntry /\ entry.ref = ref

(* A CAM entry that is given up keeps its data behind a tombstone.         *)
CamOrder(i) == IF cam[i].tombstone THEN NoEntry ELSE cam[i].entry
CamMatches(ref) == {i \in 0 .. CAM_DEPTH - 1 : Holds(CamOrder(i), ref)}
CamFree == {i \in 0 .. CAM_DEPTH - 1 : CamOrder(i) = NoEntry}

(* The matching indices are joined bit by bit; two of them make a third.   *)
Joined(indices) ==
  LET bit(b) == IF \E i \in indices : (i \div b) % 2 = 1 THEN b ELSE 0
  IN  bit(1) + bit(2) + bit(4) + bit(8) + bit(16) + bit(32)

Lookup(t) ==
  With([t EXCEPT !.bucket = Patched(t)],
       [idx |-> IF t.op = "ADD" THEN Idx(t.price) ELSE 0,
        cam_hit |-> CamMatches(t.ref) # {},
        cam_match |-> Joined(CamMatches(t.ref)),
        cam_free |-> Lowest(CamFree, 0)])

(* Mutant: a hit in the CAM is forgotten.                                  *)
Search_NoCam(t) ==
  LET match == {slot \in 0 .. SLOTS - 1 : Holds(t.bucket[slot], t.ref)}
      free == {slot \in 0 .. SLOTS - 1 : t.bucket[slot] = NoEntry}
  IN  IF t.op # "ADD" /\ match = {} THEN Bubble
      ELSE With(t, [slot |-> Lowest(IF t.op = "ADD" THEN free ELSE match, 0),
                    hash_match |-> match # {}, free_slot |-> free # {}])

(* An ADD takes the lowest free slot, any other event the slot of its      *)
(* order; an event whose order is in neither store is dropped here.        *)
Search(t) ==
  LET match == {slot \in 0 .. SLOTS - 1 : Holds(t.bucket[slot], t.ref)}
      free == {slot \in 0 .. SLOTS - 1 : t.bucket[slot] = NoEntry}
  IN  IF t.op # "ADD" /\ match = {} /\ ~t.cam_hit THEN Bubble
      ELSE With(t, [slot |-> Lowest(IF t.op = "ADD" THEN free ELSE match, 0),
                    hash_match |-> match # {}, free_slot |-> free # {}])

(* A token that hits only the CAM belongs there, the ADD of a REPLACE that *)
(* keeps its reference included: it looks before its DELETE has written.   *)
(* The CAM entry is read a stage later, whatever has become of it.         *)
ReadEntry(t) ==
  LET hit == ~t.hash_match /\ t.cam_hit
      found == IF hit THEN cam[t.cam_match]
               ELSE [entry |-> t.bucket[t.slot], tombstone |-> FALSE]
  IN  IF t.op = "ADD"
      THEN With(t, [is_cam |-> hit \/ ~t.free_slot, cam_idx |-> t.cam_free])
      ELSE With(With(t, [is_cam |-> hit, cam_idx |-> t.cam_match]), found)

(* Both sides' level and occupancy word are read at the address of the     *)
(* event's price, or of the price of the order it names.                   *)
IssueRead(t) ==
  LET idx == IF t.op = "ADD" THEN t.idx ELSE Idx(t.entry.price) IN
  With([idx |-> idx,
        shares_read |-> [side \in Sides |-> level[side][idx]],
        word_read |-> [side \in Sides |-> Word(side, Row(idx))]], t)

(* The side a replacing ADD uses is the one its DELETE found.              *)
TokenSide(t) ==
  CASE t.op # "ADD"  -> t.entry.side
    [] t.rep = "ADD" -> rep_side
    [] OTHER         -> t.side

NewLevel(t) ==
  (CASE t.op = "ADD"    -> t.book + t.shares
     [] t.op = "DELETE" -> t.book - t.entry.shares
     [] t.op = "REDUCE" -> t.book - t.shares) % SHARES_MOD

(* Mutant: only the last two level writes are forwarded.                   *)
CaptureLevel_Shallow(t) ==
  LET side == TokenSide(t)
      hits == {k \in 1 .. 2 : /\ writes[k] # NoWrite
                              /\ writes[k].side = side
                              /\ writes[k].idx = t.idx}
      next == stage[9]
  IN With(t, [book |->
       IF next # Bubble /\ TokenSide(next) = side /\ next.idx = t.idx
       THEN NewLevel(next)
       ELSE IF hits # {} THEN writes[Lowest(hits, 1)].shares
       ELSE t.shares_read[side]])

(* The newest level written for the same side and price, in flight or among *)
(* the last five, overrides the value read.                                *)
CaptureLevel(t) ==
  LET side == TokenSide(t)
      hits == {k \in 1 .. 5 : /\ writes[k] # NoWrite
                              /\ writes[k].side = side
                              /\ writes[k].idx = t.idx}
      next == stage[9]
  IN With(t, [book |->
       IF next # Bubble /\ TokenSide(next) = side /\ next.idx = t.idx
       THEN NewLevel(next)
       ELSE IF hits # {} THEN writes[Lowest(hits, 1)].shares
       ELSE t.shares_read[side]])

-----------------------------------------------------------------------------
(* Stage 9: the writes.                                                    *)

(* Mutant: a fully executed order stays with no shares.                    *)
NewEntry_KeepZero(t) ==
  CASE t.op = "ADD" -> [ref |-> t.ref, side |-> TokenSide(t),
                        price |-> t.price, shares |-> t.shares]
    [] t.op = "REDUCE" -> [t.entry EXCEPT !.shares = @ - t.shares]
    [] OTHER        -> NoEntry

NewEntry(t) ==
  CASE t.op = "ADD" -> [ref |-> t.ref, side |-> TokenSide(t),
                        price |-> t.price, shares |-> t.shares]
    [] t.op = "REDUCE" /\ t.shares < t.entry.shares ->
                       [t.entry EXCEPT !.shares = @ - t.shares]
    [] OTHER        -> NoEntry

(* What is written to the CAM: an order that ends leaves its data behind.  *)
CamData(t) ==
  IF NewEntry(t) = NoEntry THEN [entry |-> t.entry, tombstone |-> TRUE]
  ELSE [entry |-> NewEntry(t), tombstone |-> t.op # "ADD" /\ t.tombstone]

(* Mutant: the level is compared with the order, not with the reduction.   *)
LevelDepleted_ByOrder(t) ==
  /\ t.op # "ADD"
  /\ t.book = t.entry.shares

LevelDepleted(t) ==
  /\ t.op # "ADD"
  /\ t.book = IF t.op = "REDUCE" THEN t.shares ELSE t.entry.shares

(* Mutant: the update a cycle ahead is overwritten.                        *)
BucketOut_NoAhead(t) == [t.bucket EXCEPT ![t.slot] = NewEntry(t)]

(* The bucket written back: as read, with the update a cycle ahead patched. *)
BucketOut(t) ==
  LET ahead == writes[1]
      kept == IF ahead # NoWrite /\ ahead.in_table /\ ahead.hash = Hash[t.ref]
              THEN [t.bucket EXCEPT ![ahead.slot] = ahead.entry]
              ELSE t.bucket
  IN  [kept EXCEPT ![t.slot] = NewEntry(t)]

(* Mutant: the word written a cycle ago is not seen.                       *)
EffWord_AsRead(t) == t.word_read[TokenSide(t)]

(* The occupancy word the write starts from: the one read, or the one      *)
(* written a cycle ago.                                                    *)
EffWord(t) ==
  LET same == /\ prev_cw # NoWrite
              /\ prev_cw.side = TokenSide(t)
              /\ prev_cw.row = Row(t.idx)
  IN  IF same THEN prev_cw.word ELSE t.word_read[TokenSide(t)]

NewWord(t) ==
  IF t.op = "ADD" THEN EffWord(t) \cup {t.idx}
  ELSE EffWord(t) \ {t.idx}

WritesWord(t) == t # Bubble /\ (t.op = "ADD" \/ LevelDepleted(t))

(* Mutant: an order is never taken out of the CAM.                         *)
WriteStores_KeepCam ==
  LET t == stage[9]
      live == t # Bubble /\ ~stall
  IN
  /\ table' = IF live /\ ~t.is_cam
              THEN [table EXCEPT ![Hash[t.ref]] = BucketOut(t)] ELSE table
  /\ level' = IF live
              THEN [level EXCEPT ![TokenSide(t)][t.idx] = NewLevel(t)]
              ELSE level
  /\ cam_q' = IF t # Bubble /\ t.is_cam /\ NewEntry(t) # NoEntry
              THEN [idx |-> t.cam_idx, data |-> CamData(t)] ELSE NoWrite
  /\ cam' = IF cam_q = NoWrite THEN cam ELSE [cam EXCEPT ![cam_q.idx] = cam_q.data]
  /\ w1' = IF live THEN [side |-> TokenSide(t), idx |-> t.idx,
                         shares |-> NewLevel(t)]
           ELSE NoWrite
  /\ w2' = w1

(* Table and level writes wait for a stall; the occupancy words and the    *)
(* register in front of the CAM do not.                                    *)
WriteStores ==
  LET t == stage[9]
      live == t # Bubble /\ ~stall
  IN
  /\ table' = IF live /\ ~t.is_cam
              THEN [table EXCEPT ![Hash[t.ref]] = BucketOut(t)] ELSE table
  /\ level' = IF live
              THEN [level EXCEPT ![TokenSide(t)][t.idx] = NewLevel(t)]
              ELSE level
  /\ cam_q' = IF t # Bubble /\ t.is_cam
              THEN [idx |-> t.cam_idx, data |-> CamData(t)] ELSE NoWrite
  /\ cam' = IF cam_q = NoWrite THEN cam ELSE [cam EXCEPT ![cam_q.idx] = cam_q.data]
  /\ w1' = IF live THEN [side |-> TokenSide(t), idx |-> t.idx,
                         shares |-> NewLevel(t)]
           ELSE NoWrite
  /\ w2' = w1

WriteOccupancy ==
  LET t == stage[9]
      side == TokenSide(t)
      row == Row(t.idx)
  IN
  IF WritesWord(t)
  THEN /\ bits' = [bits EXCEPT ![side] = (@ \ Word(side, row)) \cup NewWord(t)]
       /\ prev_cw' = [side |-> side, row |-> row, word |-> NewWord(t)]
       /\ enc' = [enc EXCEPT ![side] =
            IF t.op = "ADD" THEN @ \cup {row}
            ELSE IF EffWord(t) = {t.idx} THEN @ \ {row} ELSE @]
  ELSE /\ prev_cw' = NoWrite
       /\ UNCHANGED <<bits, enc>>

(* What stages 3 and 8 will forward from.                                  *)
RecordWrite ==
  LET t == stage[9]
      record == IF t = Bubble THEN NoWrite
                ELSE [in_table |-> ~t.is_cam, hash |-> Hash[t.ref], slot |-> t.slot,
                      entry |-> NewEntry(t), side |-> TokenSide(t),
                      idx |-> t.idx, shares |-> NewLevel(t)]
  IN  writes' = IF stall THEN writes ELSE <<record>> \o SubSeq(writes, 1, 8)

RecordReplacedSide ==
  rep_side' = IF ~stall /\ stage[5] # Bubble /\ stage[5].rep = "DEL"
              THEN stage[5].entry.side ELSE rep_side

-----------------------------------------------------------------------------
(* Stages 10 and 11: the best prices.                                      *)

(* ob_bbo_resolve: a depleted best level is replaced by the best bit of    *)
(* the word that was sampled.                                              *)
Resolved(e, side) ==
  IF ~e.new_bbo \/ side # e.search_side THEN e.best[side]
  ELSE IF e.is_zero[side] THEN Sentinel(side)
  ELSE IF e.word = {} THEN e.row * CHUNK
  ELSE Best(side, e.word)

next_best == [side \in Sides |-> Resolved(eval, side)]

(* Mutant: an update of the best that is being resolved is not seen.       *)
EffBest_Registered(side) == best[side]

EffBest(side) == IF eval # Bubble THEN Resolved(eval, side) ELSE best[side]

DepletedSide(t) ==
  {side \in Sides : /\ t.op # "ADD"
                    /\ LevelDepleted(t)
                    /\ t.entry.side = side
                    /\ t.idx = EffBest(side)}

(* Mutant: a replacing ADD never refreshes the shares of the best levels.  *)
RepAddNeedsRead_Never(t) == FALSE

RepAddNeedsRead(t) ==
  /\ t.op = "ADD"
  /\ t.rep = "ADD"
  /\ \A side \in Sides : t.idx # EffBest(side)

Evaluated(t) ==
  LET search_side == IF "SELL" \in DepletedSide(t) THEN "SELL" ELSE "BUY"
      row == IF enc[search_side] = {} THEN 0 ELSE Best(search_side, enc[search_side])
  IN [rep |-> t.rep,
      best |-> [side \in Sides |->
        IF t.op = "ADD" /\ t.side = side /\ Better(side, t.idx, EffBest(side))
        THEN t.idx ELSE EffBest(side)],
      new_bbo |-> \E side \in DepletedSide(t) : EffBest(side) # Sentinel(side),
      search_side |-> search_side,
      is_zero |-> [side \in Sides |-> enc[side] = {}],
      row |-> row,
      word |-> Word(search_side, row)]

Evaluate ==
  LET t == stage[10] IN
  /\ eval' = IF t = Bubble THEN Bubble ELSE Evaluated(t)
  /\ stall' = /\ t # Bubble
              /\ ~stall_q
              /\ t.rep # "DEL"
              /\ RepAddNeedsRead(t) \/ DepletedSide(t) # {}
  /\ stall_q' = stall

Resolve == best' = IF eval # Bubble THEN next_best ELSE best

(* Mutant: the read a stall issues is not waited for.                      *)
TrackShares_NoRefresh ==
  LET hit(w, side) == /\ eval # Bubble
                      /\ w # NoWrite
                      /\ w.side = side
                      /\ w.idx = eval.best[side]
  IN
  /\ refresh' = <<NoWrite>> \o SubSeq(refresh, 1, 2)
  /\ bbo_shares' = [side \in Sides |->
       IF hit(w1, side) THEN w1.shares
       ELSE IF hit(w2, side) THEN w2.shares
       ELSE bbo_shares[side]]

(* The shares of the best levels: a read issued by a stall, or a write to  *)
(* the best level by the event in stage 11 or the one right behind it.     *)
TrackShares ==
  LET hit(w, side) == /\ eval # Bubble
                      /\ w # NoWrite
                      /\ w.side = side
                      /\ w.idx = eval.best[side]
  IN
  /\ refresh' = <<IF stall THEN [side \in Sides |-> level[side][next_best[side]]]
                  ELSE NoWrite>> \o SubSeq(refresh, 1, 2)
  /\ bbo_shares' = [side \in Sides |->
       IF refresh[3] # NoWrite THEN refresh[3][side]
       ELSE IF hit(w1, side) THEN w1.shares
       ELSE IF hit(w2, side) THEN w2.shares
       ELSE bbo_shares[side]]

-----------------------------------------------------------------------------
(* Stages 12 to 15 only carry the flags; the output reads best and shares  *)
(* as they are when its event gets there.                                  *)

Answer ==
  LET t == line[4] IN
  IF t = Bubble \/ t.rep = "DEL" THEN NoBbo
  ELSE [side \in Sides |-> IF t.is_zero[side] THEN Empty
                           ELSE [price |-> base_price + best[side], size |-> bbo_shares[side]]]

Output ==
  /\ line' = <<IF eval = Bubble THEN Bubble
               ELSE [rep |-> eval.rep, is_zero |-> eval.is_zero]>> \o SubSeq(line, 1, 3)
  /\ bbo' = Answer

Through(F(_), t) == IF t = Bubble THEN Bubble ELSE F(t)
WithSide(t) == IF t.op = "ADD" THEN With([side |-> TokenSide(t)], t) ELSE t

MovePipe(entering) ==
  stage' = IF stall THEN stage ELSE
    <<entering,
      Through(ReadBucket, stage[1]), Through(Lookup, stage[2]),
      Through(Search, stage[3]), Through(ReadEntry, stage[4]),
      Through(IssueRead, stage[5]), stage[6], stage[7],
      Through(CaptureLevel, stage[8]), Through(WithSide, stage[9])>>

(* base_price_i is a bus all books share: it shows this book's base price  *)
(* while its event is presented, and may change as soon as it is taken.    *)
BaseBus ==
  base_price' \in IF offer' # NoEvent /\ idle' = 0 THEN {OWN_BASE} ELSE BasePrices

(* Everything behind the admission logic, on one clock edge.               *)
Pipeline(entering) ==
  /\ MovePipe(entering)
  /\ WriteStores
  /\ WriteOccupancy
  /\ RecordWrite
  /\ RecordReplacedSide
  /\ Evaluate
  /\ Resolve
  /\ TrackShares
  /\ Output

-----------------------------------------------------------------------------
Init ==
  /\ ledger = NoOrders
  /\ stream \in DOMAIN Streams
  /\ offer \in {e \in Streams[stream].events : Legal(NoOrders, e)}
  /\ idle = 0
  /\ sent = 1
  /\ base_price = OWN_BASE
  /\ entry_gap = MIN_ENTRY_GAP
  /\ busy = [k \in 1 .. BUSY_DEPTH |-> {}]
  /\ held = Bubble
  /\ stage = [i \in 1 .. 10 |-> Bubble]
  /\ table = [h \in {Hash[r] : r \in Refs} |-> [slot \in 0 .. SLOTS - 1 |-> NoEntry]]
  /\ cam = [i \in 0 .. CAM_DEPTH - 1 |-> [entry |-> Blank, tombstone |-> TRUE]]
  /\ cam_q = NoWrite
  /\ level = [side \in Sides |-> [idx \in Indices |-> 0]]
  /\ bits = [side \in Sides |-> {}]
  /\ enc = [side \in Sides |-> {}]
  /\ prev_cw = NoWrite
  /\ writes = [k \in 1 .. 9 |-> NoWrite]
  /\ rep_side = "SELL"
  /\ stall = FALSE
  /\ stall_q = FALSE
  /\ eval = Bubble
  /\ line = [i \in 1 .. 4 |-> Bubble]
  /\ w1 = NoWrite
  /\ w2 = NoWrite
  /\ best = [side \in Sides |-> Sentinel(side)]
  /\ bbo_shares = [side \in Sides |-> 0]
  /\ refresh = [k \in 1 .. 3 |-> NoWrite]
  /\ bbo = NoBbo
  /\ expected = <<>>

BusyShift(hashes) == busy' = <<hashes>> \o SubSeq(busy, 1, BUSY_DEPTH - 1)

Answered == IF Answer = NoBbo \/ expected = <<>> THEN expected ELSE Tail(expected)

(* A handshake: the event on the input enters stage 1.  The source then    *)
(* has its next event ready, after some idle cycles, or stops.             *)
Accept(next) ==
  /\ valid_i
  /\ ready_o
  /\ ledger' = Apply(ledger, offer)
  /\ offer' = next
  /\ IF next = NoEvent THEN idle' = 0 /\ sent' = sent
     ELSE /\ sent < Streams[stream].length
          /\ Legal(ledger', next)
          /\ idle' \in Streams[stream].waits
          /\ sent' = sent + 1
  /\ BaseBus
  /\ Pipeline(First(offer))
  /\ held' = Second(offer)
  /\ entry_gap' = 1
  /\ BusyShift({Hash[offer.ref]})
  /\ expected' = Answered \o
       (IF Known(ledger, offer) THEN <<BboOf(ledger')>> ELSE <<>>)
  /\ UNCHANGED stream

(* The ADD of a REPLACE follows its DELETE.                                *)
EnterReplacement ==
  /\ ~stall
  /\ held # Bubble
  /\ Pipeline(held)
  /\ held' = Bubble
  /\ entry_gap' = 1
  /\ BusyShift({Hash[held.ref]})
  /\ expected' = Answered
  /\ idle' = IF idle > 0 THEN idle - 1 ELSE 0
  /\ UNCHANGED <<stream, offer, sent, ledger>>
  /\ BaseBus

(* Mutant: the entry gap saturates one short of what ready_o waits for.    *)
GapCount_Short == IF entry_gap < MIN_ENTRY_GAP - 1 THEN entry_gap + 1 ELSE entry_gap

GapCount == IF entry_gap < MIN_ENTRY_GAP THEN entry_gap + 1 ELSE entry_gap

(* A clock edge on which nothing enters.                                   *)
EnterNothing ==
  /\ ~stall
  /\ held = Bubble
  /\ ~(valid_i /\ ready_o)
  /\ Pipeline(Bubble)
  /\ entry_gap' = GapCount
  /\ BusyShift({})
  /\ expected' = Answered
  /\ idle' = IF idle > 0 THEN idle - 1 ELSE 0
  /\ UNCHANGED <<stream, offer, sent, ledger, held>>
  /\ BaseBus

(* A stalled edge: stages 1 to 10 and the admission logic stand still.     *)
Stalled ==
  /\ stall
  /\ Pipeline(Bubble)
  /\ expected' = Answered
  /\ UNCHANGED <<source, admission>>
  /\ BaseBus

Next ==
  \/ \E next \in Streams[stream].events \cup {NoEvent} : Accept(next)
  \/ EnterReplacement
  \/ EnterNothing
  \/ Stalled

Spec == Init /\ [][Next]_vars

(* The clock keeps running.                                                *)
FairSpec == Spec /\ WF_vars(Next)

-----------------------------------------------------------------------------
TypeOK ==
  /\ stream \in DOMAIN Streams
  /\ offer \in Streams[stream].events \cup {NoEvent}
  /\ idle \in Nat
  /\ base_price \in BasePrices
  /\ sent \in 1 .. Streams[stream].length
  /\ entry_gap \in 1 .. MIN_ENTRY_GAP
  /\ busy \in [1 .. BUSY_DEPTH -> SUBSET {Hash[r] : r \in Refs}]
  /\ DOMAIN stage = 1 .. 10
  /\ \A h \in DOMAIN table, slot \in 0 .. SLOTS - 1 :
       table[h][slot] \in Entry \cup {NoEntry}
  /\ \A i \in 0 .. CAM_DEPTH - 1 :
       /\ cam[i] \in [entry : Entry \cup {Blank}, tombstone : BOOLEAN]
       /\ CamOrder(i) \in Entry \cup {NoEntry}
  /\ level \in [Sides -> [Indices -> 0 .. SHARES_MOD - 1]]
  /\ bits \in [Sides -> SUBSET Indices]
  /\ enc \in [Sides -> SUBSET (0 .. Row(DEPTH - 1))]
  /\ best \in [Sides -> Indices]
  /\ {stall, stall_q} \subseteq BOOLEAN
  /\ ledger \in [Refs -> Order \cup {NoOrder}]

(* The places that hold an order: hash slots of any bucket, CAM entries.   *)
Stored(place) ==
  IF place[1] = "cam" THEN CamOrder(place[2]) ELSE table[place[2]][place[3]]

Occupied ==
  {place \in ({"table"} \X (DOMAIN table) \X (0 .. SLOTS - 1)) \cup
             ({"cam"} \X (0 .. CAM_DEPTH - 1) \X {0}) : Stored(place) # NoEntry}

Copies(ref) == {place \in Occupied : Stored(place).ref = ref}

(* Nothing is under way between the input register and the output.         *)
Drained ==
  /\ held = Bubble
  /\ \A i \in 1 .. 10 : stage[i] = Bubble
  /\ cam_q = NoWrite
  /\ eval = Bubble
  /\ \A i \in 1 .. 4 : line[i] = Bubble

(* No order is ever in two places, whatever is in flight: lookups by hash  *)
(* match and CAM match (ob_idx_search.sv:180-206, ob_idx_req.sv:86-101)    *)
(* have at most one answer.                                                *)
OneCopy ==
  \A p, q \in Occupied : Stored(p).ref = Stored(q).ref => p = q

(* Once the pipe is drained the two order stores hold exactly the live     *)
(* orders, each in its bucket or in the CAM, with its current shares: no   *)
(* interleaving of lookups and late writes loses, resurrects or alters one. *)
OrdersStored ==
  Drained => \A ref \in Refs :
    IF Live(ledger, ref)
    THEN \E place \in Copies(ref) :
           Stored(place) = [ref |-> ref, side |-> ledger[ref].side,
                            price |-> ledger[ref].price, shares |-> ledger[ref].shares]
    ELSE Copies(ref) = {}

(* Once the pipe is drained the price levels, the occupancy bits, the row  *)
(* encoder and the best registers all say the same about the live orders,  *)
(* although each is written by a different stage with its own forwarding.  *)
LevelsAgree ==
  Drained => \A side \in Sides :
    LET occupied == {price - OWN_BASE : price \in OccupiedPrices(ledger, side)} IN
    /\ \A idx \in Indices :
         level[side][idx] =
           Cardinality(ShareUnits(ledger, side, OWN_BASE + idx)) % SHARES_MOD
    /\ bits[side] = occupied
    /\ enc[side] = {Row(idx) : idx \in occupied}
    /\ best[side] = IF occupied = {} THEN Sentinel(side) ELSE Best(side, occupied)

(* While no order is removed, a published best price is the price of an    *)
(* order that was accepted, whatever base_price_i shows by then:           *)
(* tb/tests/unit/test_order_book_top.py:262.                               *)
PublishedPriceIsAnOrders ==
  bbo # NoBbo => \A side \in Sides :
    \/ bbo[side] = Empty
    \/ \E ref \in Refs : /\ Live(ledger, ref)
                         /\ ledger[ref].side = side
                         /\ ledger[ref].price = bbo[side].price

(* The pipeline is a top-of-book service: it answers every accepted event  *)
(* about a known order once, in order, with the top of the book as it was  *)
(* right after that event, while later events are already being applied.   *)
Service == INSTANCE TopOfBook WITH
             table <- ledger, pending <- expected, out <- bbo
AnswersInOrder == Service!Spec

(* Answers leave at least MIN_ENTRY_GAP cycles apart, also where a stall   *)
(* has held one event back behind another: the output FIFOs of             *)
(* order_book_top.sv (no test for full, line 89) live on this.             *)
AnswersSpaced ==
  bbo # NoBbo =>
    \A i \in 1 .. 4 : i > 5 - MIN_ENTRY_GAP => line[i] = Bubble \/ line[i].rep = "DEL"

(* Every offered event is accepted and every answer owed is published:     *)
(* stall, bucket_busy, the entry gap and the split REPLACE never lock the  *)
(* handshake up.                                                           *)
EverythingAnswered == <>[](offer = NoEvent /\ expected = <<>> /\ Drained)
=============================================================================
