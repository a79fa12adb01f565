----------------------------- MODULE MoldDeframe -----------------------------
(***************************************************************************)
(* rtl/mold_deframe.sv around the sequence guard: MoldUDP64 datagrams in,  *)
(* one stream of message bytes and one of message lengths out.  A step is  *)
(* one clock edge; the stages (input and body FIFO, guard cycle, parser,   *)
(* descriptor, compactor, reservoir, output) read the registers as they    *)
(* are before it.                                                          *)
(*                                                                         *)
(* A word is the sequence of its valid bytes, so lane counters, alignment  *)
(* and byte compaction come down to taking a prefix of it.                 *)
(***************************************************************************)
EXTENDS SeqGuard, FeedBytes

MOLD_HDR_BYTES  == 20
AXIS_KEEP_W     == 8
BODY_FIFO_DEPTH == 4
MD_LEN_FIFO_DEPTH == 4
RESERVOIR_BYTES == 3 * AXIS_KEEP_W

NoWord == [bytes |-> <<>>, last |-> FALSE]    \* an empty register

VARIABLES
  state,                   \* "HEADER", "GUARD", "BODY", "DRAIN", "DONE"
  header_beat_idx,
  dgram_len,
  dgram_bytes_seen,
  body_bytes_consumed,
  dgram_end_seen,
  dropping,
  messages_left,
  payload_left,
  len_hi,                  \* <<high byte>> of a length split over two words
  body_fifo,               \* words of the body; the head without what is consumed
  seq_o,
  count_o,
  desc,                    \* parser to compactor
  compact,                 \* compactor to reservoir
  len_fifo,
  reservoir,
  released_bytes,          \* bytes whose lengths have been accepted
  payload_generation_done,
  m_payload,               \* output register
  mold_drop_o,
  dropped                  \* history: numbers of accepted packets that were dropped

parser_vars == <<state, header_beat_idx, dgram_len, dgram_bytes_seen, body_bytes_consumed,
                 dgram_end_seen, dropping, messages_left, payload_left, len_hi, body_fifo,
                 seq_o, count_o, desc, len_fifo, mold_drop_o, dropped>>
output_vars == <<compact, reservoir, released_bytes, payload_generation_done, m_payload>>
mold_deframe_vars == <<vars, parser_vars, output_vars>>

MoldDeframeInit ==
  /\ Init
  /\ state = "HEADER" /\ header_beat_idx = 0
  /\ dgram_len = 0 /\ dgram_bytes_seen = 0 /\ body_bytes_consumed = 0
  /\ dgram_end_seen = FALSE /\ dropping = FALSE
  /\ messages_left = 0 /\ payload_left = 0 /\ len_hi = <<>>
  /\ body_fifo = <<>> /\ seq_o = 0 /\ count_o = 0
  /\ desc = NoWord /\ compact = NoWord /\ len_fifo = <<>>
  /\ reservoir = <<>> /\ released_bytes = 0 /\ payload_generation_done = FALSE
  /\ m_payload = NoWord
  /\ mold_drop_o = FALSE /\ dropped = {}

IsWord(word) == word.bytes # <<>>

-----------------------------------------------------------------------------
(* Handshakes, all from registers.                                         *)
s_axis_tready_o ==
  /\ ~dgram_end_seen
  /\ \/ state \in {"HEADER", "DRAIN"}
     \/ state \in {"GUARD", "BODY"} /\ Len(body_fifo) < BODY_FIFO_DEPTH

m_msg_len_valid_o == len_fifo # <<>>

(* Mutant: half a word too much is let into the reservoir.                 *)
packer_ready_NoRoom == Len(reservoir) <= RESERVOIR_BYTES - AXIS_KEEP_W + 4 /\ ~dropping

packer_ready == Len(reservoir) <= RESERVOIR_BYTES - AXIS_KEEP_W /\ ~dropping
compact_fire == IsWord(compact) /\ packer_ready
compact_slot_available == ~IsWord(compact) \/ packer_ready
desc_fire == IsWord(desc) /\ compact_slot_available
desc_slot_available == ~IsWord(desc) \/ compact_slot_available
parser_resources_available == desc_slot_available /\ Len(len_fifo) < MD_LEN_FIFO_DEPTH

(* Everything of a good datagram has left; a dropped one only waits for    *)
(* the word it has already presented.                                      *)
cleanup_ready ==
  /\ state = "DONE" /\ body_fifo = <<>> /\ ~IsWord(m_payload)
  /\ \/ dropping
     \/ /\ ~IsWord(desc) /\ ~IsWord(compact) /\ reservoir = <<>>
        /\ len_fifo = <<>> /\ released_bytes = 0 /\ payload_generation_done

-----------------------------------------------------------------------------
(* Input: header words are taken apart, body words are queued, words of a  *)
(* datagram that is given up are passed over.                              *)
LengthMismatch(beat, declared, seen) == beat.last /\ seen # declared

InputFault(fire, beat, declared) ==
  /\ fire
  /\ \/ ~beat.last /\ Len(beat.bytes) # AXIS_KEEP_W
     \/ /\ state = "HEADER"
        /\ \/ header_beat_idx = 0 /\ (~beat.start \/ declared < MOLD_HDR_BYTES)
           \/ header_beat_idx < 2 /\ (Len(beat.bytes) # AXIS_KEEP_W \/ beat.last)
           \/ header_beat_idx = 2 /\ Len(beat.bytes) < 4
           \/ header_beat_idx = 0 /\ LengthMismatch(beat, declared, Len(beat.bytes))
           \/ header_beat_idx > 0
                /\ LengthMismatch(beat, dgram_len, dgram_bytes_seen + Len(beat.bytes))
     \/ state # "HEADER"
          /\ LengthMismatch(beat, dgram_len, dgram_bytes_seen + Len(beat.bytes))

(* What the input adds to the body FIFO.                                   *)
Pushed(fire, beat, declared) ==
  IF ~fire \/ InputFault(fire, beat, declared) THEN <<>>
  ELSE IF state = "HEADER" /\ header_beat_idx = 2 /\ Len(beat.bytes) > 4
       THEN <<Leaving(beat.bytes, 4)>>
  ELSE IF state \in {"GUARD", "BODY"} THEN <<beat.bytes>>
  ELSE <<>>

-----------------------------------------------------------------------------
(* Guard cycle.                                                            *)
GuardAccepts == ~IsStatus(count_o) /\ (IsDue(seq_o) \/ IsAhead(seq_o))
NoBody == dgram_len = MOLD_HDR_BYTES
GuardFault ==
  /\ state = "GUARD"
  /\ IF GuardAccepts THEN NoBody ELSE IsStatus(count_o) /\ ~NoBody

-----------------------------------------------------------------------------
(* Body parser.  In one cycle: the tail of a message, the length behind    *)
(* it, and the head of the message that follows, all from the head word.   *)
body_head == Head(body_fifo)
body_total_bytes == dgram_len - MOLD_HDR_BYTES

Parses(fault) ==
  /\ ~fault /\ ~dropping
  /\ state = "BODY"
  /\ body_fifo # <<>>
  /\ parser_resources_available

TailTaken == Smaller(payload_left, Len(body_head))
Rest  == Leaving(body_head, TailTaken)

(* The current message ends in this word; messages after that.             *)
TailEnds == payload_left > 0 /\ payload_left = TailTaken
AfterTail == IF TailEnds THEN messages_left - 1 ELSE messages_left

(* The length bytes still missing, and the length once they are there.     *)
PrefixBytes == 2 - Len(len_hi)
HasPrefix == Len(Rest) >= PrefixBytes
PrefixValue ==
  LET prefix == len_hi \o Taking(Rest, PrefixBytes)
  IN  Number(prefix[1], prefix[2])
AfterPrefix == body_bytes_consumed + TailTaken + PrefixBytes
PayloadTaken == Smaller(PrefixValue, Len(Rest) - PrefixBytes)
WholeInWord == PrefixValue = PayloadTaken

(* The outcome: bytes consumed, payload produced, the new parser context,  *)
(* the length found (0 for none), and whether it is the last of its        *)
(* datagram.                                                               *)
Outcome(consumed, payload, messages, left, hi, length, last) ==
  [fault |-> FALSE, consumed |-> consumed, payload |-> payload, messages |-> messages,
   left |-> left, hi |-> hi, length |-> length, last |-> last]
Fault == [fault |-> TRUE]

ParseTailOnly ==
  IF TailEnds /\ AfterTail = 0 /\ body_bytes_consumed + TailTaken # body_total_bytes
  THEN Fault
  ELSE Outcome(TailTaken, body_head, AfterTail, payload_left - TailTaken, <<>>, 0,
               TailEnds /\ AfterTail = 0)

ParseSplitPrefix ==
  Outcome(TailTaken + 1, Taking(body_head, TailTaken), AfterTail, 0, Rest, 0, FALSE)

LengthFits ==
  PrefixValue # 0 /\ AfterPrefix + PrefixValue <= body_total_bytes

ParsePrefix ==
  LET consumed == TailTaken + PrefixBytes + PayloadTaken
      messages == IF WholeInWord THEN AfterTail - 1 ELSE AfterTail
      ends     == WholeInWord /\ messages = 0
  IN  IF \/ ~LengthFits
         \/ ends /\ body_bytes_consumed + consumed # body_total_bytes
      THEN Fault
      ELSE Outcome(consumed,
                   Taking(body_head, TailTaken)
                     \o SubSeq(Rest, PrefixBytes + 1, PrefixBytes + PayloadTaken),
                   messages, PrefixValue - PayloadTaken, <<>>, PrefixValue, ends)

Parse ==
  IF Rest = <<>> THEN ParseTailOnly
  ELSE IF AfterTail = 0 THEN Fault
  ELSE IF ~HasPrefix THEN ParseSplitPrefix
  ELSE ParsePrefix

-----------------------------------------------------------------------------
(* The registers a cycle changes, by state.                                *)
InputFire(beat) == beat.bytes # <<>> /\ s_axis_tready_o

CountInput(fire, beat) ==
  /\ dgram_bytes_seen' = IF fire THEN dgram_bytes_seen + Len(beat.bytes) ELSE dgram_bytes_seen
  /\ dgram_end_seen' = (dgram_end_seen \/ (fire /\ beat.last))

(* The numbers of an accepted packet whose parsing failed.                 *)
GiveUp(fault) ==
  /\ mold_drop_o' = fault
  /\ dropped' = IF fault THEN dropped \cup Numbers(seq_o, count_o) ELSE dropped

KeepContext ==
  UNCHANGED <<body_bytes_consumed, messages_left, payload_left, len_hi>>
KeepHeader == UNCHANGED <<header_beat_idx, dgram_len, seq_o, count_o>>

(* Three beats of header; the third also brings the first body bytes.      *)
HeaderStep(fire, beat, declared) ==
  LET fault == InputFault(fire, beat, declared) IN
  /\ state = "HEADER"
  /\ CountInput(fire, beat)
  /\ dgram_len' = IF fire /\ header_beat_idx = 0 THEN declared ELSE dgram_len
  /\ header_beat_idx' = IF fire THEN (header_beat_idx + 1) % 3 ELSE header_beat_idx
  /\ IF fire /\ header_beat_idx = 2 /\ Len(beat.bytes) >= 4
     THEN /\ seq_o' = Number(beat.bytes[1], beat.bytes[2])
          /\ count_o' = Number(beat.bytes[3], beat.bytes[4])
     ELSE UNCHANGED <<seq_o, count_o>>
  /\ body_fifo' = body_fifo \o Pushed(fire, beat, declared)
  /\ dropping' = fault
  /\ mold_drop_o' = fault
  /\ state' = IF fault THEN "DRAIN"
              ELSE IF fire /\ header_beat_idx = 2 THEN "GUARD" ELSE "HEADER"
  /\ KeepContext
  /\ UNCHANGED <<vars, desc, len_fifo, dropped>>

(* The guard sees the header in a cycle of its own.                        *)
GuardStep(fire, beat, declared) ==
  LET fault == InputFault(fire, beat, declared) \/ GuardFault IN
  /\ state = "GUARD"
  /\ Header(seq_o, count_o, FALSE)
  /\ CountInput(fire, beat)
  /\ body_fifo' = body_fifo \o Pushed(fire, beat, declared)
  /\ messages_left' = IF GuardAccepts THEN count_o ELSE messages_left
  /\ payload_left' = IF GuardAccepts THEN 0 ELSE payload_left
  /\ len_hi' = IF GuardAccepts THEN <<>> ELSE len_hi
  /\ dropping' = (fault \/ ~GuardAccepts)
  /\ mold_drop_o' = fault
  /\ dropped' = IF fault /\ GuardAccepts THEN dropped \cup Numbers(seq_o, count_o)
                ELSE dropped
  /\ state' = IF ~fault /\ GuardAccepts THEN "BODY" ELSE "DRAIN"
  /\ KeepHeader
  /\ UNCHANGED <<body_bytes_consumed, desc, len_fifo>>

(* The head of the body FIFO after n bytes of it were consumed.            *)
AfterConsuming(n) ==
  IF n = Len(body_head) THEN Tail(body_fifo)
  ELSE <<Leaving(body_head, n)>> \o Tail(body_fifo)

LengthsLeft(len_ready) ==
  IF m_msg_len_valid_o /\ len_ready THEN Tail(len_fifo) ELSE len_fifo
DescLeft == IF desc_fire THEN NoWord ELSE desc

(* The parser makes a step.                                                *)
Parsed(p, fire, beat, declared, len_ready) ==
  /\ body_fifo' = AfterConsuming(p.consumed) \o Pushed(fire, beat, declared)
  /\ body_bytes_consumed' = body_bytes_consumed + p.consumed
  /\ messages_left' = p.messages
  /\ payload_left' = p.left
  /\ len_hi' = p.hi
  /\ desc' = IF p.payload = <<>> THEN DescLeft
             ELSE [bytes |-> p.payload, last |-> p.last]
  /\ len_fifo' = LengthsLeft(len_ready) \o (IF p.length = 0 THEN <<>> ELSE <<p.length>>)
  /\ state' = IF p.last THEN "DONE" ELSE "BODY"
  /\ GiveUp(FALSE)
  /\ UNCHANGED dropping

(* Nothing to parse, or no room for what parsing would produce.            *)
ParserWaits(fire, beat, declared, len_ready) ==
  /\ body_fifo' = body_fifo \o Pushed(fire, beat, declared)
  /\ desc' = DescLeft
  /\ len_fifo' = LengthsLeft(len_ready)
  /\ GiveUp(FALSE)
  /\ KeepContext
  /\ UNCHANGED <<state, dropping>>

(* A fault discards what has not been presented yet and drains the rest.   *)
(* What the other side has accepted stays with it.                         *)
ParserFaults(fire, beat, declared) ==
  /\ body_fifo' = body_fifo \o Pushed(fire, beat, declared)
  /\ desc' = NoWord
  /\ len_fifo' = <<>>
  /\ state' = "DRAIN"
  /\ dropping' = TRUE
  /\ GiveUp(TRUE)
  /\ KeepContext

BodyStep(fire, beat, declared, len_ready) ==
  LET input_fault == InputFault(fire, beat, declared)
      parses == Parses(input_fault) IN
  /\ state = "BODY"
  /\ CountInput(fire, beat)
  /\ \/ ~parses /\ ~input_fault /\ ParserWaits(fire, beat, declared, len_ready)
     \/ parses /\ ~Parse.fault /\ Parsed(Parse, fire, beat, declared, len_ready)
     \/ (input_fault \/ (parses /\ Parse.fault)) /\ ParserFaults(fire, beat, declared)
  /\ KeepHeader
  /\ UNCHANGED vars

DrainStep(fire, beat, declared) ==
  LET fault == InputFault(fire, beat, declared) IN
  /\ state = "DRAIN"
  /\ CountInput(fire, beat)
  /\ body_fifo' = IF body_fifo = <<>> THEN <<>> ELSE Tail(body_fifo)
  /\ state' = IF ~fault /\ body_fifo = <<>> /\ dgram_end_seen THEN "DONE" ELSE "DRAIN"
  /\ mold_drop_o' = fault
  /\ KeepContext
  /\ KeepHeader
  /\ UNCHANGED <<vars, dropping, desc, len_fifo, dropped>>

DoneStep(len_ready) ==
  /\ state = "DONE"
  /\ ~cleanup_ready
  /\ desc' = DescLeft
  /\ len_fifo' = LengthsLeft(len_ready)
  /\ mold_drop_o' = FALSE
  /\ KeepContext
  /\ KeepHeader
  /\ UNCHANGED <<vars, state, dropping, dgram_bytes_seen, dgram_end_seen, body_fifo, dropped>>

(* Ready for the next datagram.                                            *)
Cleanup ==
  /\ cleanup_ready
  /\ state' = "HEADER" /\ header_beat_idx' = 0
  /\ dgram_len' = 0 /\ dgram_bytes_seen' = 0 /\ body_bytes_consumed' = 0
  /\ dgram_end_seen' = FALSE /\ dropping' = FALSE
  /\ messages_left' = 0 /\ payload_left' = 0 /\ len_hi' = <<>>
  /\ body_fifo' = <<>> /\ desc' = NoWord /\ len_fifo' = <<>>
  /\ mold_drop_o' = FALSE
  /\ UNCHANGED <<vars, seq_o, count_o, dropped>>

-----------------------------------------------------------------------------
(* Compactor, reservoir and output register.                               *)
NothingBuffered ==
  /\ compact' = NoWord /\ reservoir' = <<>>
  /\ released_bytes' = 0 /\ payload_generation_done' = FALSE

(* The last word of a datagram may be short; any other is full and covered *)
(* by accepted lengths.                                                    *)
EmitsLast ==
  /\ payload_generation_done
  /\ Len(reservoir) \in 1 .. AXIS_KEEP_W
  /\ released_bytes >= Len(reservoir)
EmitsFull == Len(reservoir) >= AXIS_KEEP_W /\ released_bytes >= AXIS_KEEP_W
EmitCount(payload_ready) ==
  IF IsWord(m_payload) /\ ~payload_ready THEN 0
  ELSE IF EmitsLast THEN Len(reservoir)
  ELSE IF EmitsFull THEN AXIS_KEEP_W ELSE 0

AfterOutput(payload_ready) == IF payload_ready THEN NoWord ELSE m_payload

(* While dropping, a word already presented stays until it is read.        *)
DiscardOutput(payload_ready) ==
  /\ dropping
  /\ NothingBuffered
  /\ m_payload' = AfterOutput(payload_ready)

MoveOutput(payload_ready, len_ready) ==
  LET emit == EmitCount(payload_ready) IN
  /\ ~dropping
  /\ m_payload' = IF emit = 0 THEN AfterOutput(payload_ready)
                  ELSE [bytes |-> Taking(reservoir, emit), last |-> EmitsLast]
  /\ reservoir' = Leaving(reservoir, emit) \o (IF compact_fire THEN compact.bytes ELSE <<>>)
  /\ compact' = IF desc_fire THEN desc ELSE IF compact_fire THEN NoWord ELSE compact
  /\ payload_generation_done' = (payload_generation_done \/ (compact_fire /\ compact.last))
  /\ released_bytes' =
       released_bytes - emit + (IF m_msg_len_valid_o /\ len_ready THEN Head(len_fifo) ELSE 0)

(* One clock edge: the beat offered, the length declared with it, and the  *)
(* ready inputs of both output streams.                                    *)
MoldDeframeStep(beat, declared, payload_ready, len_ready) ==
  LET fire == InputFire(beat) IN
  /\ \/ HeaderStep(fire, beat, declared)
     \/ GuardStep(fire, beat, declared)
     \/ BodyStep(fire, beat, declared, len_ready)
     \/ DrainStep(fire, beat, declared)
     \/ DoneStep(len_ready)
     \/ Cleanup
  /\ IF cleanup_ready THEN NothingBuffered /\ m_payload' = NoWord
     ELSE DiscardOutput(payload_ready) \/ MoveOutput(payload_ready, len_ready)
=============================================================================
