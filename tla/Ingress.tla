------------------------------- MODULE Ingress -------------------------------
(***************************************************************************)
(* rtl/ingress_data_realign_top.sv: frame cracker, deframer and realigner  *)
(* on one clock, between the frames of the encapsulator and the event      *)
(* FIFO.  A step is one clock edge; the source of frames may pause in any  *)
(* cycle, and so may the sink of events.                                   *)
(*                                                                         *)
(* feed is chosen at the start: the options the frames were made with, the *)
(* frames as they arrive, and which of them the wire has damaged.          *)
(***************************************************************************)
EXTENDS NetworkEncapsulator, FrameCrack, MoldDeframe, DataRealign

CONSTANT Feeds

(* What arrives behind the headers are bytes, whatever the wire has done   *)
(* to them.                                                                *)
Frames == [headers_ok : BOOLEAN, declared : Nat, payload : Seq(Nat)]

ASSUME FeedsAssumption == \A arriving \in Feeds : arriving.frames \in Seq(Frames)

VARIABLES
  feed,
  frame_idx,     \* the frame on the wire, and its next beat
  beat_no

source_vars == <<feed, frame_idx, beat_no>>
ingress_vars == <<mold_deframe_vars, frame_crack_vars, data_realign_vars, source_vars>>

IngressInit ==
  /\ FrameCrackInit /\ MoldDeframeInit /\ DataRealignInit
  /\ feed \in Feeds
  /\ frame_idx = 1 /\ beat_no = 1

-----------------------------------------------------------------------------
(* A frame in beats of eight bytes: five of headers, the last of which can *)
(* be judged, one with the end of the headers and six bytes of payload,    *)
(* and the rest.                                                           *)
HEADER_BEATS == CHECK_BEAT + 1

BeatCount(frame) ==
  HEADER_BEATS + (Len(frame.payload) + LANES - CARRY_LANES + LANES - 1) \div LANES

BeatPayload(frame, k) ==
  IF k <= HEADER_BEATS THEN <<>>
  ELSE IF k = HEADER_BEATS + 1 THEN Taking(frame.payload, CARRY_LANES)
  ELSE Taking(Leaving(frame.payload, CARRY_LANES + (k - HEADER_BEATS - 2) * LANES), LANES)

BeatOf(frame, k) ==
  [payload |-> BeatPayload(frame, k), last |-> k = BeatCount(frame),
   ok |-> frame.headers_ok, declared |-> frame.declared]

AllSent == frame_idx > Len(feed.frames)
frame_now == feed.frames[frame_idx]

SourceStep(fires) ==
  /\ UNCHANGED feed
  /\ IF ~fires THEN UNCHANGED <<frame_idx, beat_no>>
     ELSE IF beat_no = BeatCount(frame_now)
          THEN frame_idx' = frame_idx + 1 /\ beat_no' = 1
          ELSE frame_idx' = frame_idx /\ beat_no' = beat_no + 1

-----------------------------------------------------------------------------
(* One clock edge of all three: every ready is read off the registers.     *)
Clock(valid, ready) ==
  /\ valid => ~AllSent
  /\ SourceStep(valid /\ s_frame_tready_o(s_axis_tready_o))
  /\ FrameCrackStep(valid, BeatOf(frame_now, beat_no), s_axis_tready_o)
  /\ MoldDeframeStep(m_axis, fc_dgram_len, s_payload_tready_o(m_payload, ready),
                     s_msg_len_ready_o)
  /\ DataRealignStep(m_payload, m_msg_len_valid_o, Head(len_fifo), ready)

IngressNext == \E valid, ready \in BOOLEAN : Clock(valid, ready)

IngressSafety == IngressInit /\ [][IngressNext]_ingress_vars

(* The source goes on and the sink is ready, again and again.              *)
IngressFairness == WF_ingress_vars(Clock(~AllSent, TRUE))

-----------------------------------------------------------------------------
(* Nothing is on its way.                                                  *)
AtRest ==
  /\ feed.frames # <<>> /\ AllSent
  /\ ~AxisValid(m_axis) /\ ~flush_pending
  /\ state = "HEADER"
  /\ ~IsWord(m_payload) /\ ~EventValid

SourceOf(n) == feed.opts.source[n - feed.opts.seq_start + 1]
SourceNumbers ==
  feed.opts.seq_start .. feed.opts.seq_start + Len(feed.opts.source) - 1
IsMessage(event) ==
  \E n \in SourceNumbers : event = [size |-> SourceOf(n).len, of |-> {n}]
NumberOf(event) == CHOOSE n \in event.of : TRUE

(* Every event was decoded from the bytes of exactly one message, all of   *)
(* them, which the guard let through; no message makes two events, and     *)
(* they come in order.  About the three stages together, which share no    *)
(* message boundary except the streams of words and of lengths.            *)
EventsAreMessages ==
  /\ \A i \in DOMAIN events : IsMessage(events[i]) /\ events[i].of \subseteq forwarded
  /\ \A i, j \in DOMAIN events : i < j => NumberOf(events[i]) < NumberOf(events[j])

(* No buffer takes more than it has room for.                              *)
BuffersHaveRoom ==
  /\ Len(reservoir) <= RESERVOIR_BYTES
  /\ Len(body_fifo) <= BODY_FIFO_DEPTH
  /\ Len(lengths) <= LEN_FIFO_DEPTH

(* The message bytes a queue of lengths announces, as <<length, byte>>.    *)
BytesOf(lens) == UNION {{i} \X (1 .. lens[i]) : i \in DOMAIN lens}
SumOf(lens)   == Cardinality(BytesOf(lens))

(* The lengths accepted by data_realign account for exactly the bytes that *)
(* mold_deframe may still send it and has presented; the two keep these    *)
(* books apart.  Every buffer has room, and data_realign never finds a     *)
(* word and the lengths at odds.                                           *)
LengthsCoverBytes ==
  /\ message.left + SumOf(lengths) = released_bytes + Len(m_payload.bytes)
  /\ BuffersHaveRoom
  /\ realign_err = "NONE"

(* When all is quiet, the events are the messages that the decoder of the  *)
(* encapsulator finds in the frames, each one once, less the unsupported   *)
(* types and the packets the deframer has dropped; what is neither, up to  *)
(* the number announced last, is in a reported gap.                        *)
Intact == SelectSeq(feed.frames, LAMBDA frame : frame \notin feed.damaged)
Recovered == ToSet(recover_itch_payloads(Intact))
Announced == feed.opts.emit_heartbeat \/ feed.opts.emit_eos
EventNumbers == {NumberOf(events[i]) : i \in DOMAIN events}

AllAccountedFor ==
  AtRest =>
    /\ forwarded = (first .. expected_seq - 1) \ reported
    /\ EventNumbers = {n \in forwarded \ dropped : SourceOf(n).type \in SupportedTypes}
    /\ forwarded = Recovered \cup dropped
    /\ Announced => expected_seq = final_seq(feed.opts)

(* Every feed is taken in to its end, and the ingress is ready for more.   *)
FeedConsumed == feed.frames # <<>> => <>AtRest
=============================================================================
