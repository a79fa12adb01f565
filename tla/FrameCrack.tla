----------------------------- MODULE FrameCrack -----------------------------
(***************************************************************************)
(* rtl/frame_crack.sv: strips Ethernet, IPv4 and UDP headers and sends the *)
(* UDP payload on as one datagram.  A step is one clock edge.              *)
(*                                                                         *)
(* An input beat is [payload, last, ok, declared]: the payload bytes it    *)
(* carries, whether the frame ends with it, and, on the beat that holds    *)
(* the end of the headers, what their checks say and the payload length    *)
(* they declare.  Field offsets inside the header beats are left out.      *)
(***************************************************************************)
EXTENDS FeedBytes

LANES == 8            \* bytes in one beat
CARRY_LANES == 6      \* payload bytes in the first beat behind the headers
CHECK_BEAT == 4       \* the beat on which the headers are judged

NoBeat == [bytes |-> <<>>, last |-> FALSE, start |-> FALSE]   \* no valid output

VARIABLES
  fc_state,             \* "HEADER", "FIRST_PAYLOAD", "PAYLOAD", "DRAIN"
  beat_idx,             \* counts the header beats, and is not read behind them
  fc_dgram_len,
  fc_payload_left,
  carry_bytes,          \* bytes held back until the next beat completes them
  start_pending,
  flush_pending,
  reset_after_flush,
  m_axis                \* the output register, NoBeat when not valid

frame_crack_vars == <<fc_state, beat_idx, fc_dgram_len, fc_payload_left, carry_bytes,
                      start_pending, flush_pending, reset_after_flush, m_axis>>

FrameCrackInit ==
  /\ fc_state = "HEADER"
  /\ beat_idx = 0
  /\ fc_dgram_len = 0
  /\ fc_payload_left = 0
  /\ carry_bytes = <<>>
  /\ start_pending = FALSE
  /\ flush_pending = FALSE
  /\ reset_after_flush = FALSE
  /\ m_axis = NoBeat

AxisValid(beat) == beat.bytes # <<>>

(* The output register is free, or read in this cycle.                     *)
FrameOutReady(m_ready) == ~AxisValid(m_axis) \/ m_ready
s_frame_tready_o(m_ready) == FrameOutReady(m_ready) /\ ~flush_pending

(* The register after a cycle that emits nothing.                          *)
AfterHandshake(m_ready) == IF m_ready THEN NoBeat ELSE m_axis

clear_frame_state ==
  /\ fc_state' = "HEADER"
  /\ beat_idx' = 0
  /\ fc_payload_left' = 0
  /\ carry_bytes' = <<>>
  /\ start_pending' = FALSE
  /\ flush_pending' = FALSE
  /\ reset_after_flush' = FALSE

(* The frame is over, or the rest of it is passed over.                    *)
EndOrDrain(last) ==
  IF last THEN clear_frame_state
  ELSE /\ fc_state' = "DRAIN"
       /\ carry_bytes' = <<>>
       /\ fc_payload_left' = 0
       /\ start_pending' = FALSE
       /\ UNCHANGED <<beat_idx, flush_pending, reset_after_flush>>

emit_word(bytes, last) ==
  m_axis' = [bytes |-> bytes, last |-> last, start |-> start_pending]

-----------------------------------------------------------------------------
(* The rest of the last word, while no input is taken.                     *)
FlushCarry(m_ready) ==
  /\ flush_pending
  /\ FrameOutReady(m_ready)
  /\ emit_word(carry_bytes, TRUE)
  /\ UNCHANGED fc_dgram_len
  /\ IF reset_after_flush THEN clear_frame_state
     ELSE /\ fc_state' = "DRAIN"
          /\ carry_bytes' = <<>>
          /\ start_pending' = FALSE
          /\ flush_pending' = FALSE
          /\ UNCHANGED <<beat_idx, fc_payload_left, reset_after_flush>>

(* Header beats before the last; a frame that ends here is a runt.         *)
HeaderBeat(beat) ==
  /\ fc_state = "HEADER"
  /\ beat_idx < CHECK_BEAT
  /\ IF beat.last THEN clear_frame_state
     ELSE /\ beat_idx' = beat_idx + 1
          /\ UNCHANGED <<fc_state, fc_payload_left, carry_bytes, start_pending,
                         flush_pending, reset_after_flush>>
  /\ UNCHANGED fc_dgram_len

(* All header checks at once; a failure drops the whole frame.             *)
CheckHeaders(beat) ==
  /\ fc_state = "HEADER"
  /\ beat_idx = CHECK_BEAT
  /\ IF ~beat.ok \/ beat.last
     THEN /\ EndOrDrain(beat.last)
          /\ UNCHANGED fc_dgram_len
     ELSE /\ fc_dgram_len' = beat.declared
          /\ fc_payload_left' = beat.declared
          /\ start_pending' = (beat.declared # 0)
          /\ fc_state' = "FIRST_PAYLOAD"
          /\ UNCHANGED <<beat_idx, carry_bytes, flush_pending, reset_after_flush>>

Taken(beat) == Smaller(fc_payload_left, Len(beat.payload))

(* What is carried when the payload ends goes out as one more word.         *)
PayloadEnds(carry, start, last) ==
  IF carry = <<>> THEN EndOrDrain(last)
  ELSE /\ carry_bytes' = carry
       /\ fc_payload_left' = 0
       /\ start_pending' = start
       /\ flush_pending' = TRUE
       /\ reset_after_flush' = last
       /\ UNCHANGED <<fc_state, beat_idx>>

PayloadGoesOn(carry, start, left) ==
  /\ carry_bytes' = carry
  /\ fc_payload_left' = left
  /\ start_pending' = start
  /\ fc_state' = "PAYLOAD"
  /\ UNCHANGED <<beat_idx, flush_pending, reset_after_flush>>

(* The beat with the first six payload bytes, which are only carried.      *)
FirstPayload(beat) ==
  LET left  == fc_payload_left - Taken(beat)
      carry == Taking(beat.payload, Taken(beat))
  IN  /\ fc_state = "FIRST_PAYLOAD"
      /\ UNCHANGED fc_dgram_len
      /\ \/ /\ beat.last /\ left # 0
            /\ clear_frame_state
         \/ /\ left = 0
            /\ PayloadEnds(carry, start_pending, beat.last)
         \/ /\ ~beat.last /\ left # 0
            /\ PayloadGoesOn(carry, start_pending, left)

(* A word is completed from the carry; a frame that ends too early leaves  *)
(* the words it has sent without a last one.                               *)
Payload(beat, m_ready) ==
  LET left  == fc_payload_left - Taken(beat)
      whole == carry_bytes \o Taking(beat.payload, Taken(beat))
      word  == Taking(whole, LANES)
      carry == Leaving(whole, LANES)
  IN  /\ fc_state = "PAYLOAD"
      /\ UNCHANGED fc_dgram_len
      /\ \/ /\ beat.last /\ left # 0
            /\ clear_frame_state
            /\ m_axis' = AfterHandshake(m_ready)
         \/ /\ left = 0
            /\ emit_word(word, carry = <<>>)
            /\ PayloadEnds(carry, FALSE, beat.last)
         \/ /\ ~beat.last /\ left # 0
            /\ emit_word(word, FALSE)
            /\ PayloadGoesOn(carry, FALSE, left)

DrainBeat(beat) ==
  /\ fc_state = "DRAIN"
  /\ IF beat.last THEN clear_frame_state
     ELSE UNCHANGED <<fc_state, beat_idx, fc_payload_left, carry_bytes, start_pending,
                      flush_pending, reset_after_flush>>
  /\ UNCHANGED fc_dgram_len

(* One clock edge; valid says whether the source offers the beat.          *)
FrameCrackStep(valid, beat, m_ready) ==
  \/ FlushCarry(m_ready)
  \/ /\ valid /\ s_frame_tready_o(m_ready)
     /\ \/ HeaderBeat(beat) /\ m_axis' = AfterHandshake(m_ready)
        \/ CheckHeaders(beat) /\ m_axis' = AfterHandshake(m_ready)
        \/ FirstPayload(beat) /\ m_axis' = AfterHandshake(m_ready)
        \/ Payload(beat, m_ready)
        \/ DrainBeat(beat) /\ m_axis' = AfterHandshake(m_ready)
  \/ /\ ~(valid /\ s_frame_tready_o(m_ready))
     /\ ~(flush_pending /\ FrameOutReady(m_ready))
     /\ m_axis' = AfterHandshake(m_ready)
     /\ UNCHANGED <<fc_state, beat_idx, fc_dgram_len, fc_payload_left, carry_bytes,
                    start_pending, flush_pending, reset_after_flush>>
=============================================================================
