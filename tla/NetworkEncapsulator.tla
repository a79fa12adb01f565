------------------------ MODULE NetworkEncapsulator ------------------------
(***************************************************************************)
(* golden/network_encapsulator.py: how a list of ITCH messages becomes     *)
(* frames, with the faults it can inject (a lost frame, a second copy, the *)
(* A and B feeds, control packets), and what its own decoder gets back     *)
(* from them.                                                              *)
(*                                                                         *)
(* A message of the source is [len, type]; its sequence number names it.   *)
(***************************************************************************)
EXTENDS FeedBytes, SequencesExt

CONSTANT NoFrame   \* stands for None where a frame index is optional

MOLD_SESSION_LEN == 10
MOLD_HEADER_LEN  == 20
MOLD_EOS_COUNT   == 65535

(* A number in length bytes, big end first.                                *)
uint(value, length) ==
  [i \in 1 .. length |->
     Byte(IF length - i > 1 THEN 0
          ELSE IF length - i = 1 THEN (value \div 256) % 256 ELSE value % 256, 0)]

-----------------------------------------------------------------------------
(* Options of encapsulate_bytes, and which of them it refuses.             *)
IsData(plan) == plan.kind = "DATA"

(* The source in groups; the last one may be smaller.                      *)
GroupSize(opts, index) ==
  LET left == Len(opts.source) - index * opts.messages_per_packet
  IN  IF left < opts.messages_per_packet THEN left ELSE opts.messages_per_packet

DataFrames(opts) ==
  (Len(opts.source) + opts.messages_per_packet - 1) \div opts.messages_per_packet

DataPlan(opts, index) ==
  [kind |-> "DATA", index |-> index,
   seq |-> opts.seq_start + index * opts.messages_per_packet,
   count |-> GroupSize(opts, index),
   messages |-> [i \in 1 .. GroupSize(opts, index) |->
                   index * opts.messages_per_packet + i]]

ControlPlan(opts, kind, count) ==
  [kind |-> kind, index |-> NoFrame, seq |-> opts.seq_start + Len(opts.source),
   count |-> count, messages |-> <<>>]

build_frame_plans(opts) ==
  [i \in 1 .. DataFrames(opts) |-> DataPlan(opts, i - 1)]
    \o (IF opts.emit_heartbeat THEN <<ControlPlan(opts, "HEARTBEAT", 0)>> ELSE <<>>)
    \o (IF opts.emit_eos THEN <<ControlPlan(opts, "EOS", MOLD_EOS_COUNT)>> ELSE <<>>)

expected_next(plan) == IF IsData(plan) THEN plan.seq + plan.count ELSE plan.seq

ValidOptions(opts) ==
  /\ opts.messages_per_packet \in 1 .. MOLD_EOS_COUNT - 1
  /\ opts.duplicate_frame \in 0 .. DataFrames(opts) - 1 \cup {NoFrame}
  /\ opts.drop_frame \in 0 .. DataFrames(opts) - 1 \cup {NoFrame}
  /\ opts.duplicate_frame = opts.drop_frame => opts.drop_frame = NoFrame

(* Every copy of a plan that is written: none if it is dropped, the B feed *)
(* after the A feed, the requested duplicate last.                         *)
Copies(opts, plan) ==
  IF IsData(plan) /\ plan.index = opts.drop_frame THEN <<>>
  ELSE <<plan>>
         \o (IF opts.ab_duplicate /\ IsData(plan) THEN <<plan>> ELSE <<>>)
         \o (IF IsData(plan) /\ plan.index = opts.duplicate_frame THEN <<plan>> ELSE <<>>)

Written(opts) ==
  FlattenSeq([i \in DOMAIN build_frame_plans(opts) |->
                Copies(opts, build_frame_plans(opts)[i])])

final_seq(opts) ==
  IF build_frame_plans(opts) = <<>> THEN opts.seq_start
  ELSE expected_next(Last(build_frame_plans(opts)))

-----------------------------------------------------------------------------
(* Bytes of one MoldUDP64 datagram.  The session is text.                  *)
MessageBytes(opts, i) ==
  uint(opts.source[i].len, 2)
    \o [k \in 1 .. opts.source[i].len |->
          Byte(opts.source[i].type, opts.seq_start + i - 1)]

build_mold_payload(opts, plan) ==
  [k \in 1 .. MOLD_SESSION_LEN |-> Byte(83, 0)]
    \o uint(plan.seq, 8) \o uint(plan.count, 2)
    \o FlattenSeq([k \in DOMAIN plan.messages |-> MessageBytes(opts, plan.messages[k])])

(* A frame: do the Ethernet, IPv4 and UDP headers pass, the length the UDP *)
(* header declares, and the bytes after the headers that really arrive.    *)
build_wire_frame(opts, plan) ==
  LET payload == build_mold_payload(opts, plan)
  IN  [headers_ok |-> TRUE, declared |-> Len(payload), payload |-> payload]

encapsulate_bytes(opts) ==
  [i \in DOMAIN Written(opts) |-> build_wire_frame(opts, Written(opts)[i])]

-----------------------------------------------------------------------------
(* recover_itch_payloads: the message blocks of every data frame, in the   *)
(* order they were written, copies included, named by their owner.         *)
MoldSeq(payload)   == Number(payload[17], payload[18])
MoldCount(payload) == Number(payload[19], payload[20])

iter_mold_messages(payload) ==
  LET count == MoldCount(payload)
      (* start[n]: where the length of the n-th message stands.            *)
      start[n \in 1 .. count] ==
        IF n = 1 THEN MOLD_HEADER_LEN + 1
        ELSE start[n - 1] + 2 + Number(payload[start[n - 1]], payload[start[n - 1] + 1])
  IN  IF count \in {0, MOLD_EOS_COUNT} THEN <<>>
      ELSE [n \in 1 .. count |-> Owner(payload[start[n] + 2])]

recover_itch_payloads(frames) ==
  FlattenSeq([i \in DOMAIN frames |-> iter_mold_messages(frames[i].payload)])
=============================================================================
