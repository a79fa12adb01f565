------------------------------ MODULE MCIngress ------------------------------
(***************************************************************************)
(* The ingress on small feeds, and in the same run the sequence guard of   *)
(* the deframer on its own, fed with every header below MaxSeq and with    *)
(* the clear input that mold_deframe ties off.                             *)
(***************************************************************************)
EXTENDS Ingress

CONSTANTS MaxSeq, MaxCount

-----------------------------------------------------------------------------
(* Messages of nine, ten and twelve bytes: with the two bytes of length    *)
(* every alignment to the beats of eight occurs.  83 is not supported.     *)
Supported == {65}
Msg(len, type) == [len |-> len, type |-> type]

(* One packet that fills every buffer while the sink waits.                *)
LongSource ==
  [i \in 1 .. 10 |-> Msg(<<9, 12, 10>>[(i % 3) + 1], IF i % 4 = 0 THEN 83 ELSE 65)]

MCPackets ==
  {p \in (0 .. MaxSeq) \X (0 .. MaxCount) : p[1] + p[2] <= MaxSeq}
    \cup (0 .. MaxSeq) \X {COUNT_EOS}
    \cup {<<1, Len(LongSource)>>}

Defaults ==
  [source |-> <<Msg(9, 65), Msg(10, 83), Msg(12, 65), Msg(9, 65)>>, seq_start |-> 1,
   messages_per_packet |-> 2, emit_heartbeat |-> FALSE, emit_eos |-> FALSE,
   duplicate_frame |-> NoFrame, drop_frame |-> NoFrame, ab_duplicate |-> FALSE]

Sound(opts)  == [opts |-> opts, frames |-> encapsulate_bytes(opts), damaged |-> {}]
Damaged(opts, i, frame) ==
  [opts |-> opts, frames |-> [encapsulate_bytes(opts) EXCEPT ![i] = frame],
   damaged |-> {frame}]
FrameAt(opts, i) == encapsulate_bytes(opts)[i]

(* Every way to group, lose, repeat and close the feed, and the packet     *)
(* that fills the buffers.                                                 *)
SoundOptions ==
  {opts \in {[Defaults EXCEPT !.messages_per_packet = m, !.emit_heartbeat = hb,
                              !.emit_eos = eos, !.ab_duplicate = ab,
                              !.drop_frame = lost, !.duplicate_frame = again] :
               m \in 1 .. 3, hb, eos, ab \in BOOLEAN, lost, again \in 0 .. 3 \cup {NoFrame}} :
     ValidOptions(opts)}
    \cup {[Defaults EXCEPT !.source = LongSource, !.messages_per_packet = 10]}

(* Damage that leaves nothing of the packet behind: the wrong destination, *)
(* a first message longer than its packet, a frame that ends before or     *)
(* inside the first payload beat, a control packet with a body.  The second *)
(* copy of the packet is sound.                                            *)
WithByte(frame, k, value) == [frame EXCEPT !.payload[k] = Byte(value, 0)]
CutAfter(frame, n)        == [frame EXCEPT !.payload = Taking(@, n)]
WrongPort(frame)          == [frame EXCEPT !.headers_ok = FALSE]

FirstDamage(frame) ==
  {WrongPort(frame), WithByte(frame, 22, 60), WithByte(frame, 20, 0)}
    \cup {CutAfter(frame, n) : n \in {0, 5}}

TwoFeeds == [Defaults EXCEPT !.ab_duplicate = TRUE, !.emit_heartbeat = TRUE]

FirstDamages ==
  UNION {{Damaged(TwoFeeds, i, frame) : frame \in FirstDamage(FrameAt(TwoFeeds, i))} :
           i \in 1 .. 4}

(* A later message of a packet is longer than what is left of it.          *)
LaterDamages ==
  {Damaged(TwoFeeds, 1, WithByte(FrameAt(TwoFeeds, 1), 33, 60))}

GuardAlone == [opts |-> Defaults, frames |-> <<>>, damaged |-> {}]

MCFeeds == {Sound(opts) : opts \in SoundOptions} \cup FirstDamages \cup {GuardAlone}

-----------------------------------------------------------------------------
GuardStepAlone ==
  /\ feed = GuardAlone
  /\ Next
  /\ UNCHANGED <<parser_vars, output_vars, frame_crack_vars, data_realign_vars, source_vars>>

IngressClock == feed # GuardAlone /\ IngressNext

IngressSpec ==
  IngressInit /\ [][GuardStepAlone \/ IngressClock]_ingress_vars /\ IngressFairness
=============================================================================
