----------------------------- MODULE DataRealign -----------------------------
(***************************************************************************)
(* rtl/data_realign.sv: the packed stream of message bytes and the stream  *)
(* of message lengths become one event per supported message.  A step is   *)
(* one clock edge.                                                         *)
(*                                                                         *)
(* Which field a byte lands in is left out; the message under construction *)
(* keeps where its bytes came from.  Lengths of zero are left out, too:    *)
(* the deframer never sends one.                                           *)
(***************************************************************************)
EXTENDS FeedBytes

CONSTANTS
  SupportedTypes,     \* the message types that make an event
  LEN_FIFO_DEPTH

ASSUME DataRealignAssumption == LEN_FIFO_DEPTH \in Nat \ {0, 1}

BEAT_BYTES == 8

(* The message under construction, and none.                               *)
NoMessage == [left |-> 0, size |-> 0, type |-> 0, of |-> {}]
NewMessage(length) == [left |-> length, size |-> length, type |-> 0, of |-> {}]
NoEventOut == [size |-> 0, of |-> {}]

VARIABLES
  lengths,            \* FIFO of the lengths accepted ahead
  message,
  event_out,          \* elastic output register
  dropping_payload,   \* passing over the rest of a datagram
  realign_err,
  events              \* history: events the sink has taken

data_realign_vars == <<lengths, message, event_out, dropping_payload, realign_err, events>>

DataRealignInit ==
  /\ lengths = <<>>
  /\ message = NoMessage
  /\ event_out = NoEventOut
  /\ dropping_payload = FALSE
  /\ realign_err = "NONE"
  /\ events = <<>>

HaveMessage == message.left > 0
EventValid == event_out.size > 0

-----------------------------------------------------------------------------
(* Mutant: a word that ends with the message waits for a length, too.      *)
s_payload_tready_o_AtEnd(word, ready_i) ==
  \/ dropping_payload
  \/ /\ HaveMessage
     /\ ~EventValid \/ ready_i
     /\ message.left <= Len(word.bytes) => lengths # <<>>

(* A word that reaches into the next message waits for its length.         *)
s_payload_tready_o(word, ready_i) ==
  \/ dropping_payload
  \/ /\ HaveMessage
     /\ ~EventValid \/ ready_i
     /\ message.left < Len(word.bytes) => lengths # <<>>

s_msg_len_ready_o == dropping_payload \/ Len(lengths) < LEN_FIFO_DEPTH

Capture(msg, bytes) ==
  [msg EXCEPT !.left = @ - Len(bytes),
              !.type = IF msg.left = msg.size THEN Value(bytes[1]) ELSE @,
              !.of   = @ \cup {Owner(bytes[i]) : i \in DOMAIN bytes}]

-----------------------------------------------------------------------------
(* What a word does to the message and the lengths.                        *)
Result(msg, lens, err, drop) == [msg |-> msg, lens |-> lens, err |-> err, drop |-> drop]
Nothing == Result(message, lengths, "NONE", FALSE)
Failed(err, drop) == Result(NoMessage, <<>>, err, drop)

Captured(word) == Capture(message, Taking(word.bytes, message.left))
Completes(word) == Captured(word).left = 0
Behind(word) == Leaving(word.bytes, message.left)   \* bytes of the next message

(* The next message begins in the same word.                               *)
BeginNext(word) ==
  IF lengths = <<>> \/ Head(lengths) <= Len(Behind(word))
  THEN Failed("PAYLOAD_OVERFLOW", ~word.last)
  ELSE Result(Capture(NewMessage(Head(lengths)), Behind(word)), Tail(lengths), "NONE", FALSE)

Consumed(word) ==
  LET taken == IF ~Completes(word) THEN Result(Captured(word), lengths, "NONE", FALSE)
               ELSE IF Behind(word) = <<>> THEN Result(NoMessage, lengths, "NONE", FALSE)
               ELSE BeginNext(word)
  IN  IF word.last /\ taken.err = "NONE" /\ (taken.msg.left > 0 \/ taken.lens # <<>>)
      THEN Failed("PAYLOAD_UNDERFLOW", FALSE)
      ELSE taken

ConsumeWord(word) ==
  IF ~word.last /\ Len(word.bytes) # BEAT_BYTES THEN Failed("BAD_TKEEP", TRUE)
  ELSE IF ~HaveMessage THEN Failed("PAYLOAD_OVERFLOW", ~word.last)
  ELSE Consumed(word)

(* A message that ended at the end of a word is followed by the next one   *)
(* whose length is known.                                                  *)
Prefetched(res) ==
  IF res.msg.left = 0 /\ res.lens # <<>>
  THEN [res EXCEPT !.msg = NewMessage(Head(res.lens)), !.lens = Tail(res.lens)]
  ELSE res

Accepted(res, length) ==
  IF res.msg.left = 0 /\ res.lens = <<>> THEN [res EXCEPT !.msg = NewMessage(length)]
  ELSE [res EXCEPT !.lens = Append(@, length)]

-----------------------------------------------------------------------------
(* The output register and what the sink takes from it.                    *)
SinkTakes(ready_i) ==
  events' = IF EventValid /\ ready_i THEN Append(events, event_out) ELSE events

AfterSink(ready_i) == IF ready_i THEN NoEventOut ELSE event_out

Completed(fires, word, ready_i) ==
  IF fires /\ HaveMessage /\ Completes(word) /\ Captured(word).type \in SupportedTypes
  THEN [size |-> message.size, of |-> Captured(word).of]
  ELSE AfterSink(ready_i)

(* The rest of a datagram is passed over up to its last word; lengths that *)
(* arrive meanwhile are lost.                                              *)
DropPayload(fires, word, ready_i) ==
  /\ dropping_payload
  /\ dropping_payload' = ~(fires /\ word.last)
  /\ IF fires /\ word.last THEN lengths' = <<>> /\ message' = NoMessage
     ELSE UNCHANGED <<lengths, message>>
  /\ event_out' = AfterSink(ready_i)
  /\ realign_err' = "NONE"

Realign(fires, word, len_fires, length, ready_i) ==
  LET res  == IF fires THEN ConsumeWord(word) ELSE Nothing
      next == IF res.err # "NONE" THEN res
              ELSE IF len_fires THEN Accepted(Prefetched(res), length)
              ELSE Prefetched(res)
  IN  /\ ~dropping_payload
      /\ message' = next.msg
      /\ lengths' = next.lens
      /\ dropping_payload' = next.drop
      /\ realign_err' = next.err
      /\ event_out' = Completed(fires /\ (word.last \/ Len(word.bytes) = BEAT_BYTES),
                                word, ready_i)

(* One clock edge: the word and the length offered, and the ready of the   *)
(* sink.                                                                   *)
DataRealignStep(word, len_valid, length, ready_i) ==
  LET fires     == word.bytes # <<>> /\ s_payload_tready_o(word, ready_i)
      len_fires == len_valid /\ s_msg_len_ready_o
  IN  /\ SinkTakes(ready_i)
      /\ \/ DropPayload(fires, word, ready_i)
         \/ Realign(fires, word, len_fires, length, ready_i)
=============================================================================
