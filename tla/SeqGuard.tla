------------------------------- MODULE SeqGuard -------------------------------
(***************************************************************************)
(* The packet-level sequence guard, rtl/mold_seq_guard.sv.  A step is one  *)
(* clock edge with seq_valid_i high (one MoldUDP64 header), or one edge    *)
(* with only clear_stale_i high.  The numbers the guard lets through and   *)
(* the ranges it reports are kept as history.                              *)
(*                                                                         *)
(* Sequence numbers do not wrap: the module declares 64-bit wrap out of    *)
(* scope (mold_seq_guard.sv:6), and PacketEnd is plain addition.           *)
(***************************************************************************)
EXTENDS Integers

CONSTANTS
  Packets,      \* the <<sequence, count>> headers the network may present
  COUNT_EOS,    \* the all-ones count that marks end of session
  ClearInputs   \* values clear_stale_i takes: {FALSE} as mold_deframe ties it

ASSUME SeqGuardAssumption ==
  /\ COUNT_EOS \in Nat \ {0}
  /\ Packets \subseteq Nat \X (0 .. COUNT_EOS)
  /\ ClearInputs \subseteq BOOLEAN

VARIABLES
  have_expected, stale, expected_seq, gap_start, gap_end,
  first,      \* history: the number the guard started from
  forwarded,  \* history: numbers in packets accepted by the guard
  reported    \* history: numbers in the gaps the guard reported

regs == <<have_expected, stale, expected_seq, gap_start, gap_end>>
vars == <<have_expected, stale, expected_seq, gap_start, gap_end,
          first, forwarded, reported>>

TypeOK ==
  /\ have_expected \in BOOLEAN
  /\ stale \in BOOLEAN
  /\ expected_seq \in Nat
  /\ gap_start \in Nat
  /\ gap_end \in Int
  /\ first \in Nat
  /\ forwarded \subseteq Nat
  /\ reported \subseteq Nat

-----------------------------------------------------------------------------
(* Header classification.                                                  *)

IsHeartbeat(count) == count = 0
IsEos(count)       == count = COUNT_EOS
IsStatus(count)    == IsHeartbeat(count) \/ IsEos(count)

PacketEnd(seq, count) == seq + count

(* Mutant: everything up to the expected number passes, copies included.    *)
IsDue_UpTo(seq) == ~have_expected \/ seq <= expected_seq
(* A data packet is due when nothing is expected yet or it starts exactly  *)
(* at the expected number.                                                 *)
IsDue(seq)   == ~have_expected \/ seq = expected_seq
IsAhead(seq) == have_expected /\ seq > expected_seq

Numbers(seq, count) == seq .. (PacketEnd(seq, count) - 1)

PacketBounds ==
  {p[1] : p \in Packets} \cup {PacketEnd(p[1], p[2]) : p \in Packets}

-----------------------------------------------------------------------------
Init ==
  /\ have_expected = FALSE
  /\ stale = FALSE
  /\ expected_seq = 0
  /\ gap_start = 0
  /\ gap_end = 0
  /\ first = 0
  /\ forwarded = {}
  /\ reported = {}

(* The gap registers and the sticky flag; a gap set in the same cycle as   *)
(* clear_stale_i wins, being the later nonblocking assignment.             *)
NoGap(clear) ==
  /\ stale' = (stale /\ ~clear)
  /\ UNCHANGED <<gap_start, gap_end, reported>>

(* Mutant: the inclusive end of the gap is one too far.                     *)
RecordGap_EndOffByOne(seq) ==
  /\ stale' = TRUE
  /\ gap_start' = expected_seq
  /\ gap_end' = seq
  /\ reported' = reported \cup expected_seq .. (seq - 1)

RecordGap(seq) ==
  /\ stale' = TRUE
  /\ gap_start' = expected_seq
  /\ gap_end' = seq - 1
  /\ reported' = reported \cup expected_seq .. (seq - 1)

(* The expectation moves to a number, establishing the first one if need be. *)
Expect(seq, end) ==
  /\ have_expected' = TRUE
  /\ expected_seq' = end
  /\ first' = IF have_expected THEN first ELSE seq

(* Heartbeat or end of session before anything else arrived.               *)
FirstStatus(seq, count, clear) ==
  /\ IsStatus(count)
  /\ ~have_expected
  /\ Expect(seq, seq)
  /\ NoGap(clear)
  /\ UNCHANGED forwarded

(* Heartbeat or end of session that reveals missing messages.              *)
(* Mutants: a control packet moves on without recording the gap; the clear  *)
(* takes precedence over the gap.                                           *)
StatusAhead_NoRecord(seq, count, clear) ==
  /\ IsStatus(count)
  /\ IsAhead(seq)
  /\ Expect(seq, seq)
  /\ NoGap(clear)
  /\ UNCHANGED forwarded

StatusAhead_ClearWins(seq, count, clear) ==
  /\ IsStatus(count)
  /\ IsAhead(seq)
  /\ Expect(seq, seq)
  /\ stale' = ~clear
  /\ gap_start' = expected_seq
  /\ gap_end' = seq - 1
  /\ reported' = reported \cup expected_seq .. (seq - 1)
  /\ UNCHANGED forwarded

StatusAhead(seq, count, clear) ==
  /\ IsStatus(count)
  /\ IsAhead(seq)
  /\ Expect(seq, seq)
  /\ RecordGap(seq)
  /\ UNCHANGED forwarded

(* Heartbeat or end of session at or below the expectation.                *)
StatusKept(seq, count, clear) ==
  /\ IsStatus(count)
  /\ have_expected
  /\ ~IsAhead(seq)
  /\ NoGap(clear)
  /\ UNCHANGED <<have_expected, expected_seq, first, forwarded>>

(* accept_packet_o with in_order_o.                                        *)
AcceptDue(seq, count, clear) ==
  /\ ~IsStatus(count)
  /\ IsDue(seq)
  /\ Expect(seq, PacketEnd(seq, count))
  /\ NoGap(clear)
  /\ forwarded' = forwarded \cup Numbers(seq, count)

(* accept_packet_o with gap_o: the hot path goes on past the missing range. *)
AcceptAhead(seq, count, clear) ==
  /\ ~IsStatus(count)
  /\ IsAhead(seq)
  /\ Expect(seq, PacketEnd(seq, count))
  /\ RecordGap(seq)
  /\ forwarded' = forwarded \cup Numbers(seq, count)

(* drop_packet_o with duplicate_o: the whole datagram is discarded, even   *)
(* when it reaches beyond the expectation.                                 *)
DropLate(seq, count, clear) ==
  /\ ~IsStatus(count)
  /\ ~IsDue(seq)
  /\ ~IsAhead(seq)
  /\ NoGap(clear)
  /\ UNCHANGED <<have_expected, expected_seq, first, forwarded>>

(* clear_stale_i on a cycle with no header.                                *)
ClearStale ==
  /\ TRUE \in ClearInputs
  /\ NoGap(TRUE)
  /\ UNCHANGED <<have_expected, expected_seq, first, forwarded>>

Header(seq, count, clear) ==
  \/ FirstStatus(seq, count, clear)
  \/ StatusAhead(seq, count, clear)
  \/ StatusKept(seq, count, clear)
  \/ AcceptDue(seq, count, clear)
  \/ AcceptAhead(seq, count, clear)
  \/ DropLate(seq, count, clear)

Next ==
  \/ \E p \in Packets, clear \in ClearInputs : Header(p[1], p[2], clear)
  \/ ClearStale

Spec == Init /\ [][Next]_vars

-----------------------------------------------------------------------------
(* No message is lost without a report: every number from the first one up *)
(* to the expectation was either forwarded or lies in a reported gap, and  *)
(* nothing beyond the expectation was touched.  About the packet-level     *)
(* acceptance of mold_seq_guard.sv:62-97 together with the register update. *)
NoSilentLoss ==
  forwarded \cup reported =
    IF have_expected THEN first .. (expected_seq - 1) ELSE {}

(* A reported number is never forwarded afterwards: first-copy-wins plus   *)
(* "late is dropped" means gap and delivery are exclusive verdicts.        *)
GapIsFinal == forwarded \cap reported = {}

(* The gap registers always describe a gap that is really missing, below   *)
(* the expectation, even after later accepts and clears.                   *)
GapRegistersTrue ==
  reported # {} =>
    /\ gap_start <= gap_end
    /\ gap_end < expected_seq
    /\ gap_start .. gap_end \subseteq reported

(* A packet that is forwarded carries only numbers never forwarded before  *)
(* and larger than all of them: duplicates and reordered copies of the A/B *)
(* feeds cannot apply a message twice or out of order.                     *)
ForwardOnce ==
  [][\A n \in forwarded' \ forwarded, m \in forwarded : m < n]_vars

(* A clear in the very cycle a gap is found does not hide that gap.        *)
ClearNeverHidesGap == [][reported' # reported => stale']_vars

(* The guard implements the abstract in-order feed.                        *)
Feed == INSTANCE InOrderFeed WITH
          Bounds <- PacketBounds,
          synced <- have_expected, next <- expected_seq,
          delivered <- forwarded, skipped <- reported
FeedSpec == Feed!Spec
=============================================================================
