------------------------------- MODULE EventFifo -------------------------------
(***************************************************************************)
(* tb/rtl/event_async_fifo_sim.sv: decoded events cross from the network   *)
(* clock to the order book clock.  Each side counts in its own domain and  *)
(* sees the other's count, in Gray code, two of its own clock edges late.  *)
(* The production wrapper rtl/event_async_fifo.v offers the same ports     *)
(* around a vendor primitive.  A step is an edge of one clock or of both;  *)
(* when both have one, a bit that is sampled while it changes may come     *)
(* through either way.                                                     *)
(***************************************************************************)
EXTENDS Integers, Sequences

CONSTANTS
  Items,    \* the events that are written
  ADDR_W,   \* address bits: 4 in the code
  NoItem    \* what a slot holds before it is first written

ASSUME EventFifoAssumption == ADDR_W \in Nat \ {0, 1} /\ NoItem \notin Items

FIFO_DEPTH == 2 ^ ADDR_W
PTR_W == ADDR_W + 1

VARIABLES
  mem,                                  \* by address
  wr_bin, wr_full,                      \* the writer's count and flag
  rd_bin, rd_empty,                     \* the reader's
  rd_gray_sync1_wr, rd_gray_sync2_wr,   \* the reader's count, as the writer sees it
  wr_gray_sync1_rd, wr_gray_sync2_rd    \* the writer's count, as the reader sees it

writer_vars == <<mem, wr_bin, wr_full, rd_gray_sync1_wr, rd_gray_sync2_wr>>
reader_vars == <<rd_bin, rd_empty, wr_gray_sync1_rd, wr_gray_sync2_rd>>
fifo_vars   == <<writer_vars, reader_vars>>

Counts == 0 .. 2 ^ PTR_W - 1
Bits   == 0 .. PTR_W - 1
Words  == [Bits -> {0, 1}]

Bit(n, i) == (n \div 2 ^ i) % 2

(* Neighbouring counts differ in one bit, the last and the first too.      *)
bin_to_gray == [n \in Counts |-> [i \in Bits |-> (Bit(n, i) + Bit(n, i + 1)) % 2]]

wr_gray == bin_to_gray[wr_bin]
rd_gray == bin_to_gray[rd_bin]

s_ready_o == ~wr_full
m_valid_o == ~rd_empty
m_data_o  == mem[rd_bin % FIFO_DEPTH]

(* Mutant: only the top bit is inverted, which is right for plain counts.  *)
FullAgainst_OneBit(word) == [word EXCEPT ![PTR_W - 1] = 1 - @]

(* The writer's count when the reader's is one round behind it.            *)
FullAgainst(word) == [word EXCEPT ![PTR_W - 1] = 1 - @, ![PTR_W - 2] = 1 - @]

(* What a flop may take in whose input goes from one word to the other.    *)
Sampled(old, new) == {word \in Words : \A i \in Bits : word[i] \in {old[i], new[i]}}

-----------------------------------------------------------------------------
FifoInit ==
  /\ mem = [a \in 0 .. FIFO_DEPTH - 1 |-> NoItem]
  /\ wr_bin = 0 /\ wr_full = FALSE
  /\ rd_bin = 0 /\ rd_empty = TRUE
  /\ rd_gray_sync1_wr = bin_to_gray[0] /\ rd_gray_sync2_wr = bin_to_gray[0]
  /\ wr_gray_sync1_rd = bin_to_gray[0] /\ wr_gray_sync2_rd = bin_to_gray[0]

(* The writer's registers at its edge; offered holds the item that is      *)
(* valid, if any.                                                          *)
WriteSide(offered) ==
  LET wr_fire == offered # <<>> /\ s_ready_o
      wr_bin_next == (wr_bin + (IF wr_fire THEN 1 ELSE 0)) % 2 ^ PTR_W
  IN /\ mem' = IF wr_fire THEN [mem EXCEPT ![wr_bin % FIFO_DEPTH] = Head(offered)] ELSE mem
     /\ wr_bin' = wr_bin_next
     /\ wr_full' = (bin_to_gray[wr_bin_next] = FullAgainst(rd_gray_sync2_wr))
     /\ rd_gray_sync2_wr' = rd_gray_sync1_wr

(* Mutant: empty is found for the count before this read.                  *)
ReadSide_CountBefore(m_ready_i) ==
  /\ rd_bin' = (rd_bin + (IF m_valid_o /\ m_ready_i THEN 1 ELSE 0)) % 2 ^ PTR_W
  /\ rd_empty' = (rd_gray = wr_gray_sync2_rd)
  /\ wr_gray_sync2_rd' = wr_gray_sync1_rd

(* The reader's.                                                           *)
ReadSide(m_ready_i) ==
  LET rd_fire == m_valid_o /\ m_ready_i
      rd_bin_next == (rd_bin + (IF rd_fire THEN 1 ELSE 0)) % 2 ^ PTR_W
  IN /\ rd_bin' = rd_bin_next
     /\ rd_empty' = (bin_to_gray[rd_bin_next] = wr_gray_sync2_rd)
     /\ wr_gray_sync2_rd' = wr_gray_sync1_rd

WriteClock(offered) ==
  /\ WriteSide(offered)
  /\ rd_gray_sync1_wr' = rd_gray
  /\ UNCHANGED reader_vars

ReadClock(m_ready_i) ==
  /\ ReadSide(m_ready_i)
  /\ wr_gray_sync1_rd' = wr_gray
  /\ UNCHANGED writer_vars

BothClocks(offered, m_ready_i) ==
  /\ WriteSide(offered)
  /\ ReadSide(m_ready_i)
  /\ rd_gray_sync1_wr' \in Sampled(rd_gray, rd_gray')
  /\ wr_gray_sync1_rd' \in Sampled(wr_gray, wr_gray')

-----------------------------------------------------------------------------
(* What has been written and not yet read.                                 *)
Contents ==
  [k \in 1 .. (wr_bin - rd_bin) % 2 ^ PTR_W |-> mem[(rd_bin + k - 1) % FIFO_DEPTH]]

Queue == INSTANCE EventQueue WITH
  DEPTH <- FIFO_DEPTH, queue <- Contents, ready <- s_ready_o, valid <- m_valid_o

(* Whatever the two clocks do to each other, the crossing is a queue: full *)
(* and empty may be seen late but never wrongly, no item is lost, doubled  *)
(* or overwritten, the item shown to the reader stands until it is taken,  *)
(* and room and items come to be known.                                    *)
FifoIsAQueue == Queue!Spec
=============================================================================
