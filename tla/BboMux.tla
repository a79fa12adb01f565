-------------------------------- MODULE BboMux --------------------------------
(***************************************************************************)
(* The output side of rtl/order_book_top.sv: every book writes its answers *)
(* into a FIFO of its own, and a one-hot counter that rotates on every     *)
(* clock edge lets one FIFO after the other publish.  There is no test for *)
(* a full FIFO.  A step is one rising clock edge after reset.              *)
(*                                                                         *)
(* What the books do is taken from OrderBookPipeline: two answers of one   *)
(* book are at least SPACING edges apart (AnswersSpaced).                  *)
(***************************************************************************)
EXTENDS Integers, Sequences

CONSTANTS
  STOCKS,      \* number of books
  FIFO_DEPTH,  \* entries of each FIFO, a pointer wraps after the last
  SPACING,     \* edges between two answers of one book, MIN_ENTRY_GAP
  Bbos,        \* what an answer may say
  NoBbo

ASSUME BboMuxAssumption ==
  /\ STOCKS \in Nat \ {0}
  /\ FIFO_DEPTH \in Nat
  /\ FIFO_DEPTH >= 2
  /\ SPACING \in Nat
  /\ SPACING > STOCKS
  /\ NoBbo \notin Bbos

VARIABLES
  bbo_in,          \* the output registers of the books
  since,           \* edges since each book's last answer, up to SPACING
  fifo,            \* contents of the FIFO memories
  wr_ptr, rd_ptr,  \* their pointers
  count,           \* whose turn it is: position of the one-hot bit
  out,             \* bbo_data_o with its stock_id; NoBbo if not valid
  owed             \* history: answers given and not published, per book

vars == <<bbo_in, since, fifo, wr_ptr, rd_ptr, count, out, owed>>

Stocks == 0 .. STOCKS - 1
Pointers == 0 .. FIFO_DEPTH - 1

Succ(ptr) == IF ptr = FIFO_DEPTH - 1 THEN 0 ELSE ptr + 1

Published == [stock_id : Stocks, bbo : Bbos]

TypeOK ==
  /\ bbo_in \in [Stocks -> Bbos \cup {NoBbo}]
  /\ since \in [Stocks -> 0 .. SPACING]
  /\ fifo \in [Stocks -> [Pointers -> Bbos \cup {NoBbo}]]
  /\ wr_ptr \in [Stocks -> Pointers]
  /\ rd_ptr \in [Stocks -> Pointers]
  /\ count \in Stocks
  /\ out \in Published \cup {NoBbo}
  /\ owed \in [Stocks -> Seq(Bbos)]

empty(s) == wr_ptr[s] = rd_ptr[s]

Init ==
  /\ bbo_in = [s \in Stocks |-> NoBbo]
  /\ since = [s \in Stocks |-> SPACING]
  /\ fifo = [s \in Stocks |-> [p \in Pointers |-> NoBbo]]
  /\ wr_ptr = [s \in Stocks |-> 0]
  /\ rd_ptr = [s \in Stocks |-> 0]
  /\ count = 0
  /\ out = NoBbo
  /\ owed = [s \in Stocks |-> <<>>]

(* Mutants: the last book is left out of the rotation; the rotation waits  *)
(* at an empty FIFO.                                                       *)
NextTurn_SkipsLast == IF count >= STOCKS - 2 THEN 0 ELSE count + 1
NextTurn_WaitsHere == IF empty(count) THEN count
                      ELSE IF count = STOCKS - 1 THEN 0 ELSE count + 1

NextTurn == IF count = STOCKS - 1 THEN 0 ELSE count + 1

(* The books: each may have an answer, if its last one is long enough ago. *)
Books ==
  /\ bbo_in' \in [Stocks -> Bbos \cup {NoBbo}]
  /\ \A s \in Stocks : bbo_in'[s] # NoBbo => since[s] + 1 >= SPACING
  /\ since' = [s \in Stocks |->
       IF bbo_in'[s] # NoBbo THEN 0
       ELSE IF since[s] < SPACING THEN since[s] + 1 ELSE SPACING]

(* Every answer is written, whatever the FIFO holds.                       *)
Write ==
  /\ fifo' = [s \in Stocks |->
       IF bbo_in[s] = NoBbo THEN fifo[s] ELSE [fifo[s] EXCEPT ![wr_ptr[s]] = bbo_in[s]]]
  /\ wr_ptr' = [s \in Stocks |->
       IF bbo_in[s] = NoBbo THEN wr_ptr[s] ELSE Succ(wr_ptr[s])]

Written(s) == IF bbo_in[s] = NoBbo THEN <<>> ELSE <<bbo_in[s]>>

(* Mutant: stock_id is taken from the counter after it has rotated.        *)
Publish_NextId ==
  /\ ~empty(count)
  /\ Books
  /\ Write
  /\ out' = [stock_id |-> NextTurn, bbo |-> fifo[count][rd_ptr[count]]]
  /\ rd_ptr' = [rd_ptr EXCEPT ![count] = Succ(@)]
  /\ count' = NextTurn
  /\ owed' = [s \in Stocks |->
       (IF s = count /\ owed[s] # <<>> THEN Tail(owed[s]) ELSE owed[s]) \o Written(s)]

(* The FIFO whose turn it is publishes its oldest entry.                   *)
Publish ==
  /\ ~empty(count)
  /\ Books
  /\ Write
  /\ out' = [stock_id |-> count, bbo |-> fifo[count][rd_ptr[count]]]
  /\ rd_ptr' = [rd_ptr EXCEPT ![count] = Succ(@)]
  /\ count' = NextTurn
  /\ owed' = [s \in Stocks |->
       (IF s = count /\ owed[s] # <<>> THEN Tail(owed[s]) ELSE owed[s]) \o Written(s)]

(* The FIFO whose turn it is has nothing; the turn passes on all the same. *)
Pass ==
  /\ empty(count)
  /\ Books
  /\ Write
  /\ out' = NoBbo
  /\ UNCHANGED rd_ptr
  /\ count' = NextTurn
  /\ owed' = [s \in Stocks |-> owed[s] \o Written(s)]

Next == Publish \/ Pass

Spec == Init /\ [][Next]_vars

-----------------------------------------------------------------------------
(* No FIFO ever holds more than one answer, and that one is unread: with   *)
(* the spacing the pipeline keeps, the missing test for a full FIFO is no  *)
(* issue (order_book_top.sv:89), and no answer is overwritten or read      *)
(* twice.                                                                  *)
FifoHoldsWhatIsOwed ==
  \A s \in Stocks :
    IF empty(s) THEN owed[s] = <<>>
    ELSE owed[s] = <<fifo[s][rd_ptr[s]]>> /\ wr_ptr[s] = Succ(rd_ptr[s])

(* What is published is the oldest answer still owed by the book whose     *)
(* stock_id it carries: the round robin neither reorders the answers of a  *)
(* book nor mislabels, repeats or invents one.                             *)
PublishesOldest ==
  [][out' # NoBbo =>
       /\ owed[out'.stock_id] # <<>>
       /\ out'.bbo = Head(owed[out'.stock_id])]_vars

(* An answer waits at most one round: a book that gave its last answer     *)
(* more than STOCKS edges ago has nothing left to publish, which bounds    *)
(* the output latency as docs/rtl_datapath.md:254 states.                  *)
ServedWithinARound == \A s \in Stocks : since[s] > STOCKS => owed[s] = <<>>
=============================================================================
