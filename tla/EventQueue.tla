------------------------------ MODULE EventQueue ------------------------------
(***************************************************************************)
(* What the event crossing promises to both of its sides, whatever lies    *)
(* between the clocks: a bounded queue whose writer is told when there is  *)
(* room and whose reader is told when there is an event.  Either may be    *)
(* told late, never wrongly, and what was said once stays true until it is *)
(* used.  The reader's half is what SymbolRouter assumes of its source.    *)
(* EventFifo implements this.                                              *)
(***************************************************************************)
EXTENDS Naturals, Sequences

CONSTANTS
  Items,   \* what the queue may hold
  DEPTH    \* how much it holds

VARIABLES
  queue,   \* written and not yet read, oldest first
  ready,   \* the writer may put an item
  valid    \* the reader may get the oldest one

vars == <<queue, ready, valid>>

Init ==
  /\ queue = <<>>
  /\ ready \in BOOLEAN
  /\ valid = FALSE

Oldest == IF queue = <<>> THEN <<>> ELSE <<Head(queue)>>

(* One item or none is put, one item or none is got.                       *)
Move ==
  \E put \in {<<>>} \cup {<<x>> : x \in Items}, got \in {<<>>, Oldest} :
    /\ queue \o put = got \o queue'
    /\ put # <<>> => ready
    /\ got # <<>> => valid
    /\ ready /\ put = <<>> => ready'
    /\ valid /\ got = <<>> => valid'
    /\ ready' => Len(queue') < DEPTH
    /\ valid' => queue' # <<>>

(* Room and items come to be known.                                        *)
NewsArrives ==
  /\ (Len(queue) < DEPTH) ~> ready
  /\ (queue # <<>>) ~> valid

Safety == Init /\ [][Move]_vars

Spec == Safety /\ NewsArrives
=============================================================================
