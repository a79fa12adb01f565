------------------------------ MODULE TopOfBook ------------------------------
(***************************************************************************)
(* What a hardware order book promises: for every event about an order it  *)
(* knows it publishes one best bid and offer, in order of acceptance, and  *)
(* the k-th one is the top of the book right after the k-th event, however *)
(* many later events have been accepted meanwhile.                         *)
(***************************************************************************)
EXTENDS OrderEvents, Sequences

CONSTANT NoBbo   \* nothing published in this step

VARIABLES
  table,    \* the live orders after the events accepted so far
  pending,  \* the answers still owed, oldest first
  out       \* the answer published by the last step

vars == <<table, pending, out>>

Init ==
  /\ table = NoOrders
  /\ pending = <<>>
  /\ out = NoBbo

Owed(e) == IF Known(table, e) THEN <<BboOf(Apply(table, e))>> ELSE <<>>

(* One step may publish the oldest answer and accept an event.             *)
Step(publishes, accepted) ==
  /\ publishes => pending # <<>>
  /\ out' = IF publishes THEN Head(pending) ELSE NoBbo
  /\ LET rest == IF publishes THEN Tail(pending) ELSE pending IN
     IF accepted = {} THEN /\ pending' = rest
                           /\ table' = table
     ELSE \E e \in accepted : /\ Legal(table, e)
                              /\ pending' = rest \o Owed(e)
                              /\ table' = Apply(table, e)

Next == \E publishes \in BOOLEAN, accepted \in {{}, Events} : Step(publishes, accepted)

Spec == Init /\ [][Next]_vars
=============================================================================
