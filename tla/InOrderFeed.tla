----------------------------- MODULE InOrderFeed -----------------------------
(***************************************************************************)
(* What the receive side of the feed promises about sequence numbers,      *)
(* whatever packets carry them: message numbers are handed on once, in     *)
(* increasing order, and every number that is skipped is put on record.    *)
(* SeqGuard implements this.                                               *)
(***************************************************************************)
EXTENDS Integers

CONSTANT Bounds   \* the numbers at which a packet may begin or end

VARIABLES
  synced,     \* TRUE once a first sequence number has been established
  next,       \* the smallest number not yet handed on and not yet skipped
  delivered,  \* the numbers handed on
  skipped     \* the numbers put on record as missing

vars == <<synced, next, delivered, skipped>>

Init ==
  /\ synced = FALSE
  /\ next = 0
  /\ delivered = {}
  /\ skipped = {}

(* The first packet fixes the starting point and hands on lo .. hi - 1     *)
(* (nothing, when it is a heartbeat).                                      *)
Start(lo, hi) ==
  /\ ~synced
  /\ synced' = TRUE
  /\ next' = hi
  /\ delivered' = lo .. (hi - 1)
  /\ UNCHANGED skipped

(* Later packets hand on lo .. hi - 1 and put what lies before on record.  *)
Advance(lo, hi) ==
  /\ synced
  /\ next <= lo
  /\ next' = hi
  /\ delivered' = delivered \cup lo .. (hi - 1)
  /\ skipped' = skipped \cup next .. (lo - 1)
  /\ UNCHANGED synced

Next ==
  \E lo, hi \in Bounds :
    /\ lo <= hi
    /\ Start(lo, hi) \/ Advance(lo, hi)

Spec == Init /\ [][Next]_vars
=============================================================================
