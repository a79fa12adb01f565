------------------------------- MODULE MCBboMux -------------------------------
(***************************************************************************)
(* Three books as in order_book_top.sv.  FIFOs of two entries instead of   *)
(* sixteen: their pointers wrap soon, and a lost turn fills them soon.     *)
(***************************************************************************)
EXTENDS BboMux, TLC

BboSymmetry == Permutations(Bbos)
=============================================================================
