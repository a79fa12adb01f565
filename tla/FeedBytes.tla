------------------------------ MODULE FeedBytes ------------------------------
(***************************************************************************)
(* Bytes of the feed.  A byte is a number: its value, and above it the     *)
(* number of the ITCH message it belongs to (0 for framing), so that a     *)
(* property can see where a byte came from while the parsers see values.   *)
(* A word is the sequence of the bytes valid in one beat.                  *)
(***************************************************************************)
EXTENDS Integers, Sequences

Byte(value, message) == value + 256 * message
Value(byte) == byte % 256
Owner(byte) == byte \div 256

(* Two bytes read as one big-endian number.                                *)
Number(high, low) == 256 * Value(high) + Value(low)

Smaller(a, b)     == IF a < b THEN a ELSE b
Taking(bytes, n)  == SubSeq(bytes, 1, Smaller(n, Len(bytes)))
Leaving(bytes, n) == SubSeq(bytes, n + 1, Len(bytes))
=============================================================================
