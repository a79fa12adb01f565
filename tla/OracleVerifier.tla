---------------------------- MODULE OracleVerifier ----------------------------
(***************************************************************************)
(* demo/oracle.py: the positional comparison of the BBO updates a board    *)
(* publishes with the sequence the golden book predicts, one sequence per  *)
(* stock.  A verifier is a record; its methods are functions of it.        *)
(***************************************************************************)
EXTENDS Integers, Sequences, FiniteSets, FiniteSetsExt

CONSTANTS
  Symbols,    \* AAPL, MSFT and NFLX
  NoMismatch  \* first_mismatch is None

(* What is kept of the first failure: where an update went wrong, or only  *)
(* what went wrong at the end.                                             *)
UpdateReasons ==
  {"missing_hardware_bbo_updates", "unexpected_hardware_bbo_state", "extra_hardware_bbo_update"}
SummaryReasons ==
  {"source_message_count", "workload_sha256", "missing_hardware_bbo_updates_at_end"}

UpdateMismatch ==
  [reason : UpdateReasons, symbol : Symbols, bbo_index : Nat, expected_index : Nat]
SummaryMismatch == [reason : SummaryReasons]

ASSUME VerifierAssumption ==
  /\ IsFiniteSet(Symbols)
  /\ NoMismatch \notin UpdateMismatch \cup SummaryMismatch

NewVerifier ==
  [positions |-> [s \in Symbols |-> 0],
   observed_positions |-> [s \in Symbols |-> 0],
   comparisons |-> 0,
   mismatches |-> 0,
   latched_fail |-> FALSE,
   first_mismatch |-> NoMismatch]

(* A failure is counted and stays; only the first one is described.        *)
Latch(v, count, mismatch) ==
  [v EXCEPT !.mismatches = @ + count,
            !.latched_fail = TRUE,
            !.first_mismatch = IF @ = NoMismatch THEN mismatch ELSE @]

(* Mutant: the last later entry that equals the update.                    *)
Resynchronised_Last(stream, at, actual) ==
  LET later == {i \in at + 1 .. Len(stream) : stream[i] = actual}
  IN  IF later = {} THEN at ELSE Max(later)

(* The first later entry that equals the update, or the place itself.      *)
Resynchronised(stream, at, actual) ==
  LET later == {i \in at + 1 .. Len(stream) : stream[i] = actual}
  IN  IF later = {} THEN at ELSE Min(later)

(* observe: one update against the entry at the stock's position.          *)
Observe(v, expected, symbol, actual) ==
  LET stream == expected[symbol]
      at == v.positions[symbol] + 1
      found == Resynchronised(stream, at, actual)
      seen == [v EXCEPT !.observed_positions[symbol] = @ + 1, !.comparisons = @ + 1]
      mismatch(reason) ==
        [reason |-> reason, symbol |-> symbol,
         bbo_index |-> v.observed_positions[symbol], expected_index |-> at - 1]
  IN
  CASE at <= Len(stream) /\ stream[at] = actual ->
         [seen EXCEPT !.positions[symbol] = at]
    [] at <= Len(stream) /\ stream[at] # actual /\ found > at ->
         [Latch(seen, found - at, mismatch("missing_hardware_bbo_updates"))
            EXCEPT !.positions[symbol] = found]
    [] at <= Len(stream) /\ stream[at] # actual /\ found = at ->
         Latch(seen, 1, mismatch("unexpected_hardware_bbo_state"))
    [] at > Len(stream) ->
         Latch(seen, 1, mismatch("extra_hardware_bbo_update"))

(* The places of every stock after one number and up to another.  Sums over *)
(* the stocks are written as the size of such a set, so that they can be   *)
(* reasoned about without recursion.                                       *)
Places(after, upto) == UNION {{s} \X (after[s] + 1 .. upto[s]) : s \in Symbols}

NoPlaces == [s \in Symbols |-> 0]
Lengths(sequences) == [s \in Symbols |-> Len(sequences[s])]
TotalLength(sequences) == Cardinality(Places(NoPlaces, Lengths(sequences)))

total_expected(expected) == TotalLength(expected)

(* The entries beyond the position of their stock.                         *)
Missing(v, expected) == Cardinality(Places(v.positions, Lengths(expected)))

LatchIf(failed, v, count, reason) ==
  IF failed THEN Latch(v, count, [reason |-> reason]) ELSE v

(* Mutant: what never came is not looked for.                              *)
Finalise_NoMissing(v, expected, count_ok, hash_ok) ==
  LatchIf(~hash_ok, LatchIf(~count_ok, v, 1, "source_message_count"), 1, "workload_sha256")

(* finalise: the length and the hash of the workload, then what never came. *)
Finalise(v, expected, count_ok, hash_ok) ==
  LET counted == LatchIf(~count_ok, v, 1, "source_message_count")
      hashed  == LatchIf(~hash_ok, counted, 1, "workload_sha256")
  IN  LatchIf(Missing(v, expected) > 0, hashed, Missing(v, expected),
              "missing_hardware_bbo_updates_at_end")

-----------------------------------------------------------------------------
(* What a verdict is worth, for the updates actually seen of every stock.  *)

(* A sequence is the elements of another at some of its places, in order.  *)
IsSubsequence(short, long) ==
  \E places \in SUBSET (1 .. Len(long)) :
    /\ Cardinality(places) = Len(short)
    /\ \A i \in places : long[i] = short[Cardinality({j \in places : j <= i})]

Agrees(expected, seen) == \A s \in Symbols : seen[s] = expected[s]
OnlyLost(expected, seen) == \A s \in Symbols : IsSubsequence(seen[s], expected[s])
=============================================================================
