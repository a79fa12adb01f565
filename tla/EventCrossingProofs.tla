-------------------------- MODULE EventCrossingProofs --------------------------
(***************************************************************************)
(* Proofs about the event FIFO and the symbol router behind it             *)
(* (tb/rtl/event_async_fifo_sim.sv, rtl/symbol_router.sv), for any depth   *)
(* that is a power of two, any stocks, base prices, window and events, and *)
(* any order of the clocks' edges.                                         *)
(*                                                                         *)
(* The router: what the shared register means.  When it is valid for a     *)
(* book it holds an event of that book's stock, with that stock's base     *)
(* price beside it and a price inside the window, and it is all the book   *)
(* is owed.  Hold keeps the three registers together, which is what makes  *)
(* this inductive although ready and the offered event change freely.      *)
(*                                                                         *)
(* The FIFO: its counters count modulo two rounds of the memory, so the    *)
(* invariant says that there are numbers of writes and of reads, never     *)
(* more than a round apart, of which the counters are the remainders, and  *)
(* earlier ones whose Gray codes stand in the synchronisers.  That a code  *)
(* taken in while it changes is the old one or the new one, that equal     *)
(* codes mean equal counts, and that a full round is seen at the two top   *)
(* bits, are facts about Gray code proved first, from the powers of two    *)
(* up; powers of two are the numbers of the subsets of finite sets, which  *)
(* is what the library knows of them.                                      *)
(***************************************************************************)
EXTENDS EventCrossing, FiniteSetTheorems, FunctionTheorems, SequenceTheorems,
  WellFoundedInduction, TLAPS

-----------------------------------------------------------------------------
(* The router.                                                             *)

RegisterIsMeant ==
  valid # NoStock => /\ rdata \in Events
                     /\ Routed(rdata)
                     /\ rdata.locate = valid
                     /\ base_price = BasePrice[valid]

IInv == TypeOK /\ RegisterIsMeant /\ RegisterHoldsWhatIsOwed

-----------------------------------------------------------------------------
LEMMA EventFields ==
  ASSUME NEW e \in Events
  PROVE  e.locate \in Locates /\ e.priced \in BOOLEAN /\ e.price \in Nat
BY SymbolRouterAssumption DEF EventRecords

LEMMA TargetIsNat ==
  ASSUME NEW e \in Events
  PROVE  target_base_price(e) \in Nat
BY SymbolRouterAssumption DEF target_base_price

(* What remains owed to a book is in the register, unless it was delivered. *)
LEMMA RestOfABook ==
  ASSUME IInv, NEW s \in Stocks
  PROVE  Rest(s) = IF valid = s /\ s \notin ready THEN <<rdata>> ELSE <<>>
<1>1. owed[s] = IF valid = s THEN <<rdata>> ELSE <<>>
  BY DEF IInv, RegisterHoldsWhatIsOwed
<1>2. <<rdata>> # <<>> /\ Tail(<<rdata>>) = <<>>
  OBVIOUS
<1> QED
  BY <1>1, <1>2 DEF Rest

LEMMA InitHolds == Init => IInv
<1> SUFFICES ASSUME Init PROVE IInv
  OBVIOUS
<1> USE SymbolRouterAssumption
<1>1. TypeOK
  <2>1. owed \in [Stocks -> Seq(Events)]
    BY DEF Init
  <2>2. ready \subseteq Stocks
    BY DEF Init
  <2> QED
    BY <2>1, <2>2 DEF Init, TypeOK
<1>2. RegisterIsMeant /\ RegisterHoldsWhatIsOwed
  BY DEF Init, RegisterIsMeant, RegisterHoldsWhatIsOwed
<1> QED
  BY <1>1, <1>2 DEF IInv

(* After an edge the register is valid for a routed event that was just    *)
(* taken, or for the one it held, and for nothing else.                    *)
LEMMA RegisterAfter ==
  ASSUME IInv, Next
  PROVE  /\ Edge
         /\ delivering => ~handshake /\ valid' = valid /\ rdata' = rdata
                          /\ base_price' = base_price
         /\ ~delivering /\ handshake /\ Routed(event) =>
              /\ valid' = event.locate
              /\ rdata' = event
              /\ base_price' = BasePrice[event.locate]
         /\ ~delivering /\ ~(handshake /\ Routed(event)) => valid' = NoStock
BY DEF Next, Router, Hold, Idle, Route, Discard, handshake, ready_o

LEMMA StepKeepsMeaning == IInv /\ Next => RegisterIsMeant'
<1> SUFFICES ASSUME IInv, Next PROVE RegisterIsMeant'
  OBVIOUS
<1> USE SymbolRouterAssumption
<1>1. TypeOK /\ RegisterIsMeant
  BY DEF IInv
<1>2. CASE delivering
  BY <1>1, <1>2, RegisterAfter DEF RegisterIsMeant, Routed, in_bounds, target_base_price
<1>3. CASE ~delivering /\ handshake /\ Routed(event)
  <2>1. event \in Events
    BY <1>1, <1>3 DEF handshake, TypeOK
  <2> QED
    BY <2>1, <1>3, RegisterAfter DEF RegisterIsMeant, Routed, in_bounds, target_base_price
<1>4. CASE ~delivering /\ ~(handshake /\ Routed(event))
  BY <1>4, RegisterAfter DEF RegisterIsMeant
<1> QED
  BY <1>2, <1>3, <1>4

LEMMA StepKeepsOwed == IInv /\ Next => RegisterHoldsWhatIsOwed'
<1> SUFFICES ASSUME IInv, Next, NEW s \in Stocks
             PROVE  owed'[s] = IF valid' = s THEN <<rdata'>> ELSE <<>>
  BY DEF RegisterHoldsWhatIsOwed
<1> USE SymbolRouterAssumption
<1>1. owed'[s] = IF handshake /\ Routed(event) /\ event.locate = s
                 THEN Append(Rest(s), event) ELSE Rest(s)
  BY RegisterAfter DEF Edge, Owe
<1>2. Rest(s) = IF valid = s /\ s \notin ready THEN <<rdata>> ELSE <<>>
  BY RestOfABook
<1>3. CASE delivering
  BY <1>1, <1>2, <1>3, RegisterAfter DEF delivering
<1>4. CASE ~delivering
  <2>1. Rest(s) = <<>>
    BY <1>2, <1>4 DEF delivering
  <2>2. CASE handshake /\ Routed(event)
    <3>1. valid' = event.locate /\ rdata' = event
      BY <1>4, <2>2, RegisterAfter
    <3>2. Append(<<>>, event) = <<event>>
      OBVIOUS
    <3> QED
      BY <1>1, <2>1, <2>2, <3>1, <3>2
  <2>3. CASE ~(handshake /\ Routed(event))
    BY <1>1, <1>4, <2>1, <2>3, RegisterAfter
  <2> QED
    BY <2>2, <2>3
<1> QED
  BY <1>3, <1>4

LEMMA StepKeepsTypes == IInv /\ Next => TypeOK'
<1> SUFFICES ASSUME IInv, Next PROVE TypeOK'
  OBVIOUS
<1> USE SymbolRouterAssumption
<1>1. TypeOK /\ RegisterIsMeant /\ Edge
  BY RegisterAfter DEF IInv
<1>2. event' \in Events \cup {NoEvent} /\ ready' \subseteq Stocks /\ accepted' \in BOOLEAN
  BY <1>1 DEF Next, Edge, Books, Source, TypeOK, handshake, ready_o, Free, delivering
<1>3. taken' \in Taken \cup {NoEvent}
  <2>1. CASE valid \in ready
    <3>1. valid \in Stocks /\ rdata \in Events /\ base_price \in Nat
      BY <1>1, <2>1 DEF TypeOK, RegisterIsMeant
    <3> QED
      BY <1>1, <2>1, <3>1 DEF Edge, Deliver, Taken
  <2>2. CASE valid \notin ready
    BY <1>1, <2>2 DEF Edge, Deliver
  <2> QED
    BY <2>1, <2>2
<1>4. handshake => event \in Events
  BY <1>1 DEF handshake, TypeOK
<1>5. /\ rdata' \in Events \cup {NoEvent}
      /\ base_price' \in Nat
      /\ valid' \in Stocks \cup {NoStock}
  <2>1. CASE Hold
    BY <1>1, <2>1 DEF Hold, TypeOK
  <2>2. CASE Idle
    BY <1>1, <2>2 DEF Idle, TypeOK
  <2>3. CASE Route
    BY <1>4, <2>3 DEF Route, Routed
  <2>4. CASE Discard
    BY <1>1, <1>4, <2>4, TargetIsNat DEF Discard, TypeOK
  <2> QED
    BY <2>1, <2>2, <2>3, <2>4 DEF Next, Router
<1>6. owed' \in [Stocks -> Seq(Events)]
  <2>1. \A s \in Stocks : owed'[s] \in Seq(Events)
    <3> SUFFICES ASSUME NEW s \in Stocks PROVE owed'[s] \in Seq(Events)
      OBVIOUS
    <3>1. owed'[s] = IF valid' = s THEN <<rdata'>> ELSE <<>>
      BY StepKeepsOwed DEF RegisterHoldsWhatIsOwed
    <3>2. valid' = s => rdata' \in Events
      BY StepKeepsMeaning DEF RegisterIsMeant
    <3>3. <<>> \in Seq(Events) /\ \A e \in Events : <<e>> \in Seq(Events)
      OBVIOUS
    <3> QED
      BY <3>1, <3>2, <3>3
  <2>2. owed' = [s \in Stocks |-> owed'[s]]
    BY <1>1 DEF Edge, Owe
  <2> QED
    BY <2>1, <2>2
<1> QED
  BY <1>2, <1>3, <1>5, <1>6 DEF TypeOK

LEMMA Inductive == IInv /\ [Next]_vars => IInv'
<1> SUFFICES ASSUME IInv, [Next]_vars PROVE IInv'
  OBVIOUS
<1>1. CASE Next
  BY <1>1, StepKeepsTypes, StepKeepsMeaning, StepKeepsOwed DEF IInv
<1>2. CASE UNCHANGED vars
  BY <1>2 DEF vars, IInv, TypeOK, RegisterIsMeant, RegisterHoldsWhatIsOwed, Routed,
              in_bounds, target_base_price
<1> QED
  BY <1>1, <1>2

LEMMA AlwaysIInv == Spec => []IInv
<1>1. Init => IInv
  BY InitHolds
<1>2. IInv /\ [Next]_vars => IInv'
  BY Inductive
<1> QED
  BY <1>1, <1>2, PTL DEF Spec

-----------------------------------------------------------------------------
(* The router's registers keep their types.                                *)
THEOREM TypeCorrect == Spec => []TypeOK
<1>1. IInv => TypeOK
  BY DEF IInv
<1> QED
  BY <1>1, AlwaysIInv, PTL

(* The shared register of symbol_router.sv loses, doubles and misdirects   *)
(* no event: it always holds exactly what is owed.                         *)
THEOREM NothingIsLost == Spec => []RegisterHoldsWhatIsOwed
<1>1. IInv => RegisterHoldsWhatIsOwed
  BY DEF IInv
<1> QED
  BY <1>1, AlwaysIInv, PTL

(* A book takes only its own events, oldest first, with its own base price *)
(* and a price that fits its index.                                        *)
THEOREM EachBookTakesItsOwn == Spec => TakesItsOwn
<1> DEFINE Proper(t) ==
      /\ owed[t.stock] # <<>>
      /\ t.event = Head(owed[t.stock])
      /\ t.event.locate = t.stock
      /\ t.base = BasePrice[t.stock]
      /\ t.event.priced =>
           t.event.price \in BasePrice[t.stock] .. BasePrice[t.stock] + WINDOW - 1
<1>1. IInv /\ [Next]_vars => [taken' # NoEvent => Proper(taken')]_vars
  <2> SUFFICES ASSUME IInv, Next, taken' # NoEvent PROVE Proper(taken')
    OBVIOUS
  <2>1. /\ valid \in ready
        /\ taken'.stock = valid
        /\ taken'.event = rdata
        /\ taken'.base = base_price
    BY RegisterAfter DEF Edge, Deliver
  <2>2. valid \in Stocks /\ valid # NoStock
    BY <2>1, SymbolRouterAssumption DEF IInv, TypeOK
  <2>3. /\ rdata \in Events
        /\ Routed(rdata)
        /\ rdata.locate = valid
        /\ base_price = BasePrice[valid]
    BY <2>2 DEF IInv, RegisterIsMeant
  <2>4. owed[valid] = <<rdata>>
    BY <2>2 DEF IInv, RegisterHoldsWhatIsOwed
  <2>5. owed[valid] # <<>> /\ Head(owed[valid]) = rdata
    BY <2>4
  <2>6. rdata.priced => rdata.price \in BasePrice[valid] .. BasePrice[valid] + WINDOW - 1
    BY <2>2, <2>3, EventFields, SymbolRouterAssumption DEF Routed, in_bounds, target_base_price
  <2> QED
    BY <2>1, <2>3, <2>5, <2>6
<1> QED
  BY <1>1, AlwaysIInv, PTL DEF Spec, TakesItsOwn

-----------------------------------------------------------------------------
(* Numbers.                                                                *)

NatLess == {p \in Nat \X Nat : p[1] < p[2]}

LEMMA LeastNatural ==
  ASSUME NEW S, S \subseteq Nat, S # {}
  PROVE  \E least \in S : \A n \in S : least <= n
<1>1. IsWellFoundedOn(NatLess, Nat)
  <2>1. NatLess = OpToRel(<, Nat)
    BY DEF OpToRel, NatLess
  <2> QED BY <2>1, NatLessThanWellFounded
<1>2. PICK least \in S : \A n \in S : ~(<<n, least>> \in NatLess)
  BY <1>1, WFMin
<1>3. ASSUME NEW n \in S PROVE least <= n
  <2>1. n \in Nat /\ least \in Nat
    OBVIOUS
  <2>2. n < least => <<n, least>> \in NatLess
    BY <2>1 DEF NatLess
  <2> QED BY <1>2, <2>1, <2>2
<1> QED BY <1>3

(* Induction up to a bound, for a property given as the set of the numbers *)
(* that have it.                                                           *)
LEMMA InductionUpTo ==
  ASSUME NEW top \in Nat, NEW S, 0 \in S,
         \A n \in Nat : n \in S /\ n < top => n + 1 \in S
  PROVE  \A n \in 0 .. top : n \in S
<1> DEFINE others == {n \in 0 .. top : n \notin S}
<1> SUFFICES ASSUME others # {} PROVE FALSE
  OBVIOUS
<1>1. PICK least \in others : \A n \in others : least <= n
  <2>1. others \subseteq Nat
    OBVIOUS
  <2> HIDE DEF others
  <2> QED BY <2>1, LeastNatural
<1>2. least \in 1 .. top /\ least - 1 \in 0 .. top /\ least - 1 < top
  OBVIOUS
<1>3. least - 1 \in S
  BY <1>1, <1>2
<1>4. (least - 1) + 1 \in S
  BY <1>2, <1>3
<1> QED BY <1>2, <1>4

-----------------------------------------------------------------------------
(* Powers of two, which count the subsets of a set.                        *)

LEMMA PowerOfTwo ==
  ASSUME NEW n \in Nat
  PROVE  2 ^ n \in Nat /\ 2 ^ n > 0 /\ 2 ^ (n + 1) = 2 * 2 ^ n
<1> DEFINE low == 1 .. n
           all == 1 .. n + 1
           with == {s \cup {n + 1} : s \in SUBSET low}
<1>1. /\ IsFiniteSet(low) /\ Cardinality(low) = n
      /\ IsFiniteSet(all) /\ Cardinality(all) = n + 1
  BY FS_Interval
<1>2. /\ IsFiniteSet(SUBSET low) /\ Cardinality(SUBSET low) = 2 ^ n
      /\ IsFiniteSet(SUBSET all) /\ Cardinality(SUBSET all) = 2 ^ (n + 1)
  BY <1>1, FS_SUBSET
<1>3. 2 ^ n \in Nat /\ 2 ^ (n + 1) \in Nat
  BY <1>2, FS_CardinalityType
<1>4. 2 ^ n # 0
  <2>1. SUBSET low # {}
    OBVIOUS
  <2> HIDE DEF low
  <2> QED BY <1>2, <2>1, FS_EmptySet
<1>5. IsFiniteSet(with) /\ Cardinality(with) = 2 ^ n
  <2> DEFINE f == [s \in SUBSET low |-> s \cup {n + 1}]
  <2>1. f \in Bijection(SUBSET low, with)
    <3>1. \A s \in SUBSET low : n + 1 \notin s
      OBVIOUS
    <3>2. \A s, t \in SUBSET low : f[s] = f[t] => s = t
      BY <3>1
    <3>3. f \in [SUBSET low -> with]
      OBVIOUS
    <3>4. \A t \in with : \E s \in SUBSET low : f[s] = t
      OBVIOUS
    <3> QED BY <3>2, <3>3, <3>4, Fun_IsBij
  <2> HIDE DEF f, with
  <2>2. ExistsBijection(SUBSET low, with)
    BY <2>1 DEF ExistsBijection
  <2> QED BY <1>2, <2>2, FS_Bijection
<1>6. SUBSET all = (SUBSET low) \cup with
  <2>1. all = low \cup {n + 1}
    OBVIOUS
  <2>2. ASSUME NEW s \in SUBSET all, n + 1 \in s PROVE s \in with
    <3>1. s \ {n + 1} \in SUBSET low /\ s = (s \ {n + 1}) \cup {n + 1}
      BY <2>1, <2>2
    <3> QED BY <3>1
  <2>3. ASSUME NEW s \in SUBSET all, n + 1 \notin s PROVE s \in SUBSET low
    BY <2>1, <2>3
  <2>4. \A s \in with : s \in SUBSET all
    BY <2>1
  <2>5. \A s \in SUBSET low : s \in SUBSET all
    BY <2>1
  <2> QED BY <2>2, <2>3, <2>4, <2>5
<1>7. (SUBSET low) \cap with = {}
  <2>1. \A s \in with : n + 1 \in s
    OBVIOUS
  <2>2. \A s \in SUBSET low : n + 1 \notin s
    OBVIOUS
  <2> QED BY <2>1, <2>2
<1>8. Cardinality(SUBSET all) = Cardinality(SUBSET low) + Cardinality(with)
  <2> HIDE DEF low, all, with
  <2>1. Cardinality((SUBSET low) \cup with) =
          Cardinality(SUBSET low) + Cardinality(with)
            - Cardinality((SUBSET low) \cap with)
    BY <1>2, <1>5, FS_Union
  <2>2. Cardinality((SUBSET low) \cap with) = 0
    BY <1>7, FS_EmptySet
  <2>3. Cardinality(SUBSET low) \in Nat /\ Cardinality(with) \in Nat
    BY <1>2, <1>3, <1>5
  <2>4. \A a, b, c, u \in Nat : u = a + b - c /\ c = 0 => u = a + b
    OBVIOUS
  <2>5. Cardinality((SUBSET low) \cup with) = Cardinality(SUBSET all)
    BY <1>6
  <2> QED BY <1>2, <1>3, <2>1, <2>2, <2>3, <2>4, <2>5
<1> HIDE DEF low, all, with
<1> QED BY <1>2, <1>3, <1>4, <1>5, <1>8

LEMMA PowerZero == 2 ^ 0 = 1
<1> DEFINE none == {}
<1>1. Cardinality(none) = 0 /\ IsFiniteSet(none)
  BY FS_EmptySet
<1>2. SUBSET none = {none}
  OBVIOUS
<1> HIDE DEF none
<1>3. Cardinality(SUBSET none) = 2 ^ 0
  BY <1>1, FS_SUBSET
<1>4. Cardinality({none}) = 1
  BY FS_Singleton
<1> QED BY <1>2, <1>3, <1>4

-----------------------------------------------------------------------------
(* Gray code.  What a count is once its lowest i bits are gone.            *)

Shift(n, i) == n \div 2 ^ i

LEMMA Widths ==
  /\ ADDR_W \in Nat /\ ADDR_W > 1 /\ PTR_W \in Nat /\ PTR_W = ADDR_W + 1
  /\ FIFO_DEPTH \in Nat /\ FIFO_DEPTH > 1 /\ 2 ^ PTR_W = 2 * FIFO_DEPTH
  /\ PTR_W - 1 \in Bits /\ PTR_W - 2 \in Bits
<1>1. ADDR_W \in Nat /\ ADDR_W > 1
  BY EventFifoAssumption
<1>2. FIFO_DEPTH > 1
  <2>1. (ADDR_W - 1) \in Nat /\ (ADDR_W - 1) + 1 = ADDR_W
    BY <1>1
  <2>2. 2 ^ ((ADDR_W - 1) + 1) = 2 * 2 ^ (ADDR_W - 1) /\ 2 ^ (ADDR_W - 1) > 0
        /\ 2 ^ (ADDR_W - 1) \in Nat
    BY <2>1, PowerOfTwo
  <2> QED BY <2>1, <2>2 DEF FIFO_DEPTH
<1> QED BY <1>1, <1>2, PowerOfTwo DEF PTR_W, FIFO_DEPTH, Bits

LEMMA ShiftSteps ==
  ASSUME NEW n \in Nat, NEW i \in Nat
  PROVE  /\ Shift(n, i) \in Nat
         /\ Shift(n, 0) = n
         /\ Shift(n, i + 1) = Shift(n, i) \div 2
<1>1. 2 ^ i \in Nat /\ 2 ^ i > 0 /\ 2 ^ (i + 1) = 2 * 2 ^ i
  BY PowerOfTwo
<1>2. ASSUME NEW d \in Nat, d > 0
      PROVE  n \div d \in Nat /\ (n \div d) \div 2 = n \div (2 * d)
  BY <1>2
<1>3. n \div 1 = n
  OBVIOUS
<1> QED BY <1>1, <1>2, <1>3, PowerZero DEF Shift

LEMMA ShiftedOut ==
  ASSUME NEW n \in Nat, NEW i \in Nat, n < 2 ^ i
  PROVE  Shift(n, i) = 0
<1>1. ASSUME NEW d \in Nat, n < d PROVE n \div d = 0
  BY <1>1
<1> QED BY <1>1, PowerOfTwo DEF Shift

LEMMA GrayBit ==
  ASSUME NEW n \in Counts, NEW i \in Bits
  PROVE  bin_to_gray[n][i] = ((Shift(n, i) % 2) + (Shift(n, i + 1) % 2)) % 2
BY DEF bin_to_gray, Bit, Shift

LEMMA GrayIsAWord ==
  ASSUME NEW n \in Counts
  PROVE  bin_to_gray[n] \in Words
<1>1. ASSUME NEW i \in Bits PROVE bin_to_gray[n][i] \in {0, 1}
  <2>1. n \in Nat /\ i \in Nat /\ i + 1 \in Nat
    BY Widths DEF Counts, Bits
  <2>2. Shift(n, i) \in Nat /\ Shift(n, i + 1) \in Nat
    BY <2>1, ShiftSteps
  <2> QED BY <2>2, GrayBit
<1> QED BY <1>1 DEF bin_to_gray, Words

(* Two counts with one code are the same.                                  *)
LEMMA GrayIsInjective ==
  ASSUME NEW m \in Counts, NEW n \in Counts, bin_to_gray[m] = bin_to_gray[n]
  PROVE  m = n
<1> DEFINE S == {k \in Nat : k <= PTR_W => Shift(m, PTR_W - k) = Shift(n, PTR_W - k)}
<1>1. PTR_W \in Nat /\ m \in Nat /\ n \in Nat /\ m < 2 ^ PTR_W /\ n < 2 ^ PTR_W
  BY Widths DEF Counts
<1>2. 0 \in S
  <2>1. Shift(m, PTR_W) = 0 /\ Shift(n, PTR_W) = 0
    BY <1>1, ShiftedOut
  <2>2. PTR_W - 0 = PTR_W
    BY <1>1
  <2> QED BY <2>1, <2>2
<1>3. ASSUME NEW k \in Nat, k \in S, k < PTR_W PROVE k + 1 \in S
  <2> DEFINE i == PTR_W - (k + 1)
  <2>1. i \in Nat /\ i \in Bits /\ i + 1 = PTR_W - k
    BY <1>1, <1>3 DEF Bits
  <2> HIDE DEF i
  <2>2. Shift(m, i + 1) = Shift(n, i + 1)
    BY <1>1, <1>3, <2>1
  <2>3. ((Shift(m, i) % 2) + (Shift(m, i + 1) % 2)) % 2
          = ((Shift(n, i) % 2) + (Shift(n, i + 1) % 2)) % 2
    BY <2>1, GrayBit
  <2>4. /\ Shift(m, i) \in Nat /\ Shift(m, i + 1) = Shift(m, i) \div 2
        /\ Shift(n, i) \in Nat /\ Shift(n, i + 1) = Shift(n, i) \div 2
    BY <1>1, <2>1, ShiftSteps
  <2>5. \A a, b \in Nat : a \div 2 = b \div 2
          /\ ((a % 2) + ((a \div 2) % 2)) % 2 = ((b % 2) + ((b \div 2) % 2)) % 2 => a = b
    OBVIOUS
  <2>6. Shift(m, i) = Shift(n, i)
    BY <2>2, <2>3, <2>4, <2>5
  <2> QED BY <1>3, <2>6 DEF i
<1>4. PTR_W \in S
  <2> HIDE DEF S
  <2>1. PTR_W \in 0 .. PTR_W
    BY <1>1
  <2> QED BY <1>1, <1>2, <1>3, <2>1, InductionUpTo
<1>5. Shift(m, 0) = Shift(n, 0)
  BY <1>1, <1>4
<1> QED BY <1>1, <1>5, ShiftSteps

(* Words that agree but for one bit at most: what a flop takes in between  *)
(* them is one of the two.                                                 *)
OneBitApart(u, v) == \E j \in Bits : \A i \in Bits \ {j} : u[i] = v[i]

LEMMA SampledIsEither ==
  ASSUME NEW u \in Words, NEW v \in Words, OneBitApart(u, v),
         NEW word \in Sampled(u, v)
  PROVE  word \in {u, v}
<1>1. PICK j \in Bits : \A i \in Bits \ {j} : u[i] = v[i]
  BY DEF OneBitApart
<1>2. word \in Words /\ \A i \in Bits : word[i] \in {u[i], v[i]}
  BY DEF Sampled
<1>3. CASE word[j] = u[j]
  <2>1. \A i \in Bits : word[i] = u[i]
    BY <1>1, <1>2, <1>3
  <2> QED BY <1>2, <2>1 DEF Words
<1>4. CASE word[j] = v[j]
  <2>1. \A i \in Bits : word[i] = v[i]
    BY <1>1, <1>2, <1>4
  <2> QED BY <1>2, <2>1 DEF Words
<1> QED BY <1>2, <1>3, <1>4

LEMMA NeighboursOneBitApart ==
  ASSUME NEW n \in Counts, n + 1 \in Counts
  PROVE  OneBitApart(bin_to_gray[n], bin_to_gray[n + 1])
<1> DEFINE m == n + 1
           S == {i \in Nat : i < PTR_W /\ Shift(m, i + 1) = Shift(n, i + 1)}
           carry(i) == Shift(m, i) - Shift(n, i)
           C == {i \in Nat : carry(i) \in {0, 1}}
<1>1. /\ PTR_W \in Nat /\ PTR_W > 0 /\ m \in Nat /\ n \in Nat
      /\ m < 2 ^ PTR_W /\ n < 2 ^ PTR_W /\ m \in Counts
  BY Widths DEF Counts
<1>2. \A i \in Nat : /\ Shift(m, i) \in Nat /\ Shift(n, i) \in Nat
                     /\ Shift(m, i + 1) = Shift(m, i) \div 2
                     /\ Shift(n, i + 1) = Shift(n, i) \div 2
  BY <1>1, ShiftSteps
<1>3. \A i \in 0 .. PTR_W : carry(i) \in {0, 1}
  <2>1. 0 \in C
    <3>1. Shift(m, 0) = m /\ Shift(n, 0) = n
      BY <1>1, ShiftSteps
    <3> QED BY <1>1, <3>1
  <2>2. ASSUME NEW i \in Nat, i \in C PROVE i + 1 \in C
    <3>1. \A a, b \in Nat : b - a \in {0, 1} => (b \div 2) - (a \div 2) \in {0, 1}
      OBVIOUS
    <3>2. Shift(m, i) - Shift(n, i) \in {0, 1} /\ i \in Nat /\ i + 1 \in Nat
      BY <2>2
    <3> HIDE DEF m
    <3>3. Shift(m, i + 1) - Shift(n, i + 1) \in {0, 1}
      BY <1>2, <3>1, <3>2
    <3> QED BY <3>2, <3>3
  <2>3. \A i \in 0 .. PTR_W : i \in C
    <3> HIDE DEF C
    <3> QED BY <1>1, <2>1, <2>2, InductionUpTo
  <2> QED BY <2>3
<1>4. PTR_W - 1 \in S
  <2>1. Shift(m, PTR_W) = 0 /\ Shift(n, PTR_W) = 0
    BY <1>1, ShiftedOut
  <2>2. PTR_W - 1 \in Nat /\ (PTR_W - 1) + 1 = PTR_W
    BY <1>1
  <2> QED BY <1>1, <2>1, <2>2
<1>5. PICK j \in S : \A i \in S : j <= i
  <2>1. S \subseteq Nat
    OBVIOUS
  <2> HIDE DEF S
  <2> QED BY <1>4, <2>1, LeastNatural
<1>6. j \in Bits /\ j \in Nat
  BY <1>1, <1>5 DEF Bits
<1>7. ASSUME NEW i \in Bits, i # j
      PROVE  ((Shift(n, i) % 2) + (Shift(n, i + 1) % 2)) % 2
               = ((Shift(m, i) % 2) + (Shift(m, i + 1) % 2)) % 2
  <2>1. i \in Nat /\ i \in 0 .. PTR_W /\ i + 1 \in 0 .. PTR_W
    BY <1>1 DEF Bits
  <2>2. CASE i < j
    <3>1. carry(i + 1) # 0
      <4>1. i \notin S /\ i < PTR_W
        BY <1>1, <1>5, <1>6, <2>1, <2>2 DEF Bits
      <4>2. Shift(m, i + 1) # Shift(n, i + 1)
        BY <2>1, <4>1
      <4> QED BY <1>2, <2>1, <4>2
    <3>2. carry(i + 1) = 1 /\ carry(i) = 1
      BY <1>2, <1>3, <2>1, <3>1
    <3>3. \A a, b \in Nat : b - a = 1 =>
            (a % 2 = 0 /\ b % 2 = 1) \/ (a % 2 = 1 /\ b % 2 = 0)
      OBVIOUS
    <3>4. Shift(m, i) - Shift(n, i) = 1 /\ Shift(m, i + 1) - Shift(n, i + 1) = 1
      BY <3>2
    <3> HIDE DEF m
    <3>5. /\ Shift(m, i) \in Nat /\ Shift(m, i + 1) \in Nat
          /\ Shift(n, i) \in Nat /\ Shift(n, i + 1) \in Nat
      BY <1>2, <2>1
    <3>6. /\ (Shift(n, i) % 2 = 0 /\ Shift(m, i) % 2 = 1)
             \/ (Shift(n, i) % 2 = 1 /\ Shift(m, i) % 2 = 0)
          /\ (Shift(n, i + 1) % 2 = 0 /\ Shift(m, i + 1) % 2 = 1)
             \/ (Shift(n, i + 1) % 2 = 1 /\ Shift(m, i + 1) % 2 = 0)
      BY <3>3, <3>4, <3>5
    <3> QED BY <3>6
  <2>3. CASE j < i
    <3> DEFINE E == {k \in Nat : k > j => Shift(m, k) = Shift(n, k)}
    <3>1. 0 \in E
      BY <1>6
    <3>2. ASSUME NEW k \in Nat, k \in E PROVE k + 1 \in E
      <4>1. CASE k = j
        BY <1>5, <4>1
      <4>2. CASE k # j
        BY <1>2, <1>6, <3>2, <4>2
      <4> QED BY <4>1, <4>2
    <3>3. i \in E /\ i + 1 \in E
      <4> HIDE DEF E
      <4> QED BY <1>1, <2>1, <3>1, <3>2, InductionUpTo
    <3> QED BY <1>6, <2>1, <2>3, <3>3
  <2> QED BY <1>6, <1>7, <2>1, <2>2, <2>3
<1> QED BY <1>1, <1>6, <1>7, GrayBit DEF OneBitApart

(* The last count has only the top bit, and the first has none.            *)
LEMMA RoundOneBitApart ==
  OneBitApart(bin_to_gray[2 ^ PTR_W - 1], bin_to_gray[0])
<1> DEFINE last == 2 ^ PTR_W - 1
           S == {i \in Nat : i <= PTR_W => Shift(last, i) = 2 ^ (PTR_W - i) - 1}
           Z == {i \in Nat : Shift(0, i) = 0}
<1>1. /\ PTR_W \in Nat /\ PTR_W > 1 /\ 2 ^ PTR_W \in Nat /\ 2 ^ PTR_W > 0
      /\ last \in Counts /\ 0 \in Counts /\ last \in Nat
  BY Widths, PowerOfTwo DEF Counts
<1>2. 0 \in S
  <2>1. Shift(last, 0) = last
    BY <1>1, ShiftSteps
  <2>2. PTR_W - 0 = PTR_W
    BY <1>1
  <2> QED BY <1>1, <2>1, <2>2
<1>3. ASSUME NEW i \in Nat, i \in S, i < PTR_W PROVE i + 1 \in S
  <2>1. Shift(last, i + 1) = Shift(last, i) \div 2
    BY <1>1, ShiftSteps
  <2> DEFINE k == PTR_W - (i + 1)
  <2>2. k \in Nat /\ k + 1 = PTR_W - i
    BY <1>1, <1>3
  <2> HIDE DEF k
  <2>3. 2 ^ k \in Nat /\ 2 ^ k > 0 /\ 2 ^ (k + 1) = 2 * 2 ^ k
    BY <2>2, PowerOfTwo
  <2>4. Shift(last, i) = 2 * 2 ^ k - 1
    BY <1>1, <1>3, <2>2, <2>3
  <2>5. \A p \in Nat : p > 0 => (2 * p - 1) \div 2 = p - 1
    OBVIOUS
  <2>6. Shift(last, i + 1) = 2 ^ k - 1
    BY <2>1, <2>3, <2>4, <2>5
  <2> QED BY <2>6 DEF k
<1>4. \A i \in 0 .. PTR_W : Shift(last, i) = 2 ^ (PTR_W - i) - 1
  <2>1. \A i \in 0 .. PTR_W : i \in S
    <3> HIDE DEF S
    <3> QED BY <1>1, <1>2, <1>3, InductionUpTo
  <2> QED BY <1>1, <2>1
<1>5. \A i \in 0 .. PTR_W : Shift(0, i) = 0
  <2>1. 0 \in Z
    BY ShiftSteps
  <2>2. ASSUME NEW i \in Nat, i \in Z PROVE i + 1 \in Z
    BY <2>2, ShiftSteps
  <2>3. \A i \in 0 .. PTR_W : i \in Z
    <3> HIDE DEF Z
    <3> QED BY <1>1, <2>1, <2>2, InductionUpTo
  <2> QED BY <2>3
<1>6. ASSUME NEW i \in Bits, i # PTR_W - 1
      PROVE  bin_to_gray[last][i] = bin_to_gray[0][i]
  <2>1. i \in 0 .. PTR_W /\ i + 1 \in 0 .. PTR_W
    BY <1>1 DEF Bits
  <2> DEFINE k == PTR_W - (i + 2)
  <2>2. k \in Nat /\ k + 1 = PTR_W - (i + 1) /\ (k + 1) + 1 = PTR_W - i
    BY <1>1, <1>6 DEF Bits
  <2> HIDE DEF k
  <2>3. /\ 2 ^ k \in Nat /\ 2 ^ k > 0 /\ 2 ^ (k + 1) = 2 * 2 ^ k
        /\ 2 ^ ((k + 1) + 1) = 2 * 2 ^ (k + 1)
    BY <2>2, PowerOfTwo
  <2>4. Shift(last, i) = 2 * (2 * 2 ^ k) - 1 /\ Shift(last, i + 1) = 2 * 2 ^ k - 1
    BY <1>4, <2>1, <2>2, <2>3
  <2>5. Shift(0, i) = 0 /\ Shift(0, i + 1) = 0
    BY <1>5, <2>1
  <2>6. \A p \in Nat : p > 0 => (((2 * (2 * p) - 1) % 2) + ((2 * p - 1) % 2)) % 2 = 0
    OBVIOUS
  <2>7. bin_to_gray[last][i] = 0
    <3> HIDE DEF last
    <3> QED BY <1>1, <2>3, <2>4, <2>6, GrayBit
  <2>8. bin_to_gray[0][i] = 0
    BY <1>1, <2>5, GrayBit
  <2> QED BY <2>7, <2>8
<1> QED BY <1>6, Widths DEF OneBitApart

(* One count on, the code has changed in one bit at most.                  *)
LEMMA NextCountOneBitApart ==
  ASSUME NEW n \in Counts
  PROVE  OneBitApart(bin_to_gray[n], bin_to_gray[(n + 1) % 2 ^ PTR_W])
<1>1. 2 ^ PTR_W \in Nat /\ 2 ^ PTR_W > 0
  BY Widths
<1>2. ASSUME NEW size \in Nat, NEW k \in 0 .. size - 1
      PROVE  (k + 1) % size = IF k = size - 1 THEN 0 ELSE k + 1
  BY <1>2
<1>3. (n + 1) % 2 ^ PTR_W = IF n = 2 ^ PTR_W - 1 THEN 0 ELSE n + 1
  BY <1>1, <1>2 DEF Counts
<1>4. CASE n = 2 ^ PTR_W - 1
  BY <1>3, <1>4, RoundOneBitApart
<1>5. CASE n # 2 ^ PTR_W - 1
  <2>1. n + 1 \in Counts
    BY <1>1, <1>5 DEF Counts
  <2> QED BY <1>3, <1>5, <2>1, NeighboursOneBitApart
<1> QED BY <1>4, <1>5

(* A count and the one half a round further differ in their top bit only,  *)
(* and their codes in the two topmost.                                     *)
LEMMA HalfRoundShift ==
  ASSUME NEW n \in 0 .. FIFO_DEPTH - 1
  PROVE  /\ \A i \in 0 .. ADDR_W : Shift(n + FIFO_DEPTH, i) = Shift(n, i) + 2 ^ (ADDR_W - i)
         /\ Shift(n, ADDR_W) = 0
         /\ Shift(n, PTR_W) = 0 /\ Shift(n + FIFO_DEPTH, PTR_W) = 0
<1> DEFINE m == n + FIFO_DEPTH
           S == {i \in Nat : i <= ADDR_W => Shift(m, i) = Shift(n, i) + 2 ^ (ADDR_W - i)}
<1>1. /\ ADDR_W \in Nat /\ PTR_W \in Nat /\ n \in Nat /\ m \in Nat
      /\ n < 2 ^ ADDR_W /\ n < 2 ^ PTR_W /\ m < 2 ^ PTR_W
  BY Widths DEF FIFO_DEPTH
<1>2. 0 \in S
  <2>1. Shift(m, 0) = m /\ Shift(n, 0) = n
    BY <1>1, ShiftSteps
  <2>2. ADDR_W - 0 = ADDR_W
    BY <1>1
  <2> QED BY <1>1, <2>1, <2>2 DEF FIFO_DEPTH
<1>3. ASSUME NEW i \in Nat, i \in S, i < ADDR_W PROVE i + 1 \in S
  <2>1. /\ Shift(m, i) \in Nat /\ Shift(m, i + 1) = Shift(m, i) \div 2
        /\ Shift(n, i) \in Nat /\ Shift(n, i + 1) = Shift(n, i) \div 2
    BY <1>1, ShiftSteps
  <2> DEFINE k == ADDR_W - (i + 1)
  <2>2. k \in Nat /\ k + 1 = ADDR_W - i
    BY <1>1, <1>3
  <2> HIDE DEF k
  <2>3. 2 ^ k \in Nat /\ 2 ^ (k + 1) = 2 * 2 ^ k
    BY <2>2, PowerOfTwo
  <2>4. Shift(m, i) = Shift(n, i) + 2 * 2 ^ k
    BY <1>1, <1>3, <2>2, <2>3
  <2>5. \A a, p \in Nat : (a + 2 * p) \div 2 = (a \div 2) + p
    OBVIOUS
  <2>6. Shift(m, i + 1) = Shift(n, i + 1) + 2 ^ k
    <3> HIDE DEF m
    <3> QED BY <2>1, <2>3, <2>4, <2>5
  <2> QED BY <2>6 DEF k
<1>4. \A i \in 0 .. ADDR_W : Shift(m, i) = Shift(n, i) + 2 ^ (ADDR_W - i)
  <2>1. \A i \in 0 .. ADDR_W : i \in S
    <3> HIDE DEF S
    <3> QED BY <1>1, <1>2, <1>3, InductionUpTo
  <2> QED BY <1>1, <2>1
<1> QED BY <1>1, <1>4, ShiftedOut

LEMMA HalfRoundCode ==
  ASSUME NEW n \in 0 .. FIFO_DEPTH - 1
  PROVE  /\ bin_to_gray[n + FIFO_DEPTH] = FullAgainst(bin_to_gray[n])
         /\ bin_to_gray[n] = FullAgainst(bin_to_gray[n + FIFO_DEPTH])
<1> DEFINE m == n + FIFO_DEPTH
           u == bin_to_gray[n]
           v == bin_to_gray[m]
<1>1. /\ PTR_W \in Nat /\ ADDR_W \in Nat /\ ADDR_W > 1 /\ PTR_W = ADDR_W + 1
      /\ n \in Counts /\ m \in Counts /\ n \in Nat /\ m \in Nat
  BY Widths DEF Counts
<1>2. u \in Words /\ v \in Words
  BY <1>1, GrayIsAWord
<1> HIDE DEF m
<1>3. /\ \A i \in 0 .. ADDR_W : Shift(m, i) = Shift(n, i) + 2 ^ (ADDR_W - i)
      /\ Shift(n, ADDR_W) = 0
      /\ Shift(n, PTR_W) = 0 /\ Shift(m, PTR_W) = 0
  BY HalfRoundShift DEF m
<1>4. Shift(m, ADDR_W) = 1
  <2>1. ADDR_W - ADDR_W = 0 /\ ADDR_W \in 0 .. ADDR_W
    BY <1>1
  <2>2. Shift(m, ADDR_W) = Shift(n, ADDR_W) + 2 ^ (ADDR_W - ADDR_W)
    BY <1>3, <2>1
  <2>3. 2 ^ (ADDR_W - ADDR_W) = 1
    BY <2>1, PowerZero
  <2> QED BY <1>3, <2>2, <2>3
<1>5. ASSUME NEW i \in 0 .. ADDR_W - 1
      PROVE  (Shift(m, i) % 2) = (Shift(n, i) % 2) /\ (Shift(n, i) % 2) \in {0, 1}
  <2> DEFINE k == ADDR_W - (i + 1)
  <2>1. k \in Nat /\ k + 1 = ADDR_W - i /\ i \in Nat /\ i \in 0 .. ADDR_W
    BY <1>1
  <2> HIDE DEF k
  <2>2. 2 ^ k \in Nat /\ 2 ^ (k + 1) = 2 * 2 ^ k
    BY <2>1, PowerOfTwo
  <2>3. Shift(m, i) = Shift(n, i) + 2 * 2 ^ k /\ Shift(n, i) \in Nat
    <3>1. Shift(m, i) = Shift(n, i) + 2 ^ (ADDR_W - i)
      BY <1>3, <2>1
    <3>2. 2 ^ (ADDR_W - i) = 2 * 2 ^ k
      BY <2>1, <2>2
    <3> QED BY <1>1, <2>1, <3>1, <3>2, ShiftSteps
  <2>4. \A a, p \in Nat : (a + 2 * p) % 2 = a % 2 /\ a % 2 \in {0, 1}
    OBVIOUS
  <2> QED BY <2>2, <2>3, <2>4
<1>6. ASSUME NEW i \in Bits
      PROVE  v[i] = IF i \in {PTR_W - 1, PTR_W - 2} THEN 1 - u[i] ELSE u[i]
  <2>1. /\ u[i] = ((Shift(n, i) % 2) + (Shift(n, i + 1) % 2)) % 2
        /\ v[i] = ((Shift(m, i) % 2) + (Shift(m, i + 1) % 2)) % 2
    BY <1>1, GrayBit
  <2>2. CASE i = PTR_W - 1
    <3>1. i = ADDR_W /\ i + 1 = PTR_W
      BY <1>1, <2>2
    <3> QED BY <1>3, <1>4, <2>1, <2>2, <3>1
  <2>3. CASE i = PTR_W - 2
    <3>1. i \in 0 .. ADDR_W - 1 /\ i + 1 = ADDR_W
      BY <1>1, <2>3
    <3>2. v[i] = ((Shift(n, i) % 2) + 1) % 2 /\ u[i] = ((Shift(n, i) % 2) + 0) % 2
      BY <1>3, <1>4, <1>5, <2>1, <3>1
    <3> QED BY <1>5, <2>3, <3>1, <3>2
  <2>4. CASE i \notin {PTR_W - 1, PTR_W - 2}
    <3>1. i \in 0 .. ADDR_W - 1 /\ i + 1 \in 0 .. ADDR_W - 1
      BY <1>1, <2>4 DEF Bits
    <3> QED BY <1>5, <2>1, <2>4, <3>1
  <2> QED BY <2>2, <2>3, <2>4
<1>7. PTR_W - 1 \in Bits /\ PTR_W - 2 \in Bits /\ PTR_W - 1 # PTR_W - 2
  BY Widths
<1>8. \A i \in Bits : u[i] \in {0, 1} /\ v[i] \in {0, 1}
  BY <1>2 DEF Words
<1> HIDE DEF u, v
<1>9. v = FullAgainst(u)
  BY <1>2, <1>6, <1>7 DEF FullAgainst, Words
<1>10. u = FullAgainst(v)
  <2>1. \A i \in Bits : u[i] = IF i \in {PTR_W - 1, PTR_W - 2} THEN 1 - v[i] ELSE v[i]
    BY <1>6, <1>8
  <2> QED BY <1>2, <1>7, <2>1 DEF FullAgainst, Words
<1> QED BY <1>9, <1>10 DEF u, v, m

-----------------------------------------------------------------------------
(* Counting round.  The flags compare counts that are a whole number of    *)
(* rounds apart from the numbers of items written and read.                *)

LEMMA Divided ==
  ASSUME NEW d \in Nat, d > 0, NEW k \in Nat
  PROVE  /\ k % d \in 0 .. d - 1
         /\ \E q \in Nat : k = q * d + (k % d)
<1>1. k % d \in 0 .. d - 1 /\ k = (k \div d) * d + (k % d) /\ k \div d \in Nat
  OBVIOUS
<1> QED BY <1>1

LEMMA Remainder ==
  ASSUME NEW d \in Nat, NEW r \in 0 .. d - 1, NEW q \in Nat
  PROVE  (q * d + r) % d = r
OBVIOUS

(* The address of a slot is in the low bits of the count, and a count goes *)
(* on by one with the number it counts.                                    *)
LEMMA Rounds ==
  ASSUME NEW d \in Nat, d > 1, NEW e \in Nat, e = 2 * d, NEW k \in Nat
  PROVE  /\ (k % e) % d = k % d
         /\ ((k % e) + 1) % e = (k + 1) % e
<1>1. e > 0
  OBVIOUS
<1>2. PICK r \in 0 .. e - 1 : k % e = r /\ \E q \in Nat : k = q * e + r
  BY <1>1, Divided
<1>3. PICK q \in Nat : k = q * e + r
  BY <1>2
<1>4. r % d = k % d
  <2>1. CASE r < d
    <3>1. k = (2 * q) * d + r /\ r = 0 * d + r /\ 2 * q \in Nat /\ r \in 0 .. d - 1
      BY <1>2, <1>3, <2>1
    <3>2. ((2 * q) * d + r) % d = r /\ (0 * d + r) % d = r
      BY <3>1, Remainder
    <3> QED BY <3>1, <3>2
  <2>2. CASE r >= d
    <3>1. k = (2 * q + 1) * d + (r - d) /\ r = 1 * d + (r - d)
          /\ 2 * q + 1 \in Nat /\ r - d \in 0 .. d - 1
      BY <1>2, <1>3, <2>2
    <3>2. ((2 * q + 1) * d + (r - d)) % d = r - d /\ (1 * d + (r - d)) % d = r - d
      BY <3>1, Remainder
    <3> QED BY <3>1, <3>2
  <2> QED BY <1>2, <2>1, <2>2
<1>5. (r + 1) % e = (k + 1) % e
  <2>1. CASE r + 1 < e
    <3>1. k + 1 = q * e + (r + 1) /\ r + 1 = 0 * e + (r + 1) /\ r + 1 \in 0 .. e - 1
      BY <1>2, <1>3, <2>1
    <3>2. PICK s \in 0 .. e - 1 : s = r + 1
      BY <3>1
    <3>3. (q * e + s) % e = s /\ (0 * e + s) % e = s
      BY Remainder
    <3> QED BY <3>1, <3>2, <3>3
  <2>2. CASE r + 1 = e
    <3>1. k + 1 = (q + 1) * e + 0 /\ r + 1 = 1 * e + 0 /\ 0 \in 0 .. e - 1 /\ q + 1 \in Nat
      BY <1>2, <1>3, <2>2
    <3>2. ((q + 1) * e + 0) % e = 0 /\ (1 * e + 0) % e = 0
      BY <3>1, Remainder
    <3> QED BY <3>1, <3>2
  <2> QED BY <1>2, <2>1, <2>2
<1> QED BY <1>2, <1>4, <1>5

LEMMA SameInOneRound ==
  ASSUME NEW e \in Nat, e > 0, NEW a \in Nat, NEW b \in Nat,
         a <= b, b < a + e, a % e = b % e
  PROVE  a = b
<1>1. PICK p \in Nat : a = p * e + (a % e)
  BY Divided
<1>2. PICK q \in Nat : b = q * e + (b % e)
  BY Divided
<1>3. a % e \in 0 .. e - 1
  BY Divided
<1>4. PICK r \in 0 .. e - 1 : a = p * e + r /\ b = q * e + r
  BY <1>1, <1>2, <1>3
<1>5. CASE p = q
  BY <1>4, <1>5
<1>6. CASE p > q
  <2>1. PICK t \in Nat : p = q + 1 + t
    <3>1. p - q - 1 \in Nat /\ p = q + 1 + (p - q - 1)
      BY <1>6
    <3> QED BY <3>1
  <2>2. p * e = q * e + e + t * e /\ t * e \in Nat
    BY <2>1
  <2> QED BY <1>4, <2>2
<1>7. CASE q > p
  <2>1. PICK t \in Nat : q = p + 1 + t
    <3>1. q - p - 1 \in Nat /\ q = p + 1 + (q - p - 1)
      BY <1>7
    <3> QED BY <3>1
  <2>2. q * e = p * e + e + t * e /\ t * e \in Nat
    BY <2>1
  <2> QED BY <1>4, <2>2
<1> QED BY <1>5, <1>6, <1>7

(* The code of the count after k items.                                    *)
Code(k) == bin_to_gray[k % 2 ^ PTR_W]

LEMMA CountOf ==
  ASSUME NEW k \in Nat
  PROVE  k % 2 ^ PTR_W \in Counts /\ Code(k) \in Words
<1>1. 2 ^ PTR_W \in Nat /\ 2 ^ PTR_W > 0
  BY Widths
<1>2. k % 2 ^ PTR_W \in 0 .. 2 ^ PTR_W - 1
  BY <1>1, Divided
<1> QED BY <1>2, GrayIsAWord DEF Code, Counts

(* Full is seen at a code that is half a round on.                         *)
LEMMA HalfRoundOn ==
  ASSUME NEW k \in Nat
  PROVE  FullAgainst(Code(k)) = Code(k + FIFO_DEPTH)
<1> DEFINE d == FIFO_DEPTH
           e == 2 ^ PTR_W
<1>1. d \in Nat /\ d > 1 /\ e \in Nat /\ e = 2 * d /\ e > 0 /\ k + d \in Nat
  BY Widths
<1> HIDE DEF d, e
<1>2. PICK r \in 0 .. e - 1 : k % e = r /\ \E q \in Nat : k = q * e + r
  BY <1>1, Divided
<1>3. PICK q \in Nat : k = q * e + r
  BY <1>2
<1>4. CASE r < d
  <2>1. PICK t \in 0 .. e - 1 : t = r + d
    BY <1>1, <1>2, <1>4
  <2>2. k + d = q * e + t
    BY <1>1, <1>3, <2>1
  <2>3. (k + d) % e = r + d
    BY <1>1, <2>1, <2>2, Remainder
  <2>4. r \in 0 .. FIFO_DEPTH - 1
    BY <1>1, <1>4 DEF d
  <2>5. bin_to_gray[r + FIFO_DEPTH] = FullAgainst(bin_to_gray[r])
    BY <2>4, HalfRoundCode
  <2> QED BY <1>2, <2>3, <2>5 DEF Code, d, e
<1>5. CASE r >= d
  <2>1. PICK t \in 0 .. d - 1 : r = t + d
    <3>1. r - d \in 0 .. d - 1 /\ r = (r - d) + d
      BY <1>1, <1>2, <1>5
    <3> QED BY <3>1
  <2>2. k + d = (q + 1) * e + t /\ q + 1 \in Nat /\ t \in 0 .. e - 1
    BY <1>1, <1>3, <2>1
  <2>3. (k + d) % e = t
    BY <1>1, <2>2, Remainder
  <2>4. bin_to_gray[t] = FullAgainst(bin_to_gray[t + FIFO_DEPTH])
    BY <2>1, HalfRoundCode DEF d
  <2> QED BY <1>2, <2>1, <2>3, <2>4 DEF Code, d, e
<1> QED BY <1>1, <1>2, <1>4, <1>5

(* Less than a round apart, the codes are the same only if the numbers are. *)
LEMMA CodesCompare ==
  ASSUME NEW a \in Nat, NEW b \in Nat, a <= b, b <= a + FIFO_DEPTH, Code(a) = Code(b)
  PROVE  a = b
<1>1. 2 ^ PTR_W \in Nat /\ 2 ^ PTR_W > 0 /\ b < a + 2 ^ PTR_W
  BY Widths
<1>2. a % 2 ^ PTR_W = b % 2 ^ PTR_W
  BY CountOf, GrayIsInjective DEF Code
<1> QED BY <1>1, <1>2, SameInOneRound

LEMMA NextCode ==
  ASSUME NEW k \in Nat
  PROVE  /\ ((k % 2 ^ PTR_W) + 1) % 2 ^ PTR_W = (k + 1) % 2 ^ PTR_W
         /\ (k % 2 ^ PTR_W) % FIFO_DEPTH = k % FIFO_DEPTH
         /\ OneBitApart(Code(k), Code(k + 1))
<1>1. /\ ((k % 2 ^ PTR_W) + 1) % 2 ^ PTR_W = (k + 1) % 2 ^ PTR_W
      /\ (k % 2 ^ PTR_W) % FIFO_DEPTH = k % FIFO_DEPTH
  <2> DEFINE d == FIFO_DEPTH
             e == 2 ^ PTR_W
  <2>1. d \in Nat /\ d > 1 /\ e \in Nat /\ e = 2 * d
    BY Widths
  <2> HIDE DEF d, e
  <2>2. (k % e) % d = k % d /\ ((k % e) + 1) % e = (k + 1) % e
    BY <2>1, Rounds
  <2> QED BY <2>2 DEF d, e
<1> QED BY <1>1, CountOf, NextCountOneBitApart DEF Code

(* What is taken in while the count goes on by one item or stands.         *)
LEMMA SampledCode ==
  ASSUME NEW k \in Nat, NEW n \in {k, k + 1}, NEW word \in Sampled(Code(k), Code(n))
  PROVE  \E j \in {k, n} : word = Code(j)
<1>1. CASE n = k + 1
  <2>1. n \in Nat
    OBVIOUS
  <2>2. word \in {Code(k), Code(n)}
    BY <1>1, <2>1, CountOf, NextCode, SampledIsEither
  <2> QED BY <2>2
<1>2. CASE n = k
  <2>1. OneBitApart(Code(k), Code(k))
    BY Widths DEF OneBitApart
  <2>2. word \in {Code(k), Code(k)}
    BY <1>2, <2>1, CountOf, SampledIsEither
  <2> QED BY <2>2
<1> QED BY <1>1, <1>2

-----------------------------------------------------------------------------
(* The two counters, unrolled.  w items have been written and r read; the  *)
(* reader's synchroniser holds the codes of two earlier numbers of writes, *)
(* the writer's of two earlier numbers of reads.  Each side therefore sees *)
(* less than there is, and a flag that is down is right.                   *)

Counted(r2, r1, r, w2, w1, w) ==
  /\ r2 <= r1 /\ r1 <= r /\ r <= w2 /\ w2 <= w1 /\ w1 <= w /\ w <= r2 + FIFO_DEPTH
  /\ rd_bin = r % 2 ^ PTR_W /\ wr_bin = w % 2 ^ PTR_W
  /\ rd_gray_sync1_wr = Code(r1) /\ rd_gray_sync2_wr = Code(r2)
  /\ wr_gray_sync1_rd = Code(w1) /\ wr_gray_sync2_rd = Code(w2)
  /\ wr_full \in BOOLEAN /\ (~wr_full => w < r2 + FIFO_DEPTH)
  /\ rd_empty \in BOOLEAN /\ (~rd_empty => r < w2)
  /\ mem \in [0 .. FIFO_DEPTH - 1 -> Items \cup {NoItem}]
  /\ \A k \in r .. w - 1 : mem[k % FIFO_DEPTH] \in Items

FifoInv == \E r2, r1, r, w2, w1, w \in Nat : Counted(r2, r1, r, w2, w1, w)

(* What is at hand for the writer, and the numbers after a clock edge.     *)
Puts == {<<>>} \cup {<<x>> : x \in Items}
Put(offered) == IF offered # <<>> /\ s_ready_o THEN offered ELSE <<>>
Written(offered, w) == IF offered # <<>> /\ s_ready_o THEN w + 1 ELSE w
Gotten(m_ready_i, r) == IF m_valid_o /\ m_ready_i THEN r + 1 ELSE r

LEMMA FifoInitCounted == FifoInit => Counted(0, 0, 0, 0, 0, 0)
<1> SUFFICES ASSUME FifoInit PROVE Counted(0, 0, 0, 0, 0, 0)
  OBVIOUS
<1>1. FIFO_DEPTH \in Nat /\ FIFO_DEPTH > 1 /\ 2 ^ PTR_W \in Nat /\ 2 ^ PTR_W > 0
  BY Widths
<1>2. 0 % 2 ^ PTR_W = 0
  <2>1. \A e \in Nat : e > 0 => 0 % e = 0
    OBVIOUS
  <2> QED BY <1>1, <2>1
<1>3. mem \in [0 .. FIFO_DEPTH - 1 -> Items \cup {NoItem}]
  BY DEF FifoInit
<1>4. /\ rd_bin = 0 % 2 ^ PTR_W /\ wr_bin = 0 % 2 ^ PTR_W
      /\ rd_gray_sync1_wr = Code(0) /\ rd_gray_sync2_wr = Code(0)
      /\ wr_gray_sync1_rd = Code(0) /\ wr_gray_sync2_rd = Code(0)
  BY <1>2 DEF FifoInit, Code
<1>5. wr_full = FALSE /\ rd_empty = TRUE
  BY DEF FifoInit
<1>6. 0 .. 0 - 1 = {} /\ 0 < 0 + FIFO_DEPTH
  BY <1>1
<1>7. /\ 0 <= 0 /\ 0 <= 0 + FIFO_DEPTH
      /\ \A k \in 0 .. 0 - 1 : mem[k % FIFO_DEPTH] \in Items
  BY <1>1, <1>6
<1>8. wr_full \in BOOLEAN /\ rd_empty \in BOOLEAN /\ rd_empty /\ ~wr_full
  BY <1>5
<1> QED BY <1>3, <1>4, <1>6, <1>7, <1>8, Zenon DEF Counted

LEMMA CountedOrder ==
  ASSUME NEW r2 \in Nat, NEW r1 \in Nat, NEW r \in Nat,
         NEW w2 \in Nat, NEW w1 \in Nat, NEW w \in Nat,
         Counted(r2, r1, r, w2, w1, w)
  PROVE  /\ r2 <= w /\ r2 <= r /\ r <= w /\ w2 <= w
         /\ w <= r2 + FIFO_DEPTH /\ w <= r + FIFO_DEPTH /\ w2 <= r + FIFO_DEPTH
BY Widths DEF Counted

(* The writer's side, seen from the count that comes after.                 *)
WrittenBy(r2, r1, r, w, offered, v) ==
  /\ v \in {w, w + 1} /\ v <= r2 + FIFO_DEPTH /\ v \in Nat
  /\ wr_bin' = v % 2 ^ PTR_W
  /\ rd_gray_sync2_wr' = Code(r1)
  /\ wr_full' = (v = r2 + FIFO_DEPTH)
  /\ mem' \in [0 .. FIFO_DEPTH - 1 -> Items \cup {NoItem}]
  /\ \A k \in r .. w - 1 : mem'[k % FIFO_DEPTH] = mem[k % FIFO_DEPTH]
  /\ v = w + 1 => mem'[w % FIFO_DEPTH] \in Items
                  /\ Put(offered) = <<mem'[w % FIFO_DEPTH]>>
  /\ v = w => Put(offered) = <<>>

LEMMA WriterCounts ==
  ASSUME NEW r2 \in Nat, NEW r1 \in Nat, NEW r \in Nat,
         NEW w2 \in Nat, NEW w1 \in Nat, NEW w \in Nat,
         Counted(r2, r1, r, w2, w1, w),
         NEW offered \in Puts, WriteSide(offered),
         NEW v, v = Written(offered, w)
  PROVE  WrittenBy(r2, r1, r, w, offered, v)
<1>1. /\ FIFO_DEPTH \in Nat /\ FIFO_DEPTH > 1
      /\ 2 ^ PTR_W \in Nat /\ 2 ^ PTR_W > 0
  BY Widths
<1>2. v \in {w, w + 1} /\ v \in Nat /\ v <= r2 + FIFO_DEPTH
  BY <1>1 DEF Counted, Written, s_ready_o
<1>3. wr_bin' = v % 2 ^ PTR_W
  <2>1. CASE offered # <<>> /\ s_ready_o
    <3>1. v = w + 1 /\ wr_bin' = (wr_bin + 1) % 2 ^ PTR_W
      BY <2>1 DEF Written, WriteSide
    <3> QED BY <3>1, NextCode DEF Counted
  <2>2. CASE ~(offered # <<>> /\ s_ready_o)
    <3>1. v = w /\ wr_bin' = (wr_bin + 0) % 2 ^ PTR_W
      BY <2>2 DEF Written, WriteSide
    <3>2. \A e \in Nat : e > 0 => ((w % e) + 0) % e = w % e
      OBVIOUS
    <3> QED BY <1>1, <3>1, <3>2 DEF Counted
  <2> QED BY <2>1, <2>2
<1>4. wr_full' = (v = r2 + FIFO_DEPTH)
  <2>1. wr_full' = (Code(v) = FullAgainst(Code(r2)))
    <3>1. wr_full' = (bin_to_gray[wr_bin'] = FullAgainst(rd_gray_sync2_wr))
      BY DEF WriteSide
    <3> QED BY <1>3, <3>1 DEF Code, Counted
  <2>2. r2 + FIFO_DEPTH \in Nat /\ r2 + FIFO_DEPTH <= v + FIFO_DEPTH
    <3>1. r2 <= w
      BY CountedOrder
    <3> QED BY <1>1, <1>2, <3>1
  <2>3. Code(v) = Code(r2 + FIFO_DEPTH) <=> v = r2 + FIFO_DEPTH
    BY <1>2, <2>2, CodesCompare
  <2> QED BY <2>1, <2>3, HalfRoundOn
<1>5. rd_gray_sync2_wr' = Code(r1)
  BY DEF WriteSide, Counted
<1>6. w % FIFO_DEPTH \in 0 .. FIFO_DEPTH - 1
      /\ \A k \in r .. w - 1 : k % FIFO_DEPTH \in 0 .. FIFO_DEPTH - 1
  BY <1>1, Divided
<1>7. CASE offered # <<>> /\ s_ready_o
  <2>1. v = w + 1 /\ Put(offered) = offered
    BY <1>7 DEF Written, Put
  <2>2. PICK x \in Items : offered = <<x>>
    BY <1>7 DEF Puts
  <2>3. Head(offered) = x
    BY <2>2
  <2>4. mem' = [mem EXCEPT ![w % FIFO_DEPTH] = x]
    <3>1. mem' = [mem EXCEPT ![wr_bin % FIFO_DEPTH] = Head(offered)]
      BY <1>7 DEF WriteSide
    <3> QED BY <2>3, <3>1, NextCode DEF Counted
  <2>5. mem' \in [0 .. FIFO_DEPTH - 1 -> Items \cup {NoItem}] /\ mem'[w % FIFO_DEPTH] = x
    BY <1>6, <2>4 DEF Counted
  <2>6. ASSUME NEW k \in r .. w - 1
        PROVE  mem'[k % FIFO_DEPTH] = mem[k % FIFO_DEPTH]
    <3>1. k \in Nat /\ k < w /\ w < k + FIFO_DEPTH
      <4>1. w < r2 + FIFO_DEPTH
        BY <1>7 DEF Counted, s_ready_o
      <4>2. r2 <= r
        BY CountedOrder
      <4> QED BY <1>1, <4>1, <4>2
    <3>2. k % FIFO_DEPTH # w % FIFO_DEPTH
      <4>1. SUFFICES ASSUME k % FIFO_DEPTH = w % FIFO_DEPTH PROVE FALSE
        OBVIOUS
      <4>2. k <= w /\ FIFO_DEPTH > 0
        BY <1>1, <3>1
      <4>3. k = w
        BY <1>1, <3>1, <4>1, <4>2, SameInOneRound
      <4> QED BY <3>1, <4>3
    <3> QED BY <1>6, <2>4, <3>2 DEF Counted
  <2>7. v # w
    BY <2>1
  <2> QED BY <1>2, <1>3, <1>4, <1>5, <2>1, <2>2, <2>5, <2>6, <2>7 DEF WrittenBy
<1>8. CASE ~(offered # <<>> /\ s_ready_o)
  <2>1. v = w /\ Put(offered) = <<>> /\ mem' = mem
    BY <1>8 DEF Written, Put, WriteSide
  <2>2. v # w + 1
    BY <2>1
  <2> QED BY <1>2, <1>3, <1>4, <1>5, <2>1, <2>2 DEF Counted, WrittenBy
<1> QED BY <1>7, <1>8

LEMMA ReaderCounts ==
  ASSUME NEW r2 \in Nat, NEW r1 \in Nat, NEW r \in Nat,
         NEW w2 \in Nat, NEW w1 \in Nat, NEW w \in Nat,
         Counted(r2, r1, r, w2, w1, w),
         NEW m_ready_i \in BOOLEAN, ReadSide(m_ready_i),
         NEW q, q = Gotten(m_ready_i, r)
  PROVE  /\ q \in {r, r + 1} /\ q <= w2 /\ q \in Nat
         /\ rd_bin' = q % 2 ^ PTR_W
         /\ wr_gray_sync2_rd' = Code(w1)
         /\ rd_empty' = (q = w2)
<1>1. /\ FIFO_DEPTH \in Nat /\ FIFO_DEPTH > 1
      /\ 2 ^ PTR_W \in Nat /\ 2 ^ PTR_W > 0
  BY Widths
<1>2. q \in {r, r + 1} /\ q \in Nat /\ q <= w2
  BY DEF Counted, Gotten, m_valid_o
<1>3. rd_bin' = q % 2 ^ PTR_W
  <2>1. CASE m_valid_o /\ m_ready_i
    <3>1. q = r + 1 /\ rd_bin' = (rd_bin + 1) % 2 ^ PTR_W
      BY <2>1 DEF Gotten, ReadSide
    <3> QED BY <3>1, NextCode DEF Counted
  <2>2. CASE ~(m_valid_o /\ m_ready_i)
    <3>1. q = r /\ rd_bin' = (rd_bin + 0) % 2 ^ PTR_W
      BY <2>2 DEF Gotten, ReadSide
    <3>2. \A e \in Nat : e > 0 => ((r % e) + 0) % e = r % e
      OBVIOUS
    <3> QED BY <1>1, <3>1, <3>2 DEF Counted
  <2> QED BY <2>1, <2>2
<1>4. rd_empty' = (q = w2)
  <2>1. rd_empty' = (Code(q) = Code(w2))
    <3>1. rd_empty' = (bin_to_gray[rd_bin'] = wr_gray_sync2_rd)
      BY DEF ReadSide
    <3> QED BY <1>3, <3>1 DEF Code, Counted
  <2>2. w2 <= q + FIFO_DEPTH
    <3>1. w2 <= r + FIFO_DEPTH
      BY CountedOrder
    <3> QED BY <1>1, <1>2, <3>1
  <2> QED BY <1>2, <2>1, <2>2, CodesCompare
<1> QED BY <1>2, <1>3, <1>4 DEF ReadSide, Counted

(* What an edge of either clock or of both does to the items between the   *)
(* two numbers, and what it may do to the flags.                           *)
Moved(r, w, q, v, put) ==
  /\ q \in {r, r + 1} /\ q <= w /\ v \in {w, w + 1}
  /\ \A k \in r .. w - 1 : mem'[k % FIFO_DEPTH] = mem[k % FIFO_DEPTH]
  /\ v = w + 1 => put = <<mem'[w % FIFO_DEPTH]>> /\ mem'[w % FIFO_DEPTH] \in Items /\ s_ready_o
  /\ v = w => put = <<>> /\ (s_ready_o => s_ready_o')
  /\ q = r + 1 => m_valid_o
  /\ q = r => (m_valid_o => m_valid_o')
  /\ s_ready_o' => v < q + FIFO_DEPTH
  /\ m_valid_o' => q < v

LEMMA WriteClockMoves ==
  ASSUME NEW r2 \in Nat, NEW r1 \in Nat, NEW r \in Nat,
         NEW w2 \in Nat, NEW w1 \in Nat, NEW w \in Nat,
         Counted(r2, r1, r, w2, w1, w),
         NEW offered \in Puts, WriteClock(offered),
         NEW v, v = Written(offered, w)
  PROVE  /\ v \in Nat /\ Counted(r1, r, r, w2, w1, v)'
         /\ Moved(r, w, r, v, Put(offered))
<1> DEFINE d == FIFO_DEPTH
<1>1. d \in Nat /\ d > 1
  BY Widths
<1>2. WriteSide(offered) /\ rd_gray_sync1_wr' = rd_gray /\ UNCHANGED reader_vars
  BY DEF WriteClock
<1>3. /\ v \in {w, w + 1} /\ v <= r2 + d /\ v \in Nat
      /\ wr_bin' = v % 2 ^ PTR_W
      /\ rd_gray_sync2_wr' = Code(r1)
      /\ wr_full' = (v = r2 + d)
      /\ mem' \in [0 .. d - 1 -> Items \cup {NoItem}]
      /\ \A k \in r .. w - 1 : mem'[k % d] = mem[k % d]
      /\ v = w + 1 => mem'[w % d] \in Items /\ Put(offered) = <<mem'[w % d]>>
      /\ v = w => Put(offered) = <<>>
  <2>1. WrittenBy(r2, r1, r, w, offered, v)
    BY <1>2, WriterCounts
  <2> QED BY <2>1 DEF WrittenBy
<1>4. /\ rd_bin' = rd_bin /\ rd_empty' = rd_empty
      /\ wr_gray_sync1_rd' = wr_gray_sync1_rd /\ wr_gray_sync2_rd' = wr_gray_sync2_rd
  BY <1>2 DEF reader_vars
<1>5. rd_gray_sync1_wr' = Code(r)
  BY <1>2 DEF rd_gray, Counted, Code
<1>6. /\ r2 <= r1 /\ r1 <= r /\ r <= w2 /\ w2 <= w1 /\ w1 <= w /\ w <= r2 + d
      /\ rd_bin = r % 2 ^ PTR_W
      /\ wr_gray_sync1_rd = Code(w1) /\ wr_gray_sync2_rd = Code(w2)
      /\ wr_full \in BOOLEAN /\ (~wr_full => w < r2 + d)
      /\ rd_empty \in BOOLEAN /\ (~rd_empty => r < w2)
      /\ \A k \in r .. w - 1 : mem[k % d] \in Items
  BY DEF Counted
<1> HIDE DEF d
<1>7. /\ w1 <= v /\ v <= r1 + d /\ (~wr_full' => v < r1 + d)
      /\ (~wr_full' => v < r + d) /\ r <= w /\ (~rd_empty' => r < v)
      /\ (v = w /\ ~wr_full => ~wr_full')
  <2>1. /\ r2 <= r1 /\ r1 <= r /\ r <= w2 /\ w2 <= w1 /\ w1 <= w /\ w <= r2 + d
        /\ v \in {w, w + 1} /\ v <= r2 + d /\ v \in Nat
    BY <1>3, <1>6
  <2>2. w1 <= v /\ v <= r1 + d /\ r <= w /\ r <= w2 /\ w2 <= v
        /\ (v # r2 + d => v < r1 + d /\ v < r + d)
    BY <1>1, <2>1
  <2>3. ~wr_full' <=> v # r2 + d
    BY <1>3
  <2>4. v = w /\ ~wr_full => v # r2 + d
    BY <1>1, <1>6, <2>1
  <2>5. ~rd_empty' => r < v
    BY <1>4, <1>6, <2>1, <2>2
  <2> QED BY <2>2, <2>3, <2>4, <2>5
<1>8. \A k \in r .. v - 1 : mem'[k % d] \in Items
  <2>1. ASSUME NEW k \in r .. v - 1 PROVE mem'[k % d] \in Items
    <3>1. k \in r .. w - 1 \/ (k = w /\ v = w + 1)
      BY <1>3
    <3> QED BY <1>3, <1>6, <3>1
  <2> QED BY <2>1
<1>9. wr_full' \in BOOLEAN
  BY <1>3
<1>10. Counted(r1, r, r, w2, w1, v)'
  BY <1>3, <1>4, <1>5, <1>6, <1>7, <1>8, <1>9 DEF Counted, d
<1>11. v = w + 1 => ~wr_full
  BY <1>3 DEF Written, s_ready_o
<1> QED BY <1>3, <1>4, <1>7, <1>10, <1>11 DEF Moved, s_ready_o, m_valid_o, d

LEMMA ReadClockMoves ==
  ASSUME NEW r2 \in Nat, NEW r1 \in Nat, NEW r \in Nat,
         NEW w2 \in Nat, NEW w1 \in Nat, NEW w \in Nat,
         Counted(r2, r1, r, w2, w1, w),
         NEW m_ready_i \in BOOLEAN, ReadClock(m_ready_i),
         NEW q, q = Gotten(m_ready_i, r)
  PROVE  /\ q \in Nat /\ Counted(r2, r1, q, w1, w, w)'
         /\ Moved(r, w, q, w, <<>>)
<1> DEFINE d == FIFO_DEPTH
<1>1. d \in Nat /\ d > 1
  BY Widths
<1>2. ReadSide(m_ready_i) /\ wr_gray_sync1_rd' = wr_gray /\ UNCHANGED writer_vars
  BY DEF ReadClock
<1>3. /\ q \in {r, r + 1} /\ q <= w2 /\ q \in Nat
      /\ rd_bin' = q % 2 ^ PTR_W
      /\ wr_gray_sync2_rd' = Code(w1)
      /\ rd_empty' = (q = w2)
  BY <1>2, ReaderCounts
<1>4. /\ mem' = mem /\ wr_bin' = wr_bin /\ wr_full' = wr_full
      /\ rd_gray_sync1_wr' = rd_gray_sync1_wr /\ rd_gray_sync2_wr' = rd_gray_sync2_wr
  BY <1>2 DEF writer_vars
<1>5. wr_gray_sync1_rd' = Code(w)
  BY <1>2 DEF wr_gray, Counted, Code
<1>6. /\ r2 <= r1 /\ r1 <= r /\ r <= w2 /\ w2 <= w1 /\ w1 <= w /\ w <= r2 + d
      /\ wr_bin = w % 2 ^ PTR_W
      /\ rd_gray_sync1_wr = Code(r1) /\ rd_gray_sync2_wr = Code(r2)
      /\ wr_full \in BOOLEAN /\ (~wr_full => w < r2 + d)
      /\ rd_empty \in BOOLEAN /\ (~rd_empty => r < w2)
      /\ mem \in [0 .. d - 1 -> Items \cup {NoItem}]
      /\ \A k \in r .. w - 1 : mem[k % d] \in Items
  BY DEF Counted
<1> HIDE DEF d
<1>7. /\ r1 <= q /\ q <= w1 /\ q <= w /\ w <= w
      /\ (~wr_full' => w < q + d) /\ (~rd_empty' => q < w1) /\ (~rd_empty' => q < w)
      /\ (q = r /\ ~rd_empty => ~rd_empty')
  <2>1. /\ r2 <= r1 /\ r1 <= r /\ r <= w2 /\ w2 <= w1 /\ w1 <= w /\ w <= r2 + d
        /\ q \in {r, r + 1} /\ q <= w2 /\ q \in Nat
    BY <1>3, <1>6
  <2>2. /\ r1 <= q /\ q <= w1 /\ q <= w /\ w <= w /\ (w < r2 + d => w < q + d)
        /\ (q # w2 => q < w1 /\ q < w)
    BY <1>1, <2>1
  <2>3. ~rd_empty' <=> q # w2
    BY <1>3
  <2>4. q = r /\ ~rd_empty => q # w2
    BY <1>6, <2>1
  <2>5. ~wr_full' => w < r2 + d
    BY <1>4, <1>6
  <2> QED BY <2>2, <2>3, <2>4, <2>5
<1>8. \A k \in q .. w - 1 : mem'[k % d] \in Items
  <2>1. q .. w - 1 \subseteq r .. w - 1
    BY <1>3
  <2> QED BY <1>4, <1>6, <2>1
<1>9. rd_empty' \in BOOLEAN
  BY <1>3
<1>10. Counted(r2, r1, q, w1, w, w)'
  BY <1>3, <1>4, <1>5, <1>6, <1>7, <1>8, <1>9 DEF Counted, d
<1>11. q = r + 1 => ~rd_empty
  BY <1>3 DEF Gotten, m_valid_o
<1>12. w # w + 1
  OBVIOUS
<1> QED BY <1>3, <1>4, <1>7, <1>10, <1>11, <1>12 DEF Moved, s_ready_o, m_valid_o, d

BothMoved(r1, r, w1, w, q, v, put) ==
  /\ q \in Nat /\ v \in Nat
  /\ \E seen \in Nat, known \in Nat : Counted(r1, seen, q, w1, known, v)'
  /\ Moved(r, w, q, v, put)

LEMMA BothClocksMove ==
  ASSUME NEW r2 \in Nat, NEW r1 \in Nat, NEW r \in Nat,
         NEW w2 \in Nat, NEW w1 \in Nat, NEW w \in Nat,
         Counted(r2, r1, r, w2, w1, w),
         NEW offered \in Puts, NEW m_ready_i \in BOOLEAN,
         BothClocks(offered, m_ready_i),
         NEW q, q = Gotten(m_ready_i, r),
         NEW v, v = Written(offered, w)
  PROVE  BothMoved(r1, r, w1, w, q, v, Put(offered))
<1> DEFINE d == FIFO_DEPTH
<1>1. d \in Nat /\ d > 1
  BY Widths
<1>2. /\ WriteSide(offered) /\ ReadSide(m_ready_i)
      /\ rd_gray_sync1_wr' \in Sampled(rd_gray, rd_gray')
      /\ wr_gray_sync1_rd' \in Sampled(wr_gray, wr_gray')
  BY DEF BothClocks
<1>3. /\ v \in {w, w + 1} /\ v <= r2 + d /\ v \in Nat
      /\ wr_bin' = v % 2 ^ PTR_W
      /\ rd_gray_sync2_wr' = Code(r1)
      /\ wr_full' = (v = r2 + d)
      /\ mem' \in [0 .. d - 1 -> Items \cup {NoItem}]
      /\ \A k \in r .. w - 1 : mem'[k % d] = mem[k % d]
      /\ v = w + 1 => mem'[w % d] \in Items /\ Put(offered) = <<mem'[w % d]>>
      /\ v = w => Put(offered) = <<>>
  <2>1. WrittenBy(r2, r1, r, w, offered, v)
    BY <1>2, WriterCounts
  <2> QED BY <2>1 DEF WrittenBy
<1>4. /\ q \in {r, r + 1} /\ q <= w2 /\ q \in Nat
      /\ rd_bin' = q % 2 ^ PTR_W
      /\ wr_gray_sync2_rd' = Code(w1)
      /\ rd_empty' = (q = w2)
  BY <1>2, ReaderCounts
<1>5. rd_gray = Code(r) /\ rd_gray' = Code(q) /\ wr_gray = Code(w) /\ wr_gray' = Code(v)
  BY <1>3, <1>4 DEF rd_gray, wr_gray, Counted, Code
<1>6. PICK seen \in {r, q} : rd_gray_sync1_wr' = Code(seen)
  BY <1>2, <1>4, <1>5, SampledCode
<1>7. PICK known \in {w, v} : wr_gray_sync1_rd' = Code(known)
  BY <1>2, <1>3, <1>5, SampledCode
<1>8. /\ r2 <= r1 /\ r1 <= r /\ r <= w2 /\ w2 <= w1 /\ w1 <= w /\ w <= r2 + d
      /\ wr_full \in BOOLEAN /\ (~wr_full => w < r2 + d)
      /\ rd_empty \in BOOLEAN /\ (~rd_empty => r < w2)
      /\ \A k \in r .. w - 1 : mem[k % d] \in Items
  BY DEF Counted
<1> HIDE DEF d
<1>9. /\ seen \in Nat /\ known \in Nat
      /\ r1 <= seen /\ seen <= q /\ q <= w1 /\ w1 <= known /\ known <= v /\ v <= r1 + d
      /\ q <= w /\ (~wr_full' => v < r1 + d) /\ (~wr_full' => v < q + d)
      /\ (~rd_empty' => q < w1) /\ (~rd_empty' => q < v)
      /\ (q = r /\ ~rd_empty => ~rd_empty') /\ (v = w /\ ~wr_full => ~wr_full')
  <2>1. /\ r2 <= r1 /\ r1 <= r /\ r <= w2 /\ w2 <= w1 /\ w1 <= w /\ w <= r2 + d
        /\ v \in {w, w + 1} /\ v <= r2 + d /\ v \in Nat
        /\ q \in {r, r + 1} /\ q <= w2 /\ q \in Nat
    BY <1>3, <1>4, <1>8
  <2>2. /\ seen \in Nat /\ known \in Nat
        /\ r1 <= seen /\ seen <= q /\ q <= w1 /\ w1 <= known /\ known <= v /\ v <= r1 + d
        /\ q <= w /\ (v # r2 + d => v < r1 + d /\ v < q + d)
        /\ (q # w2 => q < w1 /\ q < v)
    BY <1>1, <1>6, <1>7, <2>1
  <2>3. (~wr_full' <=> v # r2 + d) /\ (~rd_empty' <=> q # w2)
    BY <1>3, <1>4
  <2>4. v = w /\ ~wr_full => v # r2 + d
    BY <1>1, <1>8, <2>1
  <2>5. q = r /\ ~rd_empty => q # w2
    BY <1>8, <2>1
  <2> QED BY <2>2, <2>3, <2>4, <2>5
<1>10. \A k \in q .. v - 1 : mem'[k % d] \in Items
  <2>1. ASSUME NEW k \in q .. v - 1 PROVE mem'[k % d] \in Items
    <3>1. k \in r .. w - 1 \/ (k = w /\ v = w + 1)
      BY <1>3, <1>4
    <3> QED BY <1>3, <1>8, <3>1
  <2> QED BY <2>1
<1>11. wr_full' \in BOOLEAN /\ rd_empty' \in BOOLEAN
  BY <1>3, <1>4
<1>12. Counted(r1, seen, q, w1, known, v)'
  BY <1>3, <1>4, <1>6, <1>7, <1>9, <1>10, <1>11 DEF Counted, d
<1>13. (q = r + 1 => ~rd_empty) /\ (v = w + 1 => ~wr_full)
  BY <1>3, <1>4 DEF Gotten, m_valid_o, Written, s_ready_o
<1>14. Moved(r, w, q, v, Put(offered))
  BY <1>3, <1>4, <1>9, <1>13 DEF Moved, s_ready_o, m_valid_o, d
<1> QED BY <1>3, <1>4, <1>9, <1>12, <1>14 DEF BothMoved

-----------------------------------------------------------------------------
(* What lies between the two numbers, oldest first.                        *)

Slots(m, a, b) == [k \in 1 .. b - a |-> m[(a + k - 1) % FIFO_DEPTH]]

LEMMA DistanceRound ==
  ASSUME NEW e \in Nat, e > 0, NEW a \in Nat, NEW b \in Nat, a <= b, b < a + e
  PROVE  ((b % e) - (a % e)) % e = b - a
<1>1. PICK r \in 0 .. e - 1 : a % e = r /\ \E q \in Nat : a = q * e + r
  BY Divided
<1>2. PICK s \in 0 .. e - 1 : b % e = s /\ \E p \in Nat : b = p * e + s
  BY Divided
<1>3. b - a \in 0 .. e - 1
  OBVIOUS
<1>4. PICK t \in 0 .. e - 1 : t = b - a
  BY <1>3
<1>5. PICK q \in Nat : a = q * e + r
  BY <1>1
<1>6. CASE r + t < e
  <2>1. PICK u \in 0 .. e - 1 : u = r + t
    BY <1>6
  <2>2. b = q * e + u
    BY <1>4, <1>5, <2>1
  <2>3. s = u
    BY <1>2, <2>2, Remainder
  <2>4. s - r = 0 * e + t
    BY <2>1, <2>3
  <2> QED BY <1>1, <1>2, <1>4, <2>4, Remainder
<1>7. CASE r + t >= e
  <2>1. PICK u \in 0 .. e - 1 : u = r + t - e
    <3>1. r + t - e \in 0 .. e - 1
      BY <1>7
    <3> QED BY <3>1
  <2>2. b = (q + 1) * e + u /\ q + 1 \in Nat
    BY <1>4, <1>5, <2>1
  <2>3. s = u
    BY <1>2, <2>2, Remainder
  <2>4. s - r = t - e
    BY <2>1, <2>3
  <2>5. \A n \in Nat : \A k \in 0 .. n - 1 : (k - n) % n = k
    OBVIOUS
  <2> QED BY <1>1, <1>2, <1>4, <2>4, <2>5
<1> QED BY <1>6, <1>7

SameSlot(d, e, a, j) == ((a % e) + j) % d = (a + j) % d

LEMMA SlotOfRound ==
  ASSUME NEW d \in Nat, d > 1, NEW e \in Nat, e = 2 * d, NEW a \in Nat, NEW j \in Nat
  PROVE  SameSlot(d, e, a, j)
<1>1. e > 0
  OBVIOUS
<1>2. PICK r \in 0 .. e - 1 : a % e = r /\ \E q \in Nat : a = q * e + r
  BY <1>1, Divided
<1>3. PICK q \in Nat : a = q * e + r
  BY <1>2
<1>4. PICK n \in Nat : n = r + j
  OBVIOUS
<1>5. PICK s \in 0 .. d - 1 : n % d = s /\ \E p \in Nat : n = p * d + s
  <2>1. d > 0
    OBVIOUS
  <2> QED BY <2>1, Divided
<1>6. PICK p \in Nat : n = p * d + s
  BY <1>5
<1>7. a + j = (2 * q + p) * d + s /\ 2 * q + p \in Nat
  BY <1>3, <1>4, <1>6
<1>8. (a + j) % d = s
  BY <1>7, Remainder
<1> QED BY <1>2, <1>4, <1>5, <1>8 DEF SameSlot

LEMMA ContentsAreSlots ==
  ASSUME NEW m, NEW r \in Nat, NEW w \in Nat, r <= w, w <= r + FIFO_DEPTH
  PROVE  [k \in 1 .. ((w % 2 ^ PTR_W) - (r % 2 ^ PTR_W)) % 2 ^ PTR_W |->
            m[((r % 2 ^ PTR_W) + k - 1) % FIFO_DEPTH]] = Slots(m, r, w)
<1> DEFINE d == FIFO_DEPTH
           e == 2 ^ PTR_W
<1>1. d \in Nat /\ d > 1 /\ e \in Nat /\ e = 2 * d /\ e > 0
  BY Widths
<1>2. w <= r + d
  OBVIOUS
<1>3. Slots(m, r, w) = [k \in 1 .. w - r |-> m[(r + k - 1) % d]]
  BY DEF Slots
<1> HIDE DEF d, e
<1>4. w < r + e
  BY <1>1, <1>2
<1>5. ((w % e) - (r % e)) % e = w - r
  BY <1>1, <1>4, DistanceRound
<1>6. ASSUME NEW k \in 1 .. w - r
      PROVE  ((r % e) + k - 1) % d = (r + k - 1) % d
  <2>1. PICK j \in Nat : j = k - 1
    BY <1>2
  <2>2. r % e \in Nat
    BY <1>1, Divided
  <2>3. ((r % e) + j) % d = (r + j) % d
    <3>1. SameSlot(d, e, r, j)
      BY <1>1, SlotOfRound
    <3> QED BY <3>1 DEF SameSlot
  <2>4. (r % e) + k - 1 = (r % e) + j /\ r + k - 1 = r + j
    BY <2>1, <2>2
  <2> QED BY <2>3, <2>4
<1>7. [k \in 1 .. ((w % e) - (r % e)) % e |-> m[((r % e) + k - 1) % d]] = Slots(m, r, w)
  BY <1>3, <1>5, <1>6
<1> QED BY <1>7 DEF d, e

Holds(s, V, m, a, b) ==
  /\ s \in Seq(V) /\ Len(s) = b - a
  /\ \A k \in 1 .. b - a : s[k] = m[(a + k - 1) % FIFO_DEPTH]

LEMMA SlotsSequence ==
  ASSUME NEW V, NEW m \in [0 .. FIFO_DEPTH - 1 -> V],
         NEW a \in Nat, NEW b \in Nat, a <= b
  PROVE  Holds(Slots(m, a, b), V, m, a, b)
<1>1. b - a \in Nat
  OBVIOUS
<1>2. \A k \in 1 .. b - a : m[(a + k - 1) % FIFO_DEPTH] \in V
  <2>1. ASSUME NEW k \in 1 .. b - a PROVE (a + k - 1) % FIFO_DEPTH \in 0 .. FIFO_DEPTH - 1
    <3>1. a + k - 1 \in Nat /\ FIFO_DEPTH \in Nat /\ FIFO_DEPTH > 0
      BY Widths
    <3> QED BY <3>1, Divided
  <2> QED BY <2>1
<1> QED BY <1>1, <1>2 DEF Slots, Holds

Agree(n, m, a, b) == \A k \in a .. b - 1 : n[k % FIFO_DEPTH] = m[k % FIFO_DEPTH]

OneMore(n, m, a, b) ==
  /\ Slots(n, a, b) = Slots(m, a, b)
  /\ Slots(n, a, b + 1) = Slots(m, a, b) \o <<n[b % FIFO_DEPTH]>>

LEMMA SlotsPut ==
  ASSUME NEW V, NEW m \in [0 .. FIFO_DEPTH - 1 -> V], NEW n \in [0 .. FIFO_DEPTH - 1 -> V],
         NEW a \in Nat, NEW b \in Nat, a <= b, Agree(n, m, a, b)
  PROVE  OneMore(n, m, a, b)
<1> DEFINE s == Slots(m, a, b)
           t == Slots(n, a, b)
           u == Slots(n, a, b + 1)
           x == n[b % FIFO_DEPTH]
<1>1. /\ s \in Seq(V) /\ Len(s) = b - a
      /\ \A k \in 1 .. b - a : s[k] = m[(a + k - 1) % FIFO_DEPTH]
  <2>1. a <= b
    OBVIOUS
  <2>2. Holds(s, V, m, a, b)
    BY <2>1, SlotsSequence
  <2> QED BY <2>2 DEF Holds
<1>2. /\ t \in Seq(V) /\ Len(t) = b - a
      /\ \A k \in 1 .. b - a : t[k] = n[(a + k - 1) % FIFO_DEPTH]
  <2>1. Holds(t, V, n, a, b)
    BY SlotsSequence
  <2> QED BY <2>1 DEF Holds
<1>3. /\ u \in Seq(V) /\ Len(u) = b + 1 - a
      /\ \A k \in 1 .. b + 1 - a : u[k] = n[(a + k - 1) % FIFO_DEPTH]
  <2>1. b + 1 \in Nat /\ a <= b + 1
    OBVIOUS
  <2>2. Holds(u, V, n, a, b + 1)
    BY <2>1, SlotsSequence
  <2> QED BY <2>2 DEF Holds
<1>4. x \in V
  <2>1. FIFO_DEPTH \in Nat /\ FIFO_DEPTH > 0
    BY Widths
  <2>2. b % FIFO_DEPTH \in 0 .. FIFO_DEPTH - 1
    BY <2>1, Divided
  <2> QED BY <2>2
<1>5. \A k \in 1 .. b - a : a + k - 1 \in a .. b - 1
  OBVIOUS
<1>6. ASSUME NEW k \in 1 .. b + 1 - a, ~(k <= b - a) PROVE k = b - a + 1 /\ a + k - 1 = b
  BY <1>6
<1> HIDE DEF s, t, u, x
<1>7. t = s
  <2>1. \A k \in 1 .. Len(t) : t[k] = s[k]
    BY <1>1, <1>2, <1>5 DEF Agree
  <2> QED BY <1>1, <1>2, <2>1, SeqEqual
<1>8. u = s \o <<x>>
  <2>1. /\ <<x>> \in Seq(V) /\ Len(<<x>>) = 1 /\ <<x>>[1] = x
    BY <1>4
  <2>2. /\ s \o <<x>> \in Seq(V) /\ Len(s \o <<x>>) = Len(s) + 1
        /\ \A k \in 1 .. Len(s) + 1 :
             (s \o <<x>>)[k] = IF k <= Len(s) THEN s[k] ELSE <<x>>[k - Len(s)]
    BY <1>1, <2>1, ConcatProperties
  <2>3. Len(u) = Len(s \o <<x>>)
    BY <1>1, <1>3, <2>2
  <2>4. ASSUME NEW k \in 1 .. Len(u) PROVE u[k] = (s \o <<x>>)[k]
    <3>1. k \in 1 .. b + 1 - a /\ k \in 1 .. Len(s) + 1
      BY <1>1, <1>3
    <3>2. CASE k <= b - a
      <4>1. k \in 1 .. b - a
        BY <3>1, <3>2
      <4> QED BY <1>1, <1>3, <1>5, <2>2, <3>1, <4>1 DEF Agree
    <3>3. CASE ~(k <= b - a)
      <4>1. k = Len(s) + 1 /\ a + k - 1 = b
        BY <1>1, <1>6, <3>1, <3>3
      <4>2. u[k] = x
        BY <1>3, <3>1, <4>1 DEF x
      <4>3. (s \o <<x>>)[k] = <<x>>[1]
        BY <1>1, <2>2, <3>1, <4>1
      <4> QED BY <2>1, <4>2, <4>3
    <3> QED BY <3>2, <3>3
  <2> QED BY <1>3, <2>2, <2>3, <2>4, SeqEqual
<1> QED BY <1>7, <1>8 DEF s, t, u, x, OneMore

LEMMA SlotsGot ==
  ASSUME NEW V, NEW m \in [0 .. FIFO_DEPTH - 1 -> V],
         NEW a \in Nat, NEW b \in Nat, a < b
  PROVE  Slots(m, a, b) = <<m[a % FIFO_DEPTH]>> \o Slots(m, a + 1, b)
<1> DEFINE s == Slots(m, a, b)
           t == Slots(m, a + 1, b)
           x == m[a % FIFO_DEPTH]
<1>1. /\ s \in Seq(V) /\ Len(s) = b - a
      /\ \A k \in 1 .. b - a : s[k] = m[(a + k - 1) % FIFO_DEPTH]
  <2>1. a <= b
    OBVIOUS
  <2>2. Holds(s, V, m, a, b)
    BY <2>1, SlotsSequence
  <2> QED BY <2>2 DEF Holds
<1>2. /\ t \in Seq(V) /\ Len(t) = b - (a + 1)
      /\ \A k \in 1 .. b - (a + 1) : t[k] = m[(a + 1 + k - 1) % FIFO_DEPTH]
  <2>1. a + 1 \in Nat /\ a + 1 <= b
    OBVIOUS
  <2>2. Holds(t, V, m, a + 1, b)
    BY <2>1, SlotsSequence
  <2> QED BY <2>2 DEF Holds
<1>3. x \in V
  <2>1. FIFO_DEPTH \in Nat /\ FIFO_DEPTH > 0
    BY Widths
  <2>2. a % FIFO_DEPTH \in 0 .. FIFO_DEPTH - 1
    BY <2>1, Divided
  <2> QED BY <2>2
<1>4. <<x>> \in Seq(V) /\ Len(<<x>>) = 1 /\ <<x>>[1] = x
  BY <1>3
<1> HIDE DEF s, t
<1>5. /\ <<x>> \o t \in Seq(V) /\ Len(<<x>> \o t) = 1 + Len(t)
      /\ \A k \in 1 .. 1 + Len(t) :
           (<<x>> \o t)[k] = IF k <= 1 THEN <<x>>[k] ELSE t[k - 1]
  <2> HIDE DEF x
  <2> QED BY <1>2, <1>4, ConcatProperties
<1>6. Len(s) = Len(<<x>> \o t)
  BY <1>1, <1>2, <1>5
<1>7. ASSUME NEW k \in 1 .. Len(s) PROVE s[k] = (<<x>> \o t)[k]
  <2>1. k \in 1 .. b - a /\ k \in 1 .. 1 + Len(t)
    BY <1>1, <1>2
  <2>2. CASE k = 1
    <3>1. a + k - 1 = a
      BY <2>2
    <3>2. s[k] = x
      BY <1>1, <2>1, <3>1
    <3> QED BY <1>4, <1>5, <2>1, <2>2, <3>2
  <2>3. CASE k # 1
    <3>1. k - 1 \in 1 .. b - (a + 1) /\ a + 1 + (k - 1) - 1 = a + k - 1 /\ ~(k <= 1)
      BY <2>1, <2>3
    <3>2. t[k - 1] = m[(a + k - 1) % FIFO_DEPTH]
      BY <1>2, <3>1
    <3> QED BY <1>1, <1>5, <2>1, <3>1, <3>2
  <2> QED BY <2>2, <2>3
<1> HIDE DEF x
<1> QED BY <1>1, <1>5, <1>6, <1>7, SeqEqual DEF s, t, x

(* An edge is a move of the queue.                                         *)
LEMMA MovedIsAMove ==
  ASSUME NEW r2 \in Nat, NEW r1 \in Nat, NEW r \in Nat,
         NEW w2 \in Nat, NEW w1 \in Nat, NEW w \in Nat,
         Counted(r2, r1, r, w2, w1, w),
         NEW q2 \in Nat, NEW q1 \in Nat, NEW q \in Nat,
         NEW v2 \in Nat, NEW v1 \in Nat, NEW v \in Nat,
         Counted(q2, q1, q, v2, v1, v)',
         NEW put, Moved(r, w, q, v, put)
  PROVE  Queue!Move
<1> DEFINE d == FIFO_DEPTH
           V == Items \cup {NoItem}
           got == IF q = r THEN <<>> ELSE <<mem[r % d]>>
           s == Slots(mem, r, w)
           t == Slots(mem', q, v)
           u == Slots(mem', r, v)
<1>1. d \in Nat /\ d > 1
  BY Widths
<1>2. r <= w /\ w <= r + d
  BY CountedOrder
<1>3. q <= v /\ v <= q + d
  <2>1. q2 <= q1 /\ q1 <= q /\ q <= v2 /\ v2 <= v1 /\ v1 <= v /\ v <= q2 + d
    BY DEF Counted
  <2> QED BY <1>1, <2>1
<1>4. /\ q \in {r, r + 1} /\ q <= w /\ v \in {w, w + 1}
      /\ \A k \in r .. w - 1 : mem'[k % d] = mem[k % d]
      /\ v = w + 1 => put = <<mem'[w % d]>> /\ mem'[w % d] \in Items /\ s_ready_o
      /\ v = w => put = <<>> /\ (s_ready_o => s_ready_o')
      /\ q = r + 1 => m_valid_o
      /\ q = r => (m_valid_o => m_valid_o')
      /\ s_ready_o' => v < q + d
      /\ m_valid_o' => q < v
  BY DEF Moved
<1>5. mem \in [0 .. d - 1 -> V] /\ mem' \in [0 .. d - 1 -> V]
  BY DEF Counted
<1>6. Contents = s
  <2>1. wr_bin = w % 2 ^ PTR_W /\ rd_bin = r % 2 ^ PTR_W
    BY DEF Counted
  <2> QED BY <1>2, <2>1, ContentsAreSlots DEF Contents
<1>7. Contents' = t
  <2>1. wr_bin' = v % 2 ^ PTR_W /\ rd_bin' = q % 2 ^ PTR_W
    BY DEF Counted
  <2> QED BY <1>3, <2>1, ContentsAreSlots DEF Contents
<1>8. u = s \o put
  <2>1. Slots(mem', r, w) = s /\ Slots(mem', r, w + 1) = s \o <<mem'[w % d]>>
    <3>1. Agree(mem', mem, r, w)
      BY <1>4 DEF Agree
    <3>2. OneMore(mem', mem, r, w)
      BY <1>2, <1>5, <3>1, SlotsPut
    <3> QED BY <3>2 DEF OneMore
  <2>2. s \in Seq(V)
    BY <1>2, <1>5, SlotsSequence DEF Holds
  <2>3. CASE v = w
    <3>1. s \o <<>> = s
      BY <2>2, ConcatEmptySeq
    <3> QED BY <1>4, <2>1, <2>3, <3>1
  <2>4. CASE v = w + 1
    BY <1>4, <2>1, <2>4
  <2> QED BY <1>4, <2>3, <2>4
<1>9. u = got \o t
  <2>1. CASE q = r
    <3>1. t \in Seq(V)
      BY <1>3, <1>5, SlotsSequence DEF Holds
    <3>2. <<>> \o t = t
      BY <3>1, ConcatEmptySeq
    <3> QED BY <2>1, <3>2
  <2>2. CASE q = r + 1
    <3>1. r < v /\ r < w /\ q # r
      BY <1>3, <1>4, <2>2
    <3>2. u = <<mem'[r % d]>> \o t
      BY <1>5, <2>2, <3>1, SlotsGot
    <3>3. mem'[r % d] = mem[r % d]
      BY <1>4, <3>1
    <3> QED BY <3>1, <3>2, <3>3
  <2> QED BY <1>4, <2>1, <2>2
<1>10. put \in {<<>>} \cup {<<x>> : x \in Items}
  BY <1>4
<1>11. got \in {<<>>, Queue!Oldest}
  <2>1. CASE q = r
    BY <2>1
  <2>2. CASE q = r + 1
    <3>1. Holds(s, V, mem, r, w)
      BY <1>2, <1>5, SlotsSequence
    <3>2. 1 \in 1 .. w - r /\ r + 1 - 1 = r /\ q # r
      BY <1>4, <2>2
    <3>3. s \in Seq(V) /\ Len(s) = w - r /\ s[1] = mem[r % d]
      BY <3>1, <3>2 DEF Holds
    <3>4. s # <<>> /\ Head(s) = s[1]
      BY <3>2, <3>3
    <3>5. Queue!Oldest = <<mem[r % d]>>
      BY <1>6, <3>3, <3>4 DEF Queue!Oldest
    <3> QED BY <3>2, <3>5
  <2> QED BY <1>4, <2>1, <2>2
<1>12. (s_ready_o' => Len(t) < d) /\ (m_valid_o' => t # <<>>)
  <2>1. Len(t) = v - q
    <3>1. Holds(t, V, mem', q, v)
      BY <1>3, <1>5, SlotsSequence
    <3> QED BY <3>1 DEF Holds
  <2>2. m_valid_o' => Len(t) > 0
    BY <1>4, <2>1
  <2> QED BY <1>1, <1>3, <1>4, <2>1, <2>2
<1>13. (put # <<>> => s_ready_o) /\ (got # <<>> => m_valid_o)
  BY <1>4
<1>14. (s_ready_o /\ put = <<>> => s_ready_o') /\ (m_valid_o /\ got = <<>> => m_valid_o')
  <2>1. v = w + 1 => put # <<>>
    <3>1. \A x : <<x>> # <<>>
      OBVIOUS
    <3> QED BY <1>4, <3>1
  <2>2. q = r + 1 => got # <<>>
    OBVIOUS
  <2> QED BY <1>4, <2>1, <2>2
<1> HIDE DEF got, s, t, u
<1> QED BY <1>6, <1>7, <1>8, <1>9, <1>10, <1>11, <1>12, <1>13, <1>14 DEF Queue!Move, d

-----------------------------------------------------------------------------
(* The router behind the FIFO.                                             *)

CrossingInv == FifoInv /\ offer \in DOMAIN Stream /\ event = rdata_i

LEMMA OffersArePuts ==
  ASSUME offer \in DOMAIN Stream, NEW offered \in Offers
  PROVE  offered \in Puts
<1>1. Stream \in Seq(Items) /\ offer \in 1 .. Len(Stream)
  BY EventCrossingAssumption
<1>2. Stream[offer] \in Items
  BY <1>1
<1> QED BY <1>2 DEF Offers, Puts

LEMMA OfferGoesRound ==
  ASSUME offer \in DOMAIN Stream, NEW offered, Offered(offered)
  PROVE  offer' \in DOMAIN Stream
<1>1. Len(Stream) \in Nat /\ Len(Stream) > 0 /\ DOMAIN Stream = 1 .. Len(Stream)
  BY EventCrossingAssumption
<1>2. \A n \in Nat, k \in Nat : n > 0 => (k % n) + 1 \in 1 .. n
  OBVIOUS
<1>3. offer \in Nat
  BY <1>1
<1> QED BY <1>1, <1>2, <1>3 DEF Offered

LEMMA CrossingInitHolds == CrossingInit => CrossingInv /\ Queue!Init /\ Init
<1> SUFFICES ASSUME CrossingInit PROVE CrossingInv /\ Queue!Init /\ Init
  OBVIOUS
<1>1. FifoInit /\ Init /\ offer = 1 /\ event = rdata_i
  BY DEF CrossingInit
<1>2. Counted(0, 0, 0, 0, 0, 0)
  BY <1>1, FifoInitCounted
<1>3. FifoInv
  BY <1>2 DEF FifoInv
<1>4. offer \in DOMAIN Stream
  <2>1. Len(Stream) \in Nat /\ Len(Stream) > 0 /\ DOMAIN Stream = 1 .. Len(Stream)
    BY EventCrossingAssumption
  <2> QED BY <1>1, <2>1
<1>5. Contents = <<>>
  <2>1. 0 <= 0 + FIFO_DEPTH
    BY Widths
  <2>2. Contents = Slots(mem, 0, 0)
    BY <1>2, <2>1, ContentsAreSlots DEF Contents, Counted
  <2>3. mem \in [0 .. FIFO_DEPTH - 1 -> Items \cup {NoItem}]
    BY <1>2 DEF Counted
  <2>4. Holds(Slots(mem, 0, 0), Items \cup {NoItem}, mem, 0, 0)
    BY <2>3, SlotsSequence
  <2>5. Len(Slots(mem, 0, 0)) = 0 /\ Slots(mem, 0, 0) \in Seq(Items \cup {NoItem})
    BY <2>4 DEF Holds
  <2> QED BY <2>2, <2>5, EmptySeq
<1>6. s_ready_o \in BOOLEAN /\ m_valid_o = FALSE
  BY <1>1 DEF FifoInit, s_ready_o, m_valid_o
<1> QED BY <1>1, <1>3, <1>4, <1>5, <1>6 DEF CrossingInv, Queue!Init

(* What the reader is shown stands until it is taken, and is then replaced *)
(* by an item or by nothing: the FIFO is a source as the router wants it.  *)
LEMMA ShownItem ==
  ASSUME NEW r2 \in Nat, NEW r1 \in Nat, NEW r \in Nat,
         NEW w2 \in Nat, NEW w1 \in Nat, NEW w \in Nat,
         Counted(r2, r1, r, w2, w1, w),
         NEW q2 \in Nat, NEW q1 \in Nat, NEW q \in Nat,
         NEW v2 \in Nat, NEW v1 \in Nat, NEW v \in Nat,
         Counted(q2, q1, q, v2, v1, v)',
         NEW put, Moved(r, w, q, v, put)
  PROVE  /\ rdata_i' \in Events \cup {NoEvent}
         /\ q = r /\ m_valid_o => rdata_i' = rdata_i
<1>1. Items \subseteq Events
  BY EventCrossingAssumption
<1>2. /\ rd_bin = r % 2 ^ PTR_W /\ rd_bin' = q % 2 ^ PTR_W
      /\ \A k \in q .. v - 1 : mem'[k % FIFO_DEPTH] \in Items
      /\ m_valid_o => r < w
  <2>1. r <= w2 /\ w2 <= w1 /\ w1 <= w /\ (~rd_empty => r < w2)
    BY DEF Counted
  <2>2. m_valid_o => r < w
    BY <2>1 DEF m_valid_o
  <2> QED BY <2>2 DEF Counted
<1>3. m_data_o = mem[r % FIFO_DEPTH] /\ m_data_o' = mem'[q % FIFO_DEPTH]
  BY <1>2, NextCode DEF m_data_o
<1>4. /\ \A k \in r .. w - 1 : mem'[k % FIFO_DEPTH] = mem[k % FIFO_DEPTH]
      /\ q = r => (m_valid_o => m_valid_o')
      /\ m_valid_o' => q < v
  BY DEF Moved
<1>5. m_valid_o' => m_data_o' \in Items
  BY <1>2, <1>3, <1>4
<1>6. q = r /\ m_valid_o => m_data_o' = m_data_o /\ m_valid_o'
  BY <1>2, <1>3, <1>4
<1> QED BY <1>1, <1>5, <1>6 DEF rdata_i

LEMMA ReadyIsBoolean == ready_o \in BOOLEAN
BY DEF ready_o, Free, delivering

LEMMA CrossingStep ==
  ASSUME CrossingInv, CrossingNext
  PROVE  CrossingInv' /\ Queue!Move /\ (Next \/ UNCHANGED vars)
<1>1. PICK r2, r1, r, w2, w1, w \in Nat : Counted(r2, r1, r, w2, w1, w)
  BY DEF CrossingInv, FifoInv
<1>2. offer \in DOMAIN Stream /\ event = rdata_i
  BY DEF CrossingInv
<1>3. ready_o \in BOOLEAN
  BY ReadyIsBoolean
<1>4. event # NoEvent <=> m_valid_o
  <2>1. m_valid_o => m_data_o \in Items
    <3>1. r <= w2 /\ w2 <= w1 /\ w1 <= w /\ (~rd_empty => r < w2)
          /\ \A k \in r .. w - 1 : mem[k % FIFO_DEPTH] \in Items
      BY <1>1 DEF Counted
    <3>2. m_data_o = mem[r % FIFO_DEPTH]
      BY <1>1, NextCode DEF m_data_o, Counted
    <3> QED BY <3>1, <3>2 DEF m_valid_o
  <2>2. NoEvent \notin Items
    BY EventCrossingAssumption, EventFifoAssumption
  <2> QED BY <1>2, <2>1, <2>2 DEF rdata_i
<1>5. CASE WriteEdge
  <2>1. PICK offered \in Offers :
          /\ WriteClock(offered)
          /\ Offered(offered)
          /\ event' = rdata_i'
          /\ UNCHANGED <<ready, rdata, base_price, valid, accepted, taken, owed>>
    BY <1>5 DEF WriteEdge
  <2>2. offered \in Puts
    BY <1>2, OffersArePuts
  <2>11. PICK v : v = Written(offered, w)
    OBVIOUS
  <2>3. /\ v \in Nat /\ Counted(r1, r, r, w2, w1, v)'
        /\ Moved(r, w, r, v, Put(offered))
    BY <1>1, <2>1, <2>2, <2>11, WriteClockMoves
  <2>4. Queue!Move
    BY <1>1, <2>3, MovedIsAMove
  <2>5. m_valid_o => rdata_i' = rdata_i
    BY <1>1, <2>3, ShownItem
  <2>6. m_valid_o' = m_valid_o
    BY <2>1 DEF WriteClock, reader_vars, m_valid_o
  <2>7. rdata_i' = rdata_i
    BY <2>5, <2>6 DEF rdata_i
  <2>8. UNCHANGED vars
    BY <1>2, <2>1, <2>7 DEF vars
  <2>9. FifoInv'
    BY <2>3 DEF FifoInv
  <2>10. offer' \in DOMAIN Stream
    BY <1>2, <2>1, OfferGoesRound
  <2> QED BY <2>1, <2>4, <2>8, <2>9, <2>10 DEF CrossingInv
<1>6. CASE ReadEdge
  <2>1. ReadClock(ready_o) /\ Router /\ event' = rdata_i' /\ offer' = offer
    BY <1>6 DEF ReadEdge
  <2>8. PICK q : q = Gotten(ready_o, r)
    OBVIOUS
  <2>2. /\ q \in Nat /\ Counted(r2, r1, q, w1, w, w)'
        /\ Moved(r, w, q, w, <<>>)
    BY <1>1, <1>3, <2>1, <2>8, ReadClockMoves
  <2>3. q = IF m_valid_o /\ ready_o THEN r + 1 ELSE r
    BY <2>8 DEF Gotten
  <2>4. Queue!Move
    BY <1>1, <2>2, MovedIsAMove
  <2>5. /\ rdata_i' \in Events \cup {NoEvent}
        /\ q = r /\ m_valid_o => rdata_i' = rdata_i
    BY <1>1, <2>2, ShownItem
  <2>6. Source
    BY <1>2, <1>4, <2>1, <2>3, <2>5 DEF Source, handshake
  <2>7. FifoInv'
    BY <1>1, <2>2 DEF FifoInv
  <2> QED BY <1>2, <2>1, <2>4, <2>6, <2>7 DEF CrossingInv, Next
<1>7. CASE BothEdges
  <2>1. PICK offered \in Offers :
          /\ BothClocks(offered, ready_o)
          /\ Offered(offered)
          /\ Router
          /\ event' = rdata_i'
    BY <1>7 DEF BothEdges
  <2>2. offered \in Puts
    BY <1>2, OffersArePuts
  <2>11. PICK q : q = Gotten(ready_o, r)
    OBVIOUS
  <2>12. PICK v : v = Written(offered, w)
    OBVIOUS
  <2>3. /\ q \in Nat /\ v \in Nat
        /\ \E seen \in Nat, known \in Nat : Counted(r1, seen, q, w1, known, v)'
        /\ Moved(r, w, q, v, Put(offered))
    <3>1. BothMoved(r1, r, w1, w, q, v, Put(offered))
      BY <1>1, <1>3, <2>1, <2>2, <2>11, <2>12, BothClocksMove
    <3> QED BY <3>1 DEF BothMoved
  <2>4. q = IF m_valid_o /\ ready_o THEN r + 1 ELSE r
    BY <2>11 DEF Gotten
  <2>5. PICK seen \in Nat, known \in Nat : Counted(r1, seen, q, w1, known, v)'
    BY <2>3
  <2>6. Queue!Move
    BY <1>1, <2>3, <2>5, MovedIsAMove
  <2>7. /\ rdata_i' \in Events \cup {NoEvent}
        /\ q = r /\ m_valid_o => rdata_i' = rdata_i
    BY <1>1, <2>3, <2>5, ShownItem
  <2>8. Source
    BY <1>2, <1>4, <2>1, <2>4, <2>7 DEF Source, handshake
  <2>9. FifoInv'
    BY <1>1, <2>3, <2>5 DEF FifoInv
  <2>10. offer' \in DOMAIN Stream
    BY <1>2, <2>1, OfferGoesRound
  <2> QED BY <2>1, <2>6, <2>8, <2>9, <2>10 DEF CrossingInv, Next
<1> QED BY <1>5, <1>6, <1>7 DEF CrossingNext

LEMMA CrossingStutter ==
  ASSUME CrossingInv, UNCHANGED crossing_vars
  PROVE  CrossingInv' /\ UNCHANGED vars /\ UNCHANGED Queue!vars
<1>1. /\ UNCHANGED vars /\ offer' = offer
      /\ mem' = mem /\ wr_bin' = wr_bin /\ wr_full' = wr_full
      /\ rd_gray_sync1_wr' = rd_gray_sync1_wr /\ rd_gray_sync2_wr' = rd_gray_sync2_wr
      /\ rd_bin' = rd_bin /\ rd_empty' = rd_empty
      /\ wr_gray_sync1_rd' = wr_gray_sync1_rd /\ wr_gray_sync2_rd' = wr_gray_sync2_rd
  BY DEF crossing_vars, fifo_vars, writer_vars, reader_vars
<1>2. FifoInv'
  <2>1. PICK r2, r1, r, w2, w1, w \in Nat : Counted(r2, r1, r, w2, w1, w)
    BY DEF CrossingInv, FifoInv
  <2>2. Counted(r2, r1, r, w2, w1, w)'
    BY <1>1, <2>1 DEF Counted
  <2> QED BY <2>2 DEF FifoInv
<1>3. rdata_i' = rdata_i /\ event' = event
  BY <1>1 DEF rdata_i, m_valid_o, m_data_o, vars
<1>4. UNCHANGED Queue!vars
  BY <1>1 DEF Queue!vars, Contents, s_ready_o, m_valid_o
<1> QED BY <1>1, <1>2, <1>3, <1>4 DEF CrossingInv

LEMMA AlwaysCrossingInv == CrossingSpec => []CrossingInv
<1>1. CrossingInit => CrossingInv
  BY CrossingInitHolds
<1>2. CrossingInv /\ [CrossingNext]_crossing_vars => CrossingInv'
  BY CrossingStep, CrossingStutter
<1> QED BY <1>1, <1>2, PTL DEF CrossingSpec

(* event_async_fifo_sim.sv is a bounded queue for any depth, any items and *)
(* any order of the two clocks' edges: nothing is lost, doubled or         *)
(* overwritten, full and empty are never denied wrongly, and what was      *)
(* announced stands.  With the news that arrive under fairness this is     *)
(* FifoIsAQueue.                                                           *)
THEOREM FifoKeepsItsPromise == CrossingSpec => Queue!Safety
<1>1. CrossingInit => Queue!Init
  BY CrossingInitHolds
<1>2. CrossingInv /\ [CrossingNext]_crossing_vars => [Queue!Move]_(Queue!vars)
  BY CrossingStep, CrossingStutter
<1> QED BY <1>1, <1>2, AlwaysCrossingInv, PTL DEF CrossingSpec, Queue!Safety

(* Behind the FIFO the router works as with any source that holds its      *)
(* event, so that all that is proved of it holds there too.                *)
THEOREM RouterBehindTheFifo == CrossingSpec => Spec
<1>1. CrossingInit => Init
  BY CrossingInitHolds
<1>2. CrossingInv /\ [CrossingNext]_crossing_vars => [Next]_vars
  BY CrossingStep, CrossingStutter
<1> QED BY <1>1, <1>2, AlwaysCrossingInv, PTL DEF CrossingSpec, Spec

(* From the decoder to the books: no event is lost in the shared register, *)
(* and each book takes its own.                                            *)
THEOREM CrossingKeepsTheRegister ==
  CrossingSpec => []RegisterHoldsWhatIsOwed /\ TakesItsOwn
BY RouterBehindTheFifo, NothingIsLost, EachBookTakesItsOwn, PTL
=============================================================================
