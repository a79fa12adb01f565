--------------------------- MODULE GoldenBookProofs ---------------------------
(***************************************************************************)
(* Proofs about GoldenBook for every set of references, prices and         *)
(* quantities: the incremental levels always aggregate the order table,    *)
(* so the top of book is right and no decrease can fail.                   *)
(***************************************************************************)
EXTENDS GoldenBook, FiniteSetTheorems, WellFoundedInduction, TLAPS

-----------------------------------------------------------------------------
(* How the number of orders and of shares at a price changes when one      *)
(* entry of an order table is rewritten.  Every book operation is one or   *)
(* two such rewrites.                                                      *)
Table == [Refs -> Order \cup {NoOrder}]

(* What one entry contributes to the level of a price.                     *)
RestsAt(entry, side, price) ==
  entry # NoOrder /\ entry.side = side /\ entry.price = price

SharesIn(entry, side, price) ==
  IF RestsAt(entry, side, price) THEN entry.shares ELSE 0

OrdersIn(entry, side, price) ==
  IF RestsAt(entry, side, price) THEN 1 ELSE 0

(* An entry contributes a 32-bit number of shares.                         *)
LEMMA SharesInType ==
  ASSUME NEW entry \in Order \cup {NoOrder}, NEW side, NEW price
  PROVE  SharesIn(entry, side, price) \in 0 .. SHARES_MAX
BY LimitOrdersAssumption DEF SharesIn, RestsAt, Order, Shares

(* The share units of a price, in terms of what each entry contributes.    *)
LEMMA UnitsByEntry ==
  ASSUME NEW table \in Table, NEW side, NEW price
  PROVE  ShareUnits(table, side, price) =
           {u \in Refs \X (1 .. SHARES_MAX) :
              u[2] <= SharesIn(table[u[1]], side, price)}
BY LimitOrdersAssumption
   DEF ShareUnits, OrdersAt, Live, SharesIn, RestsAt, Table, Order, Shares

(* Levels are finite.                                                      *)
LEMMA LevelsFinite ==
  ASSUME NEW table \in Table, NEW side, NEW price
  PROVE  /\ IsFiniteSet(OrdersAt(table, side, price))
         /\ IsFiniteSet(ShareUnits(table, side, price))
         /\ Cardinality(OrdersAt(table, side, price)) \in Nat
         /\ Cardinality(ShareUnits(table, side, price)) \in Nat
<1>1. IsFiniteSet(Refs \X (1 .. SHARES_MAX))
  <2>1. IsFiniteSet(1 .. SHARES_MAX)
    BY LimitOrdersAssumption, FS_Interval
  <2> QED
    BY <2>1, LimitOrdersAssumption, FS_Product
<1>2. ShareUnits(table, side, price) \in SUBSET (Refs \X (1 .. SHARES_MAX))
  BY UnitsByEntry
<1>3. OrdersAt(table, side, price) \in SUBSET Refs
  BY DEF OrdersAt
<1>4. /\ IsFiniteSet(ShareUnits(table, side, price))
      /\ IsFiniteSet(OrdersAt(table, side, price))
  BY <1>1, <1>2, <1>3, FS_Subset, LimitOrdersAssumption
<1> QED
  BY <1>4, FS_CardinalityType

(* The units of one entry are as many as its shares.                       *)
LEMMA UnitsOfEntry ==
  ASSUME NEW ref, NEW n \in Nat
  PROVE  /\ IsFiniteSet({ref} \X (1 .. n))
         /\ Cardinality({ref} \X (1 .. n)) = n
<1>1. IsFiniteSet({ref}) /\ Cardinality({ref}) = 1
  BY FS_Singleton
<1>2. IsFiniteSet(1 .. n) /\ Cardinality(1 .. n) = n
  BY FS_Interval
<1>3. /\ IsFiniteSet({ref} \X (1 .. n))
      /\ Cardinality({ref} \X (1 .. n)) = Cardinality({ref}) * Cardinality(1 .. n)
  BY <1>1, <1>2, FS_Product
<1> QED
  BY <1>1, <1>2, <1>3

(* The share units of a price are those of one entry and those of the      *)
(* other entries, which a rewrite of that entry does not touch.            *)
OtherUnits(table, ref, side, price) ==
  {u \in (Refs \ {ref}) \X (1 .. SHARES_MAX) :
     u[2] <= SharesIn(table[u[1]], side, price)}

LEMMA UnitsSplit ==
  ASSUME NEW table \in Table, NEW ref \in Refs, NEW side, NEW price
  PROVE  /\ Cardinality(OtherUnits(table, ref, side, price)) \in Nat
         /\ Cardinality(ShareUnits(table, side, price)) =
              Cardinality(OtherUnits(table, ref, side, price))
              + SharesIn(table[ref], side, price)
<1> DEFINE n == SharesIn(table[ref], side, price)
           own == {ref} \X (1 .. n)
           others == OtherUnits(table, ref, side, price)
<1>1. n \in 0 .. SHARES_MAX
  BY SharesInType DEF Table
<1>2. ShareUnits(table, side, price) = others \cup own
  <2> HIDE DEF n
  <2>1. \A u \in own : u[1] = ref /\ u[2] \in 1 .. n
    OBVIOUS
  <2>2. ShareUnits(table, side, price) =
          {u \in Refs \X (1 .. SHARES_MAX) :
              u[2] <= SharesIn(table[u[1]], side, price)}
    BY UnitsByEntry
  <2>3. own = {u \in Refs \X (1 .. SHARES_MAX) :
                 u[1] = ref /\ u[2] <= SharesIn(table[u[1]], side, price)}
    BY <1>1, LimitOrdersAssumption DEF n
  <2> QED
    BY <2>2, <2>3 DEF OtherUnits
<1>3. others \cap own = {}
  BY DEF OtherUnits
<1>4. IsFiniteSet(others)
  <2>1. others \in SUBSET ShareUnits(table, side, price)
    BY <1>2
  <2> QED
    BY <2>1, LevelsFinite, FS_Subset
<1>5. IsFiniteSet(own) /\ Cardinality(own) = n
  <2> HIDE DEF n
  <2>1. n \in Nat
    BY <1>1, LimitOrdersAssumption
  <2> QED
    BY <2>1, UnitsOfEntry
<1>6. Cardinality(others \cup own) =
        Cardinality(others) + Cardinality(own) - Cardinality(others \cap own)
  BY <1>4, <1>5, FS_Union
<1>7. Cardinality(others) \in Nat
  BY <1>4, FS_CardinalityType
<1> QED
  BY <1>1, <1>2, <1>3, <1>5, <1>6, <1>7, FS_EmptySet

(* Rewriting one entry moves the shares of a price by the difference of    *)
(* what the entry contributed before and contributes after.                *)
LEMMA SharesAfterWrite ==
  ASSUME NEW table \in Table, NEW ref \in Refs, NEW side, NEW price,
         NEW entry \in Order \cup {NoOrder}
  PROVE  Cardinality(ShareUnits([table EXCEPT ![ref] = entry], side, price)) =
           Cardinality(ShareUnits(table, side, price))
           - SharesIn(table[ref], side, price) + SharesIn(entry, side, price)
<1> DEFINE next == [table EXCEPT ![ref] = entry]
<1>1. next \in Table /\ next[ref] = entry
  BY DEF Table
<1>2. OtherUnits(next, ref, side, price) = OtherUnits(table, ref, side, price)
  BY DEF OtherUnits, Table
<1>3. /\ SharesIn(table[ref], side, price) \in 0 .. SHARES_MAX
      /\ SharesIn(entry, side, price) \in 0 .. SHARES_MAX
  BY SharesInType DEF Table
<1>4. Cardinality(ShareUnits(table, side, price)) =
        Cardinality(OtherUnits(table, ref, side, price))
        + SharesIn(table[ref], side, price)
  BY UnitsSplit
<1>5. Cardinality(ShareUnits(next, side, price)) =
        Cardinality(OtherUnits(next, ref, side, price))
        + SharesIn(entry, side, price)
  <2> HIDE DEF next
  <2>1. Cardinality(ShareUnits(next, side, price)) =
          Cardinality(OtherUnits(next, ref, side, price))
          + SharesIn(next[ref], side, price)
    BY <1>1, UnitsSplit
  <2> QED
    BY <2>1, <1>1
<1>6. Cardinality(OtherUnits(table, ref, side, price)) \in Nat
  BY UnitsSplit
<1> QED
  BY <1>2, <1>3, <1>4, <1>5, <1>6, LimitOrdersAssumption

(* The same for the number of orders at the price.                         *)
LEMMA CountAfterWrite ==
  ASSUME NEW table \in Table, NEW ref \in Refs, NEW side, NEW price,
         NEW entry \in Order \cup {NoOrder}
  PROVE  Cardinality(OrdersAt([table EXCEPT ![ref] = entry], side, price)) =
           Cardinality(OrdersAt(table, side, price))
           - OrdersIn(table[ref], side, price) + OrdersIn(entry, side, price)
<1> DEFINE next == [table EXCEPT ![ref] = entry]
           old == OrdersAt(table, side, price)
           new == OrdersAt(next, side, price)
<1>1. IsFiniteSet(old) /\ Cardinality(old) \in Nat
  BY LevelsFinite
<1>2. ref \in old <=> RestsAt(table[ref], side, price)
  BY DEF OrdersAt, RestsAt, Live
<1>3. new = IF RestsAt(entry, side, price) THEN old \cup {ref} ELSE old \ {ref}
  BY DEF OrdersAt, RestsAt, Live, Table
<1>4. /\ Cardinality(old \cup {ref}) =
           IF ref \in old THEN Cardinality(old) ELSE Cardinality(old) + 1
      /\ Cardinality(old \ {ref}) =
           IF ref \in old THEN Cardinality(old) - 1 ELSE Cardinality(old)
  BY <1>1, FS_AddElement, FS_RemoveElement
<1> QED
  BY <1>1, <1>2, <1>3, <1>4 DEF OrdersIn

(* A price without orders has no shares.                                   *)
LEMMA NoOrdersNoShares ==
  ASSUME NEW table \in Table, NEW side, NEW price
  PROVE  /\ OrdersAt(table, side, price) = {}
              <=> Cardinality(OrdersAt(table, side, price)) = 0
         /\ OrdersAt(table, side, price) = {}
              => Cardinality(ShareUnits(table, side, price)) = 0
<1>1. OrdersAt(table, side, price) = {} => ShareUnits(table, side, price) = {}
  BY DEF ShareUnits
<1> QED
  BY <1>1, LevelsFinite, FS_EmptySet
-----------------------------------------------------------------------------
(* A family of sets of prices that is not empty has a minimal member.      *)
LEMMA MinimalPriceSet ==
  ASSUME NEW W \in SUBSET SUBSET (0 .. PRICE_MAX), W # {}
  PROVE  \E x \in W : \A y \in W : ~(y \subseteq x /\ y # x)
<1> DEFINE G == 0 .. PRICE_MAX
<1>1. IsFiniteSet(G)
  BY LimitOrdersAssumption, FS_Interval
<1> HIDE DEF G
<1>2. IsWellFoundedOn(StrictSubsetOrdering(G), SUBSET G)
  BY <1>1, FS_FiniteSubsetsOfFinite, FS_StrictSubsetOrderingWellFounded
<1>3. W \subseteq SUBSET G
  BY DEF G
<1>4. PICK x \in W : \A y \in W : ~(<<y, x>> \in StrictSubsetOrdering(G))
  BY <1>2, <1>3, WFMin
<1>5. ASSUME NEW y \in W PROVE ~(y \subseteq x /\ y # x)
  BY <1>3, <1>4 DEF StrictSubsetOrdering
<1> QED
  BY <1>5

(* The best of some occupied prices is one of them.                        *)
LEMMA BestIsOccupied ==
  ASSUME NEW prices, prices \subseteq Prices, prices # {}, NEW side
  PROVE  Best(side, prices) \in prices
<1>1. \E p \in prices : \A q \in prices : p <= q
  <2> DEFINE below == {0 .. p : p \in prices}
  <2>1. /\ below \in SUBSET SUBSET (0 .. PRICE_MAX)
        /\ below # {}
    <3>1. PICK p \in prices : TRUE
      OBVIOUS
    <3>2. 0 .. p \in below
      OBVIOUS
    <3>3. ASSUME NEW q \in prices PROVE 0 .. q \in SUBSET (0 .. PRICE_MAX)
      BY LimitOrdersAssumption
    <3> QED
      BY <3>2, <3>3
  <2>2. PICK x \in below : \A y \in below : ~(y \subseteq x /\ y # x)
    <3> HIDE DEF below
    <3>1. \E x \in below : \A y \in below : ~(y \subseteq x /\ y # x)
      BY <2>1, MinimalPriceSet
    <3> QED
      BY <3>1, Zenon
  <2>3. PICK p \in prices : x = 0 .. p
    OBVIOUS
  <2>4. ASSUME NEW q \in prices, q < p PROVE FALSE
    <3>1. p \in Nat /\ q \in Nat
      BY LimitOrdersAssumption
    <3>2. 0 .. q \subseteq 0 .. p /\ 0 .. q # 0 .. p
      BY <2>4, <3>1
    <3> QED
      BY <2>2, <2>3, <3>2
  <2> QED
    BY <2>4, LimitOrdersAssumption
<1>2. \E p \in prices : \A q \in prices : q <= p
  <2> DEFINE above == {p .. PRICE_MAX : p \in prices}
  <2>1. /\ above \in SUBSET SUBSET (0 .. PRICE_MAX)
        /\ above # {}
    <3>1. PICK p \in prices : TRUE
      OBVIOUS
    <3>2. p .. PRICE_MAX \in above
      OBVIOUS
    <3>3. ASSUME NEW q \in prices PROVE q .. PRICE_MAX \in SUBSET (0 .. PRICE_MAX)
      BY LimitOrdersAssumption
    <3> QED
      BY <3>2, <3>3
  <2>2. PICK x \in above : \A y \in above : ~(y \subseteq x /\ y # x)
    <3> HIDE DEF above
    <3>1. \E x \in above : \A y \in above : ~(y \subseteq x /\ y # x)
      BY <2>1, MinimalPriceSet
    <3> QED
      BY <3>1, Zenon
  <2>3. PICK p \in prices : x = p .. PRICE_MAX
    OBVIOUS
  <2>4. ASSUME NEW q \in prices, p < q PROVE FALSE
    <3>1. p \in 0 .. PRICE_MAX /\ q \in 0 .. PRICE_MAX
      BY LimitOrdersAssumption
    <3>2. q .. PRICE_MAX \subseteq p .. PRICE_MAX /\ q .. PRICE_MAX # p .. PRICE_MAX
      BY <2>4, <3>1, LimitOrdersAssumption
    <3> QED
      BY <2>2, <2>3, <3>2
  <2> QED
    BY <2>4, LimitOrdersAssumption
<1> QED
  BY <1>1, <1>2 DEF Best

-----------------------------------------------------------------------------

(* LevelsMatchOrders is inductive once the types are known: each event is  *)
(* at most two rewrites of the order table, and each rewrite is mirrored   *)
(* by one level update.                                                    *)
IInv == TypeOK /\ LevelsMatchOrders

(* The levels aggregate a table.                                           *)
Aggregates(lv, table) ==
  \A side \in Sides, price \in Prices :
    lv[side][price] = LevelOf(table, side, price)

LevelTable == [Sides -> [Prices -> Level \cup {NoLevel}]]

-----------------------------------------------------------------------------
(* The level of the price an order rests at, in numbers.                   *)
LEMMA LiveLevel ==
  ASSUME NEW table \in Table, NEW ref \in Refs, Live(table, ref)
  PROVE  LET record == table[ref]
             n == Cardinality(OrdersAt(table, record.side, record.price))
             k == Cardinality(ShareUnits(table, record.side, record.price))
         IN  /\ record \in Order
             /\ n \in Nat \ {0} /\ k \in Nat
             /\ LevelOf(table, record.side, record.price) =
                  [shares |-> k, order_count |-> n]
             /\ record.shares <= k
             /\ n = 1 => k = record.shares
<1> DEFINE record == table[ref]
           rest == [table EXCEPT ![ref] = NoOrder]
           n == Cardinality(OrdersAt(table, record.side, record.price))
           k == Cardinality(ShareUnits(table, record.side, record.price))
           n0 == Cardinality(OrdersAt(rest, record.side, record.price))
           k0 == Cardinality(ShareUnits(rest, record.side, record.price))
<1>1. record \in Order
  BY DEF Table, Live
<1>2. rest \in Table
  BY DEF Table
<1>3. /\ SharesIn(record, record.side, record.price) = record.shares
      /\ SharesIn(NoOrder, record.side, record.price) = 0
      /\ OrdersIn(record, record.side, record.price) = 1
      /\ OrdersIn(NoOrder, record.side, record.price) = 0
  BY DEF SharesIn, OrdersIn, RestsAt, Live
<1>4. record.shares \in Nat
  BY <1>1, LimitOrdersAssumption DEF Order, Shares
<1>5. n \in Nat /\ k \in Nat
  BY LevelsFinite
<1>6. n0 \in Nat /\ k0 \in Nat
  <2> HIDE DEF rest
  <2> QED
    BY <1>2, LevelsFinite
<1>7. k0 = k - record.shares + 0
  BY <1>3, SharesAfterWrite
<1>8. n0 = n - 1 + 0
  BY <1>3, CountAfterWrite
<1>9. n0 = 0 => k0 = 0
  <2> HIDE DEF rest
  <2> QED
    BY <1>2, NoOrdersNoShares
<1>10. OrdersAt(table, record.side, record.price) # {}
  BY DEF OrdersAt
<1> HIDE DEF n, k, n0, k0, rest, record
<1>11. LevelOf(table, record.side, record.price) = [shares |-> k, order_count |-> n]
  BY <1>10 DEF LevelOf, n, k, record
<1>12. n # 0 /\ record.shares <= k /\ (n = 1 => k = record.shares)
  <2> DEFINE c == record.shares
  <2>1. c \in Nat /\ k0 = k - c + 0
    BY <1>4, <1>7
  <2> HIDE DEF c
  <2>2. n # 0 /\ c <= k /\ (n = 1 => k = c)
    BY <1>5, <1>6, <1>8, <1>9, <2>1
  <2> QED
    BY <2>2 DEF c
<1> QED
  BY <1>1, <1>5, <1>11, <1>12 DEF n, k, record

(* The checks of _decrease_level hold for every live order, removed whole  *)
(* or reduced in part.                                                     *)
LEMMA LiveDecreases ==
  ASSUME NEW table \in Table, NEW lv, Aggregates(lv, table),
         NEW ref \in Refs, Live(table, ref)
  PROVE  LET record == table[ref] IN
         /\ CanDecrease(lv, record.side, record.price, record.shares, 1)
         /\ \A shares \in Shares : shares < record.shares =>
              CanDecrease(lv, record.side, record.price, shares, 0)
<1> DEFINE record == table[ref]
           n == Cardinality(OrdersAt(table, record.side, record.price))
           k == Cardinality(ShareUnits(table, record.side, record.price))
           old == lv[record.side][record.price]
<1>1. /\ record \in Order
      /\ n \in Nat \ {0} /\ k \in Nat
      /\ LevelOf(table, record.side, record.price) =
           [shares |-> k, order_count |-> n]
      /\ record.shares <= k
      /\ n = 1 => k = record.shares
  BY LiveLevel
<1>2. old = [shares |-> k, order_count |-> n]
  BY <1>1 DEF Aggregates, Order
<1>3. record.shares \in Nat /\ Shares \subseteq Nat
  BY <1>1, LimitOrdersAssumption DEF Order, Shares
<1> HIDE DEF n, k
<1>4. old # NoLevel /\ old.shares = k /\ old.order_count = n
  BY <1>1, <1>2, LimitOrdersAssumption
<1> QED
  BY <1>1, <1>3, <1>4 DEF CanDecrease

(* Adding an order that was not live increases its level, and no other.    *)
LEMMA LevelAfterAdd ==
  ASSUME NEW table \in Table, NEW ref \in Refs, ~Live(table, ref),
         NEW entry \in Order, NEW side, NEW price
  PROVE  LevelOf([table EXCEPT ![ref] = entry], side, price) =
           IF RestsAt(entry, side, price)
           THEN LevelAfterIncrease(LevelOf(table, side, price), entry.shares)
           ELSE LevelOf(table, side, price)
<1> DEFINE next == [table EXCEPT ![ref] = entry]
           n == Cardinality(OrdersAt(table, side, price))
           k == Cardinality(ShareUnits(table, side, price))
           n1 == Cardinality(OrdersAt(next, side, price))
           k1 == Cardinality(ShareUnits(next, side, price))
<1>1. next \in Table /\ entry # NoOrder
  BY LimitOrdersAssumption DEF Table
<1>2. SharesIn(table[ref], side, price) = 0 /\ OrdersIn(table[ref], side, price) = 0
  BY DEF SharesIn, OrdersIn, RestsAt, Live
<1>3. n \in Nat /\ k \in Nat
  BY LevelsFinite
<1>4. /\ k1 = k - 0 + SharesIn(entry, side, price)
      /\ n1 = n - 0 + OrdersIn(entry, side, price)
  BY <1>2, SharesAfterWrite, CountAfterWrite
<1>5. /\ OrdersAt(table, side, price) = {} <=> n = 0
      /\ n = 0 => k = 0
  BY NoOrdersNoShares
<1>6. OrdersAt(next, side, price) = {} <=> n1 = 0
  <2> HIDE DEF next
  <2> QED
    BY <1>1, NoOrdersNoShares
<1>7. entry.shares \in Nat
  BY LimitOrdersAssumption DEF Order, Shares
<1>8. LevelOf(table, side, price) =
        IF n = 0 THEN NoLevel ELSE [shares |-> k, order_count |-> n]
  BY <1>5 DEF LevelOf
<1>9. LevelOf(next, side, price) =
        IF n1 = 0 THEN NoLevel ELSE [shares |-> k1, order_count |-> n1]
  BY <1>6 DEF LevelOf
<1>10. /\ SharesIn(entry, side, price) =
            IF RestsAt(entry, side, price) THEN entry.shares ELSE 0
       /\ OrdersIn(entry, side, price) =
            IF RestsAt(entry, side, price) THEN 1 ELSE 0
  BY DEF SharesIn, OrdersIn
<1> HIDE DEF next, n, k, n1, k1
<1>11. CASE RestsAt(entry, side, price)
  <2>1. n1 = n + 1 /\ k1 = k + entry.shares /\ n1 # 0
    BY <1>11, <1>3, <1>4, <1>7, <1>10
  <2>2. CASE n = 0
    BY <2>1, <2>2, <1>5, <1>7, <1>8, <1>9, <1>11, LimitOrdersAssumption
       DEF LevelAfterIncrease, next
  <2>3. CASE n # 0
    <3>1. [shares |-> k, order_count |-> n] # NoLevel
      BY <1>3, LimitOrdersAssumption
    <3> QED
      BY <3>1, <2>1, <2>3, <1>8, <1>9, <1>11 DEF LevelAfterIncrease, next
  <2> QED
    BY <2>2, <2>3
<1>12. CASE ~RestsAt(entry, side, price)
  <2>1. n1 = n /\ k1 = k
    BY <1>12, <1>3, <1>4, <1>10
  <2> QED
    BY <2>1, <1>8, <1>9, <1>12 DEF next
<1> QED
  BY <1>11, <1>12

(* Removing a live order whole decreases its level by all it had and by    *)
(* one order; taking part of its shares decreases the shares only.         *)
LEMMA LevelAfterTake ==
  ASSUME NEW table \in Table, NEW ref \in Refs, Live(table, ref),
         NEW shares \in Nat, NEW count \in {0, 1}, NEW entry,
         \/ /\ entry = NoOrder
            /\ count = 1 /\ shares = table[ref].shares
         \/ /\ entry = [side |-> table[ref].side, price |-> table[ref].price,
                         shares |-> table[ref].shares - shares]
            /\ count = 0 /\ shares < table[ref].shares,
         NEW side, NEW price
  PROVE  LevelOf([table EXCEPT ![ref] = entry], side, price) =
           IF RestsAt(table[ref], side, price)
           THEN LevelAfterDecrease(LevelOf(table, side, price), shares, count)
           ELSE LevelOf(table, side, price)
<1> DEFINE record == table[ref]
           next == [table EXCEPT ![ref] = entry]
           n == Cardinality(OrdersAt(table, side, price))
           k == Cardinality(ShareUnits(table, side, price))
           n1 == Cardinality(OrdersAt(next, side, price))
           k1 == Cardinality(ShareUnits(next, side, price))
<1>1. record \in Order /\ record.shares \in Nat
  BY LimitOrdersAssumption DEF Table, Live, Order, Shares
<1>2. entry \in Order \cup {NoOrder}
  BY <1>1, LimitOrdersAssumption DEF Order, Shares
<1>3. next \in Table
  BY <1>2 DEF Table
<1>4. n \in Nat /\ k \in Nat
  BY LevelsFinite
<1>5. n1 \in Nat /\ k1 \in Nat
  <2> HIDE DEF next
  <2> QED
    BY <1>3, LevelsFinite
<1>6. /\ k1 = k - SharesIn(record, side, price) + SharesIn(entry, side, price)
      /\ n1 = n - OrdersIn(record, side, price) + OrdersIn(entry, side, price)
  BY <1>2, SharesAfterWrite, CountAfterWrite
<1>7. OrdersAt(table, side, price) = {} <=> n = 0
  BY NoOrdersNoShares
<1>8. OrdersAt(next, side, price) = {} <=> n1 = 0
  <2> HIDE DEF next
  <2> QED
    BY <1>3, NoOrdersNoShares
<1>9. LevelOf(table, side, price) =
        IF n = 0 THEN NoLevel ELSE [shares |-> k, order_count |-> n]
  BY <1>7 DEF LevelOf
<1>10. LevelOf(next, side, price) =
         IF n1 = 0 THEN NoLevel ELSE [shares |-> k1, order_count |-> n1]
  BY <1>8 DEF LevelOf
<1>11. CASE RestsAt(record, side, price)
  <2>1. SharesIn(record, side, price) = record.shares
        /\ OrdersIn(record, side, price) = 1
    BY <1>11 DEF SharesIn, OrdersIn
  <2>2. /\ SharesIn(entry, side, price) = record.shares - shares
        /\ OrdersIn(entry, side, price) = 1 - count
    <3>1. CASE entry = NoOrder /\ count = 1 /\ shares = record.shares
      <4>1. ~RestsAt(entry, side, price)
        BY <3>1 DEF RestsAt
      <4> QED
        BY <3>1, <4>1, <1>1 DEF SharesIn, OrdersIn
    <3>2. CASE /\ entry = [side |-> record.side, price |-> record.price,
                            shares |-> record.shares - shares]
               /\ count = 0 /\ shares < record.shares
      <4>1. entry \in Order
        BY <3>2, <1>1, LimitOrdersAssumption DEF Order, Shares
      <4>2. RestsAt(entry, side, price)
        BY <3>2, <4>1, <1>11, LimitOrdersAssumption DEF RestsAt
      <4> QED
        BY <3>2, <4>2 DEF SharesIn, OrdersIn
    <3> QED
      BY <3>1, <3>2
  <2> HIDE DEF next, n, k, n1, k1
  <2>3. k1 = k - shares /\ n1 = n - count
    BY <1>1, <1>4, <1>5, <1>6, <2>1, <2>2
  <2>4. n # 0
    BY <1>1, <1>7, <1>11 DEF OrdersAt, RestsAt, Live
  <2>5. n1 = 0 <=> n = count
    BY <1>4, <2>3
  <2>6. LevelAfterDecrease(LevelOf(table, side, price), shares, count) =
          IF n = count THEN NoLevel
          ELSE [shares |-> k - shares, order_count |-> n - count]
    BY <1>9, <2>4 DEF LevelAfterDecrease
  <2> QED
    BY <1>10, <1>11, <2>3, <2>5, <2>6 DEF next
<1>12. CASE ~RestsAt(record, side, price)
  <2>1. ~RestsAt(entry, side, price)
    BY <1>1, <1>12 DEF RestsAt, Live, Order
  <2>2. /\ SharesIn(record, side, price) = 0 /\ OrdersIn(record, side, price) = 0
        /\ SharesIn(entry, side, price) = 0 /\ OrdersIn(entry, side, price) = 0
    BY <2>1, <1>12 DEF SharesIn, OrdersIn
  <2>3. k1 = k /\ n1 = n
    BY <1>4, <1>6, <2>2
  <2> QED
    BY <1>9, <1>10, <1>12, <2>3
<1> QED
  BY <1>11, <1>12
-----------------------------------------------------------------------------
(* The level updates preserve the types, whatever the table holds.         *)
LEMMA IncreaseTypes ==
  ASSUME NEW lv \in LevelTable, NEW side \in Sides, NEW price \in Prices,
         NEW shares \in Shares, CanIncrease(lv, side, price, shares)
  PROVE  IncreaseLevel(lv, side, price, shares) \in LevelTable
<1> DEFINE old == lv[side][price]
<1>1. old \in Level \cup {NoLevel}
  BY DEF LevelTable
<1>2. LevelAfterIncrease(old, shares) \in Level
  BY <1>1, LimitOrdersAssumption DEF CanIncrease, LevelAfterIncrease, Level, Shares
<1> QED
  BY <1>2 DEF IncreaseLevel, LevelTable

LEMMA DecreaseTypes ==
  ASSUME NEW lv \in LevelTable, NEW side \in Sides, NEW price \in Prices,
         NEW shares \in Shares, NEW count \in {0, 1},
         CanDecrease(lv, side, price, shares, count)
  PROVE  DecreaseLevel(lv, side, price, shares, count) \in LevelTable
<1> DEFINE old == lv[side][price]
<1>1. old \in Level
  BY DEF LevelTable, CanDecrease
<1>2. LevelAfterDecrease(old, shares, count) \in Level \cup {NoLevel}
  BY <1>1, LimitOrdersAssumption DEF CanDecrease, LevelAfterDecrease, Level, Shares
<1> QED
  BY <1>2 DEF DecreaseLevel, LevelTable

(* Each level update mirrors its rewrite of the table.                     *)
LEMMA AddKeeps ==
  ASSUME NEW table \in Table, NEW lv \in LevelTable, Aggregates(lv, table),
         NEW ref \in Refs, ~Live(table, ref),
         NEW side \in Sides, NEW price \in Prices, NEW shares \in Shares
  PROVE  Aggregates(IncreaseLevel(lv, side, price, shares),
                    [table EXCEPT ![ref] =
                       [side |-> side, price |-> price, shares |-> shares]])
<1> DEFINE entry == [side |-> side, price |-> price, shares |-> shares]
           next == [table EXCEPT ![ref] = entry]
<1>1. entry \in Order /\ entry # NoOrder
  BY LimitOrdersAssumption DEF Order
<1> SUFFICES ASSUME NEW s \in Sides, NEW p \in Prices
             PROVE  IncreaseLevel(lv, side, price, shares)[s][p] = LevelOf(next, s, p)
  BY DEF Aggregates
<1>2. LevelOf(next, s, p) =
        IF RestsAt(entry, s, p)
        THEN LevelAfterIncrease(LevelOf(table, s, p), shares)
        ELSE LevelOf(table, s, p)
  <2>1. entry.shares = shares
    OBVIOUS
  <2> HIDE DEF entry
  <2> QED
    BY <1>1, <2>1, LevelAfterAdd
<1>3. RestsAt(entry, s, p) <=> s = side /\ p = price
  BY <1>1 DEF RestsAt
<1>4. lv[s][p] = LevelOf(table, s, p)
  BY DEF Aggregates
<1>5. IncreaseLevel(lv, side, price, shares)[s][p] =
        IF s = side /\ p = price THEN LevelAfterIncrease(lv[s][p], shares)
        ELSE lv[s][p]
  BY DEF IncreaseLevel, LevelTable
<1> HIDE DEF next, entry
<1> QED
  BY <1>2, <1>3, <1>4, <1>5

LEMMA TakeKeeps ==
  ASSUME NEW table \in Table, NEW lv \in LevelTable, Aggregates(lv, table),
         NEW ref \in Refs, Live(table, ref),
         NEW shares \in Nat, NEW count \in {0, 1}, NEW entry,
         \/ /\ entry = NoOrder
            /\ count = 1 /\ shares = table[ref].shares
         \/ /\ entry = [side |-> table[ref].side, price |-> table[ref].price,
                         shares |-> table[ref].shares - shares]
            /\ count = 0 /\ shares < table[ref].shares
  PROVE  Aggregates(DecreaseLevel(lv, table[ref].side, table[ref].price, shares, count),
                    [table EXCEPT ![ref] = entry])
<1> DEFINE record == table[ref]
           next == [table EXCEPT ![ref] = entry]
           dec == DecreaseLevel(lv, record.side, record.price, shares, count)
<1>1. record \in Order
  BY DEF Table, Live
<1> SUFFICES ASSUME NEW s \in Sides, NEW p \in Prices
             PROVE  dec[s][p] = LevelOf(next, s, p)
  BY DEF Aggregates
<1>2. LevelOf(next, s, p) =
        IF RestsAt(record, s, p)
        THEN LevelAfterDecrease(LevelOf(table, s, p), shares, count)
        ELSE LevelOf(table, s, p)
  BY LevelAfterTake
<1>3. RestsAt(record, s, p) <=> s = record.side /\ p = record.price
  BY DEF RestsAt, Live
<1>4. lv[s][p] = LevelOf(table, s, p)
  BY DEF Aggregates
<1>5. dec[s][p] =
        IF s = record.side /\ p = record.price
        THEN LevelAfterDecrease(lv[s][p], shares, count)
        ELSE lv[s][p]
  BY <1>1 DEF DecreaseLevel, LevelTable, Order
<1> HIDE DEF next, dec, record
<1> QED
  BY <1>2, <1>3, <1>4, <1>5

-----------------------------------------------------------------------------
(* Writing an order into a table that does not hold it preserves the       *)
(* invariant; when the level overflows, overflowed records it.             *)
LEMMA AddPreserves ==
  ASSUME NEW table \in Table, NEW lv \in LevelTable,
         overflowed \in BOOLEAN, ~overflowed => Aggregates(lv, table),
         NEW ref \in Refs, ~Live(table, ref),
         NEW side \in Sides, NEW price \in Prices, NEW shares \in Shares,
         AddOrder(table, lv, ref, side, price, shares)
  PROVE  IInv'
<1>1. order_table' \in Table
  BY DEF AddOrder, Table, Order
<1>2. CASE CanIncrease(lv, side, price, shares)
  <2>1. levels' = IncreaseLevel(lv, side, price, shares) /\ ~raised'
        /\ overflowed' = overflowed
    BY <1>2 DEF AddOrder
  <2>2. levels' \in LevelTable
    BY <1>2, <2>1, IncreaseTypes
  <2>3. ~overflowed' => Aggregates(levels', order_table')
    BY <2>1, AddKeeps DEF AddOrder
  <2>4. raised' = FALSE
    BY <1>2 DEF AddOrder
  <2> QED
    BY <1>1, <2>1, <2>2, <2>3, <2>4
       DEF IInv, TypeOK, LevelsMatchOrders, BookInvariants, Aggregates, Table, LevelTable
<1>3. CASE ~CanIncrease(lv, side, price, shares)
  BY <1>1, <1>3 DEF AddOrder, IInv, TypeOK, LevelsMatchOrders, Table, LevelTable
<1> QED
  BY <1>2, <1>3

(* Taking shares from a live order preserves the invariant.                *)
LEMMA TakePreserves ==
  ASSUME IInv, NEW ref \in Refs, Live(order_table, ref),
         NEW shares \in Shares, NEW count \in {0, 1}, NEW entry,
         CanDecrease(levels, order_table[ref].side, order_table[ref].price, shares, count),
         \/ /\ entry = NoOrder
            /\ count = 1 /\ shares = order_table[ref].shares
         \/ /\ entry = [side |-> order_table[ref].side,
                        price |-> order_table[ref].price,
                        shares |-> order_table[ref].shares - shares]
            /\ count = 0 /\ shares < order_table[ref].shares
  PROVE  LET table == [order_table EXCEPT ![ref] = entry]
             lv == DecreaseLevel(levels, order_table[ref].side,
                                 order_table[ref].price, shares, count)
         IN  /\ table \in Table
             /\ lv \in LevelTable
             /\ ~overflowed => Aggregates(lv, table)
<1>1. order_table \in Table /\ levels \in LevelTable
  BY DEF IInv, TypeOK, Table, LevelTable
<1>2. order_table[ref] \in Order
  BY <1>1 DEF Table, Live
<1>3. entry \in Order \cup {NoOrder}
  BY <1>2, LimitOrdersAssumption DEF Order, Shares
<1>4. shares \in Nat
  BY LimitOrdersAssumption DEF Shares
<1>5. [order_table EXCEPT ![ref] = entry] \in Table
  BY <1>1, <1>3 DEF Table
<1>6. DecreaseLevel(levels, order_table[ref].side, order_table[ref].price,
                    shares, count) \in LevelTable
  BY <1>1, <1>2, DecreaseTypes DEF Order
<1>7. ~overflowed => Aggregates(levels, order_table)
  BY DEF IInv, LevelsMatchOrders, BookInvariants, Aggregates
<1> QED
  BY <1>1, <1>4, <1>5, <1>6, <1>7, TakeKeeps

(* A price has a level exactly when some order rests there.                *)
LEMMA OccupiedHasLevel ==
  ASSUME NEW table \in Table, NEW side, NEW price
  PROVE  LevelOf(table, side, price) # NoLevel <=> OrdersAt(table, side, price) # {}
<1>1. /\ Cardinality(OrdersAt(table, side, price)) \in Nat
      /\ Cardinality(ShareUnits(table, side, price)) \in Nat
  BY LevelsFinite
<1> QED
  BY <1>1, LimitOrdersAssumption DEF LevelOf

LEMMA RaisePreserves ==
  ASSUME IInv, Raise
  PROVE  IInv'
BY DEF IInv, Raise, TypeOK, LevelsMatchOrders, BookInvariants
-----------------------------------------------------------------------------
(* Initially the book is empty and every level is absent.                  *)
LEMMA InitIInv == Init => IInv
<1> SUFFICES ASSUME Init PROVE IInv
  OBVIOUS
<1>1. TypeOK
  BY DEF Init, TypeOK
<1>2. \A side \in Sides, price \in Prices : OrdersAt(order_table, side, price) = {}
  BY DEF Init, OrdersAt, Live
<1> QED
  BY <1>1, <1>2 DEF IInv, Init, LevelsMatchOrders, BookInvariants, LevelOf

(* Every call of apply preserves the invariant, raised errors included.    *)
LEMMA NextIInv == IInv /\ [Next]_vars => IInv'
<1> SUFFICES ASSUME IInv, [Next]_vars
             PROVE  IInv'
  OBVIOUS
<1> DEFINE Whole(ref) == CanDecrease(levels, order_table[ref].side,
                            order_table[ref].price, order_table[ref].shares, 1)
<1>1. /\ order_table \in Table /\ levels \in LevelTable
      /\ overflowed \in BOOLEAN
      /\ ~overflowed => Aggregates(levels, order_table)
  BY DEF IInv, TypeOK, Table, LevelTable, LevelsMatchOrders, BookInvariants, Aggregates
<1>2. ASSUME NEW ref \in Refs, Live(order_table, ref)
      PROVE  /\ order_table[ref] \in Order
             /\ order_table[ref].side \in Sides
             /\ order_table[ref].price \in Prices
             /\ order_table[ref].shares \in Shares
  BY <1>1, <1>2 DEF Table, Live, Order
<1>3. ASSUME NEW ref \in Refs, NEW side \in Sides, NEW price \in Prices,
             NEW shares \in Quantities, ApplyAdd(ref, side, price, shares)
      PROVE  IInv'
  <2>1. CASE Raise
    BY <2>1, RaisePreserves
  <2>2. CASE ~Live(order_table, ref)
             /\ AddOrder(order_table, levels, ref, side, price, shares)
    BY <1>1, <2>2, AddPreserves, QuantitiesAssumption
  <2> QED
    BY <1>3, <2>1, <2>2 DEF ApplyAdd
<1>4. ASSUME NEW ref \in Refs, NEW shares \in Quantities, ReduceOrder(ref, shares)
      PROVE  IInv'
  <2> DEFINE record == order_table[ref]
             whole == record.shares = shares
             count == IF whole THEN 1 ELSE 0
             entry == IF whole THEN NoOrder ELSE [record EXCEPT !.shares = @ - shares]
  <2>1. CASE Raise
    BY <2>1, RaisePreserves
  <2>2. CASE ~Raise
    <3>1. /\ Live(order_table, ref) /\ shares <= record.shares
          /\ CanDecrease(levels, record.side, record.price, shares, count)
          /\ levels' = DecreaseLevel(levels, record.side, record.price, shares, count)
          /\ order_table' = [order_table EXCEPT ![ref] = entry]
          /\ raised' = FALSE
          /\ UNCHANGED overflowed
      BY <1>4, <2>2 DEF ReduceOrder
    <3>2. shares \in Shares /\ shares \in Nat /\ record \in Order /\ record.shares \in Nat
      BY <1>2, <3>1, QuantitiesAssumption, LimitOrdersAssumption DEF Shares
    <3>3. ~whole => /\ shares < record.shares
                    /\ entry = [side |-> record.side, price |-> record.price,
                                shares |-> record.shares - shares]
      BY <3>1, <3>2 DEF Order
    <3>4. /\ order_table' \in Table /\ levels' \in LevelTable
          /\ ~overflowed => Aggregates(levels', order_table')
      <4>1. CASE whole
        BY <3>1, <3>2, <4>1, TakePreserves
      <4>2. CASE ~whole
        BY <3>1, <3>2, <3>3, <4>2, TakePreserves
      <4> QED
        BY <4>1, <4>2
    <3> QED
      BY <1>1, <3>1, <3>4
         DEF IInv, TypeOK, LevelsMatchOrders, BookInvariants, Aggregates, Table, LevelTable
  <2> QED
    BY <2>1, <2>2
<1>5. ASSUME NEW ref \in Refs, Live(order_table, ref), Whole(ref)
      PROVE  LET record == order_table[ref]
                 table == [order_table EXCEPT ![ref] = NoOrder]
                 lv == DecreaseLevel(levels, record.side, record.price, record.shares, 1)
             IN  /\ table \in Table
                 /\ lv \in LevelTable
                 /\ ~overflowed => Aggregates(lv, table)
  BY <1>2, <1>5, TakePreserves
<1>6. ASSUME NEW ref \in Refs, ApplyDelete(ref)
      PROVE  IInv'
  <2>1. CASE Raise
    BY <2>1, RaisePreserves
  <2>2. CASE ~Raise
    <3>1. /\ Live(order_table, ref) /\ Whole(ref)
          /\ levels' = DecreaseLevel(levels, order_table[ref].side,
                         order_table[ref].price, order_table[ref].shares, 1)
          /\ order_table' = [order_table EXCEPT ![ref] = NoOrder]
          /\ raised' = FALSE
          /\ UNCHANGED overflowed
      BY <1>6, <2>2 DEF ApplyDelete
    <3> QED
      BY <1>1, <1>5, <3>1
         DEF IInv, TypeOK, LevelsMatchOrders, BookInvariants, Aggregates, Table, LevelTable
  <2> QED
    BY <2>1, <2>2
<1>7. ASSUME NEW ref \in Refs, NEW new_ref \in Refs, NEW price \in Prices,
             NEW shares \in Quantities, ApplyReplace(ref, new_ref, price, shares)
      PROVE  IInv'
  <2> DEFINE record == order_table[ref]
             rest == [order_table EXCEPT ![ref] = NoOrder]
             lv == DecreaseLevel(levels, record.side, record.price, record.shares, 1)
  <2>1. CASE Raise
    BY <2>1, RaisePreserves
  <2>2. CASE ~Raise
    <3>1. /\ Live(order_table, ref) /\ Whole(ref)
          /\ new_ref = ref \/ ~Live(order_table, new_ref)
          /\ AddOrder(rest, lv, new_ref, record.side, price, shares)
      BY <1>7, <2>2 DEF ApplyReplace
    <3>2. ~Live(rest, new_ref)
      BY <1>1, <3>1 DEF Live, Table
    <3>3. /\ rest \in Table /\ lv \in LevelTable
          /\ ~overflowed => Aggregates(lv, rest)
      BY <1>5, <3>1
    <3>4. record.side \in Sides /\ shares \in Shares
      BY <1>2, <3>1, QuantitiesAssumption
    <3> HIDE DEF rest, lv
    <3> QED
      BY <1>1, <3>1, <3>2, <3>3, <3>4, AddPreserves
  <2> QED
    BY <2>1, <2>2
<1>8. CASE ApplyForeignLocate
  BY <1>8, RaisePreserves DEF ApplyForeignLocate
<1>9. CASE UNCHANGED vars
  BY <1>9 DEF vars, IInv, TypeOK, LevelsMatchOrders, BookInvariants
<1> QED
  BY <1>3, <1>4, <1>6, <1>7, <1>8, <1>9 DEF Next

(* The inductive invariant of the golden book.                             *)
THEOREM Inductive == Spec => []IInv
BY InitIInv, NextIInv, PTL DEF Spec

(* Every reachable state of the book is well typed: no level leaves 32     *)
(* bits and no count goes negative.                                        *)
THEOREM TypeCorrect == Spec => []TypeOK
<1>1. IInv => TypeOK
  BY DEF IInv
<1> QED
  BY <1>1, Inductive, PTL

(* The incremental levels of order_book.py aggregate the order table.      *)
THEOREM LevelsAggregateOrders == Spec => []LevelsMatchOrders
<1>1. IInv => LevelsMatchOrders
  BY DEF IInv
<1> QED
  BY <1>1, Inductive, PTL

(* The levels are all bbo() looks at.                                      *)
LEMMA LevelsGiveTheTop == IInv => BboIsBest
<1> SUFFICES ASSUME TypeOK, BookInvariants
             PROVE  bbo = BboOf(order_table)
  BY DEF IInv, LevelsMatchOrders, BboIsBest
<1>1. ASSUME NEW side \in Sides, NEW price \in Prices
      PROVE  levels[side][price] # NoLevel
               <=> OrdersAt(order_table, side, price) # {}
  BY <1>1, OccupiedHasLevel DEF BookInvariants, TypeOK, Table
<1>2. ASSUME NEW side \in Sides
      PROVE  {price \in Prices : levels[side][price] # NoLevel}
               = OccupiedPrices(order_table, side)
  BY <1>1 DEF OccupiedPrices
<1>3. ASSUME NEW side \in Sides, OccupiedPrices(order_table, side) # {}
      PROVE  LET best == Best(side, OccupiedPrices(order_table, side))
             IN  levels[side][best] = LevelOf(order_table, side, best)
  <2>1. Best(side, OccupiedPrices(order_table, side)) \in Prices
    BY <1>3, BestIsOccupied DEF OccupiedPrices
  <2> QED
    BY <2>1 DEF BookInvariants
<1>4. ASSUME NEW side \in Sides
      PROVE  bbo[side] = TopOf(order_table, side)
  BY <1>2, <1>3 DEF bbo, TopOf
<1> QED
  BY <1>4 DEF bbo, BboOf

(* bbo() returns the best live price of each side with its total size.     *)
THEOREM BboIsCorrect == Spec => []BboIsBest
BY LevelsGiveTheTop, Inductive, PTL

(* The defensive errors of the level arithmetic are unreachable.           *)
THEOREM NoDecreaseFails == Spec => []DecreaseNeverFails
<1>1. IInv => DecreaseNeverFails
  <2> SUFFICES ASSUME TypeOK, BookInvariants
               PROVE  \A ref \in Refs : Live(order_table, ref) =>
                 LET record == order_table[ref] IN
                 /\ CanDecrease(levels, record.side, record.price, record.shares, 1)
                 /\ \A shares \in Shares : shares < record.shares =>
                      CanDecrease(levels, record.side, record.price, shares, 0)
    BY DEF IInv, LevelsMatchOrders, DecreaseNeverFails
  <2>1. order_table \in Table /\ Aggregates(levels, order_table)
    BY DEF TypeOK, Table, BookInvariants, Aggregates
  <2> QED
    BY <2>1, LiveDecreases
<1> QED
  BY <1>1, Inductive, PTL

(* An apply that raises leaves the book as it was, unless a level          *)
(* overflowed 32 bits.                                                     *)
THEOREM RaisingIsAtomic == Spec => RaiseMutatesNothing
<1>1. [Next]_vars => [raised' /\ ~overflowed' => UNCHANGED <<order_table, levels>>]_vars
  BY DEF Next, ApplyAdd, ReduceOrder, ApplyDelete, ApplyReplace,
         ApplyForeignLocate, AddOrder, Raise
<1> QED
  BY <1>1, PTL DEF Spec, RaiseMutatesNothing
=============================================================================
