--------------------------- MODULE Quoting_proofs ---------------------------
(* The strategies and the orders made for them, for every market, every     *)
(* size and every schedule.                                                 *)
EXTENDS Quoting, SequenceTheorems, WellFoundedInduction, TLAPS

Sides == {"buy", "sell"}
Names == Sides \cup {"flatten", "momo buy", "momo sell"}

TouchSet == [bid : Grid \cup {NoPrice}, ask : Grid \cup {NoPrice}, bidSize : Nat, askSize : Nat]

IntentSet == [quote : Names, ticker : {"M"}, contract : Sides, price : Int, count : Nat]

OrderSet == [quote : Names, ticker : {"M"}, contract : Sides, price : Int, rem : Nat,
             filled : Nat, at : Int, missed : [Sides -> Nat], left : Int]

OneEach(S) == \A x, y \in S : x.contract = y.contract => x = y

-----------------------------------------------------------------------------
(* Numbers and sets of numbers.                                            *)
LEMMA Numbers ==
  /\ OneDollar \in Nat \ {0} /\ Count \in Nat \ {0} /\ MaxPosition \in Nat /\ MinCount \in Nat \ {0}
  /\ \A p \in Grid : p \in Nat /\ p <= OneDollar
  /\ NoPrice \in Int /\ NoPrice \notin Grid /\ None \in Int
BY GridAssumption, FeeAssumption, MakersAssumption DEF Prices, NoPrice, None

LEMMA SignedIsInt == \A a, n : n \in Int => Signed(a, n) \in Int
BY DEF Signed

LEMMA LesserIsInt ==
  \A a, b \in Int : /\ Lesser(a, b) \in Int /\ Lesser(a, b) <= a /\ Lesser(a, b) <= b
                    /\ Lesser(a, b) = a \/ Lesser(a, b) = b
BY DEF Lesser

LEMMA LesserAtLeast ==
  \A a, b, c \in Int : c <= a /\ c <= b => Lesser(a, b) >= c /\ Lesser(a, b) \in Int
BY DEF Lesser

LEMMA GreaterIsInt ==
  \A a, b \in Int : /\ Greater(a, b) \in Int /\ a <= Greater(a, b) /\ b <= Greater(a, b)
                    /\ Greater(a, b) = a \/ Greater(a, b) = b
BY DEF Greater

LEMMA FirstNumber ==
  ASSUME NEW S \in SUBSET Nat, S # {}
  PROVE  \E p \in S : \A q \in S : p <= q
<1>1. PICK p \in S : \A q \in S : <<q, p>> \notin OpToRel(<, Nat)
  BY NatLessThanWellFounded, WFMin
<1>2. ASSUME NEW q \in S, q < p  PROVE <<q, p>> \in OpToRel(<, Nat)
  BY <1>2 DEF OpToRel
<1>3. \A q \in S : ~ (q < p)  BY <1>1, <1>2
<1>4. p \in Nat /\ \A q \in S : q \in Nat  OBVIOUS
<1>5. \A q \in S : p <= q  BY <1>3, <1>4
<1> QED  BY <1>5

LEMMA LowestIsFirst ==
  ASSUME NEW S \in SUBSET Nat, S # {}
  PROVE  Lowest(S) \in S /\ \A q \in S : Lowest(S) <= q
<1>2. \E p \in S : \A q \in S : p <= q  BY FirstNumber
<1> QED  BY <1>2 DEF Lowest

LEMMA HighestIsLast ==
  ASSUME NEW n \in Nat, NEW S \in SUBSET (0..n), S # {}
  PROVE  Highest(S) \in S /\ \A q \in S : q <= Highest(S)
<1> DEFINE Rest == {n - p : p \in S}
<1>0. \A q \in S : q \in 0..n /\ n - q \in Nat  OBVIOUS
<1>1. Rest \in SUBSET Nat /\ Rest # {}
  BY <1>0
<1>2. PICK x \in Rest : \A y \in Rest : x <= y  BY <1>1, FirstNumber
<1>3. PICK p \in S : x = n - p  BY DEF Rest
<1>4. ASSUME NEW q \in S  PROVE q <= p
  <2>1. n - q \in Rest  BY DEF Rest
  <2>2. x <= n - q  BY <1>2, <2>1
  <2> QED  BY <1>3, <2>2
<1> QED  BY <1>4 DEF Highest

(* The level a limit is moved to is one of the grid, on its side of it.    *)
LEMMA FloorLevelBelow ==
  ASSUME NEW x \in Int
  PROVE  FloorLevel(x) \in Grid \cup {NoPrice} /\ (FloorLevel(x) # NoPrice => FloorLevel(x) <= x)
<1> DEFINE S == {p \in Grid : p <= x}
<1>1. CASE S = {}  BY <1>1 DEF FloorLevel, Highest
<1>2. CASE S # {}
  <2>1. S \in SUBSET (0..OneDollar) /\ OneDollar \in Nat  BY GridAssumption DEF Prices
  <2>2. Highest(S) \in S  BY <1>2, <2>1, HighestIsLast
  <2> QED  BY <2>2 DEF FloorLevel
<1> QED  BY <1>1, <1>2

LEMMA CeilLevelAbove ==
  ASSUME NEW x \in Int
  PROVE  CeilLevel(x) \in Grid \cup {NoPrice} /\ (CeilLevel(x) # NoPrice => CeilLevel(x) >= x)
<1> DEFINE S == {p \in Grid : p >= x}
<1>1. CASE S = {}  BY <1>1 DEF CeilLevel, Lowest
<1>2. CASE S # {}
  <2>1. S \in SUBSET Nat  BY Numbers
  <2>2. Lowest(S) \in S  BY <1>2, <2>1, LowestIsFirst
  <2> QED  BY <2>2 DEF CeilLevel
<1> QED  BY <1>1, <1>2

-----------------------------------------------------------------------------
(* What a strategy may want for a touch and a position: one quote a side,  *)
(* of a size that does not take the position past the limit, and if it is  *)
(* a maker's, on its side of the market and near it.                       *)
AwayFrom(i, t) == IF i.contract = "buy" THEN t.bid - i.price ELSE i.price - t.ask

OnItsSide(i, t) == IF i.contract = "buy" THEN i.price < t.ask ELSE i.price > t.bid

Near(i, t) == OnItsSide(i, t) /\ AwayFrom(i, t) <= MaxQuoteAway /\ i.price \in Grid

Fits(i, v) == Signed(i.contract, v) + i.count <= MaxPosition

Proper(S, t, v) ==
  /\ S \in SUBSET IntentSet
  /\ OneEach(S)
  /\ \A i \in S : Fits(i, v)
  /\ \A i \in S : i.quote \in Sides => Near(i, t)

LEMMA TouchTypes ==
  ASSUME NEW t \in TouchSet
  PROVE  /\ t.bid \in Grid \cup {NoPrice} /\ t.ask \in Grid \cup {NoPrice}
         /\ t.bid \in Int /\ t.ask \in Int /\ t.bidSize \in Nat /\ t.askSize \in Nat
         /\ TwoSided(t) => t.bid \in Grid /\ t.ask \in Grid /\ t.bid < t.ask
         /\ TwoSided(t) => t.bid \in Nat /\ t.ask \in Nat
<1>1. t.bid \in Grid \cup {NoPrice} /\ t.ask \in Grid \cup {NoPrice} /\ t.bidSize \in Nat
      /\ t.askSize \in Nat
  BY DEF TouchSet
<1> QED  BY <1>1, Numbers DEF TwoSided

LEMMA IntentType ==
  ASSUME NEW q \in Names, NEW a \in Sides, NEW p \in Int, NEW n \in Nat
  PROVE  /\ Intent(q, a, p, n) \in IntentSet
         /\ Intent(q, a, p, n).quote = q /\ Intent(q, a, p, n).contract = a
         /\ Intent(q, a, p, n).price = p /\ Intent(q, a, p, n).count = n
<1>1. Intent(q, a, p, n) \in IntentSet  BY Zenon DEF Intent, IntentSet
<1>2. /\ Intent(q, a, p, n).quote = q /\ Intent(q, a, p, n).contract = a
      /\ Intent(q, a, p, n).price = p /\ Intent(q, a, p, n).count = n
  BY DEF Intent
<1> QED  BY <1>1, <1>2

(* A set with one quote for each of some sides.                            *)
LEMMA BySide ==
  ASSUME NEW A \in SUBSET Sides, NEW t \in TouchSet, NEW v \in Int,
         NEW P, NEW N,
         \A a \in A : P[a] \in Grid /\ N[a] \in Nat,
         \A a \in A : Signed(a, v) + N[a] <= MaxPosition,
         \A a \in A : a = "buy" => P[a] < t.ask /\ t.bid - P[a] <= MaxQuoteAway,
         \A a \in A : a # "buy" => P[a] > t.bid /\ P[a] - t.ask <= MaxQuoteAway
  PROVE  Proper({Intent(a, a, P[a], N[a]) : a \in A}, t, v)
<1> DEFINE S == {Intent(a, a, P[a], N[a]) : a \in A}
<1>1. ASSUME NEW a \in A
      PROVE  LET i == Intent(a, a, P[a], N[a])
             IN  i \in IntentSet /\ i.contract = a /\ Fits(i, v) /\ Near(i, t)
  <2> DEFINE i == Intent(a, a, P[a], N[a])
  <2>0. a \in Sides /\ a \in Names  BY DEF Names
  <2>1. a \in Sides /\ a \in Names /\ P[a] \in Int /\ N[a] \in Nat
    BY <2>0, Numbers
  <2>2. i \in IntentSet /\ i.contract = a /\ i.price = P[a] /\ i.count = N[a]
    BY <2>1, IntentType
  <2> HIDE DEF i
  <2>3. Fits(i, v)  BY <2>2 DEF Fits
  <2>4. Near(i, t)  BY <2>2 DEF Near, OnItsSide, AwayFrom
  <2> QED  BY <2>2, <2>3, <2>4 DEF i
<1>2. \A i \in S : \E a \in A : i = Intent(a, a, P[a], N[a]) /\ i.contract = a
  BY <1>1
<1>3. OneEach(S)  BY <1>2 DEF OneEach
<1>4. S \in SUBSET IntentSet  BY <1>1
<1> QED  BY <1>1, <1>3, <1>4 DEF Proper

LEMMA DumbIsProper ==
  ASSUME NEW t \in TouchSet, NEW v \in Int
  PROVE  Proper(Dumb(t, v), t, v)
<1> DEFINE A == {b \in Sides : TwoSided(t) /\ Signed(b, v) + Count <= MaxPosition}
           P == [a \in Sides |-> IF a = "buy" THEN t.bid ELSE t.ask]
           N == [a \in Sides |-> Count]
<1>1. /\ A \in SUBSET Sides
      /\ \A a \in A : TwoSided(t) /\ Signed(a, v) + Count <= MaxPosition
      /\ \A a \in A : P[a] = (IF a = "buy" THEN t.bid ELSE t.ask) /\ N[a] = Count
  OBVIOUS
<1>2. Dumb(t, v) = {Intent(a, a, P[a], N[a]) : a \in A}
  <2>1. Dumb(t, v) = {Intent(a, a, IF a = "buy" THEN t.bid ELSE t.ask, Count) : a \in A}
    BY Zenon DEF Dumb, Sides
  <2> HIDE DEF A, P, N
  <2> QED  BY <1>1, <2>1
<1> HIDE DEF A, P, N
<1>3. MaxQuoteAway \in Nat  BY MakersAssumption
<1>4. \A a \in A : /\ P[a] \in Grid /\ N[a] \in Nat
                   /\ Signed(a, v) + N[a] <= MaxPosition
                   /\ a = "buy" => P[a] < t.ask /\ t.bid - P[a] <= MaxQuoteAway
                   /\ a # "buy" => P[a] > t.bid /\ P[a] - t.ask <= MaxQuoteAway
  BY <1>1, <1>3, TouchTypes, Numbers
<1>5. Proper({Intent(a, a, P[a], N[a]) : a \in A}, t, v)  BY <1>1, <1>4, BySide
<1> QED  BY <1>2, <1>5

-----------------------------------------------------------------------------
(* The arithmetic of the makers stays among the integers.                  *)
LEMMA DivIsInt == \A n \in Int, d \in Nat \ {0} : n \div d \in Int
OBVIOUS

LEMMA RoundIsInt == ASSUME NEW n \in Int, NEW d \in Nat \ {0}  PROVE Round(n, d) \in Int
BY DEF Round

LEMMA TruncateIsInt ==
  ASSUME NEW n \in Int, NEW d \in Nat \ {0}
  PROVE  Truncate(n, d) \in Int /\ (n >= 0 => Truncate(n, d) >= 0)
BY DEF Truncate

LEMMA MidIsInt ==
  ASSUME NEW t \in TouchSet
  PROVE  Mid(t) \in Int
BY TouchTypes DEF Mid

LEMMA EdgeTicksIsInt ==
  ASSUME NEW p \in Int, NEW taker \in BOOLEAN
  PROVE  EdgeTicks(p, taker) \in Int
<1>1. OneDollar * FeeBpsScale \in Nat \ {0}  BY FeeAssumption
<1>2. TradingFeeBps * p * (OneDollar - p) \in Int  BY FeeAssumption
<1>3. \A n \in Int, d \in Nat \ {0} : CeilDiv(n, d) \in Int  BY DEF CeilDiv
<1>4. CeilDiv(TradingFeeBps * p * (OneDollar - p), OneDollar * FeeBpsScale) \in Int
  BY <1>1, <1>2, <1>3
<1>5. CeilDiv(MakerFee, CountScale) \in Int  BY <1>3, FeeAssumption
<1>6. 0 \in Int  OBVIOUS
<1> QED  BY <1>4, <1>5, <1>6, Zenon DEF EdgeTicks

LEMMA ClampIsInt ==
  ASSUME NEW n \in Int, NEW low \in Int, NEW high \in Int
  PROVE  Clamp(n, low, high) \in Int
BY LesserIsInt, GreaterIsInt DEF Clamp

LEMMA PenalizedIsInt ==
  ASSUME NEW n \in Int, NEW a \in Sides, NEW v \in Int
  PROVE  Penalized(n, a, v) \in Int
<1>1. Signed(a, v) \in Int  BY SignedIsInt
<1>2. PenaltyBps * Signed(a, v) \in Int  BY <1>1, MakersAssumption
<1>3. CASE MaxPosition = 0  BY <1>3 DEF Penalized
<1>4. CASE MaxPosition # 0
  <2>1. (PenaltyBps * Signed(a, v)) \div MaxPosition \in Int
    BY <1>2, <1>4, DivIsInt, MakersAssumption
  <2>2. Lesser(Bps, (PenaltyBps * Signed(a, v)) \div MaxPosition) \in Int
    BY <2>1, LesserIsInt, MakersAssumption
  <2>3. n * (Bps - Lesser(Bps, (PenaltyBps * Signed(a, v)) \div MaxPosition)) \in Int
    BY <2>2, MakersAssumption
  <2>4. (n * (Bps - Lesser(Bps, (PenaltyBps * Signed(a, v)) \div MaxPosition))) \div Bps \in Int
    BY <2>3, DivIsInt, MakersAssumption
  <2> QED  BY <2>4, Zenon DEF Penalized
<1> QED  BY <1>3, <1>4

LEMMA CapacityIsInt ==
  ASSUME NEW a \in Sides, NEW v \in Int
  PROVE  Capacity(a, v) \in Int /\ Capacity(a, v) = MaxPosition - Signed(a, v)
BY SignedIsInt, Numbers DEF Capacity

LEMMA AdaptivePriceIsNear ==
  ASSUME NEW t \in TouchSet, TwoSided(t), NEW a \in Sides, NEW limit \in Int,
         AdaptivePrice(t, a, limit) # NoPrice
  PROVE  /\ AdaptivePrice(t, a, limit) \in Grid
         /\ a = "buy" => /\ AdaptivePrice(t, a, limit) < t.ask
                         /\ t.bid - AdaptivePrice(t, a, limit) <= MaxQuoteAway
         /\ a # "buy" => /\ AdaptivePrice(t, a, limit) > t.bid
                         /\ AdaptivePrice(t, a, limit) - t.ask <= MaxQuoteAway
<1> DEFINE low == Lesser(t.bid, limit)
           high == Greater(t.ask, limit)
           p == AdaptivePrice(t, a, limit)
<1>1. t.bid \in Int /\ t.ask \in Int /\ t.bid < t.ask  BY TouchTypes
<1>2. low \in Int /\ low <= t.bid  BY <1>1, LesserIsInt
<1>3. high \in Int /\ t.ask <= high  BY <1>1, GreaterIsInt
<1>4. FloorLevel(low) \in Grid \cup {NoPrice} /\ (FloorLevel(low) # NoPrice => FloorLevel(low) <= low)
  BY <1>2, FloorLevelBelow
<1>5. CeilLevel(high) \in Grid \cup {NoPrice} /\ (CeilLevel(high) # NoPrice => CeilLevel(high) >= high)
  BY <1>3, CeilLevelAbove
<1> HIDE DEF low, high
<1>6. CASE a = "buy"
  <2>1. p = FloorLevel(low) /\ t.bid - p <= MaxQuoteAway
    BY <1>6 DEF AdaptivePrice, low
  <2> HIDE DEF p
  <2>2. p \in Grid /\ p \in Int /\ p <= low  BY <1>4, <2>1, Numbers DEF p
  <2>3. p < t.ask  BY <1>1, <1>2, <2>2
  <2> QED  BY <1>6, <2>1, <2>2, <2>3 DEF p
<1>7. CASE a # "buy"
  <2>1. p = CeilLevel(high) /\ p - t.ask <= MaxQuoteAway
    BY <1>7 DEF AdaptivePrice, high
  <2> HIDE DEF p
  <2>2. p \in Grid /\ p \in Int /\ p >= high  BY <1>5, <2>1, Numbers DEF p
  <2>3. p > t.bid  BY <1>1, <1>3, <2>2
  <2> QED  BY <1>7, <2>1, <2>2, <2>3 DEF p
<1> QED  BY <1>6, <1>7

LEMMA AdaptiveCountFits ==
  ASSUME NEW t \in TouchSet, NEW a \in Sides, NEW v \in Int, AdaptiveCount(t, a, v) > 0
  PROVE  /\ AdaptiveCount(t, a, v) \in Nat
         /\ Signed(a, v) + AdaptiveCount(t, a, v) <= MaxPosition
<1> DEFINE least   == Lesser(MinCount, Count)
           offered == (TopSize(t, a) * LiquidityBps) \div Bps
           desired == Penalized(Lesser(Count, Greater(least, offered)), a, v)
           count   == Lesser(desired, Capacity(a, v))
<1>1. TopSize(t, a) \in Nat  BY TouchTypes DEF TopSize
<1>2. TopSize(t, a) * LiquidityBps \in Int  BY <1>1, MakersAssumption
<1>3. offered \in Int  BY <1>2, DivIsInt, MakersAssumption
<1>4. least \in Int  BY LesserIsInt, Numbers
<1> HIDE DEF least, offered
<1>5. Lesser(Count, Greater(least, offered)) \in Int
  BY <1>3, <1>4, LesserIsInt, GreaterIsInt, Numbers
<1>6. desired \in Int  BY <1>5, PenalizedIsInt
<1> HIDE DEF desired
<1>7. count \in Int /\ count <= Capacity(a, v)  BY <1>6, CapacityIsInt, LesserIsInt
<1>8. AdaptiveCount(t, a, v) = 0 \/ AdaptiveCount(t, a, v) = count
  BY DEF AdaptiveCount, count, desired, offered, least
<1> HIDE DEF count
<1>9. Signed(a, v) \in Int /\ MaxPosition \in Nat  BY SignedIsInt, Numbers
<1> QED  BY <1>7, <1>8, <1>9, CapacityIsInt

LEMMA AdaptiveIsProper ==
  ASSUME NEW t \in TouchSet, NEW v \in Int, NEW mids
  PROVE  Proper(Adaptive(t, v, mids), t, v)
<1> DEFINE reservation == Clamp(Mid(t) + ObiShift(t) - InventoryOffset(v), 0, OneDollar)
           edge == MinProfitEdge + EdgeTicks(Mid(t), TRUE)
           P == [a \in Sides |-> AdaptivePrice(t, a, reservation - Signed(a, edge))]
           N == [a \in Sides |-> AdaptiveCount(t, a, v)]
           A == {b \in Sides : /\ TwoSided(t) /\ t.ask - t.bid <= MaxSpread
                               /\ P[b] # NoPrice /\ ~Blocked(b, mids) /\ N[b] > 0}
<1>1. /\ A \in SUBSET Sides
      /\ \A a \in A : TwoSided(t) /\ P[a] # NoPrice /\ N[a] > 0
      /\ \A a \in Sides : P[a] = AdaptivePrice(t, a, reservation - Signed(a, edge))
      /\ \A a \in Sides : N[a] = AdaptiveCount(t, a, v)
  OBVIOUS
<1>2. Adaptive(t, v, mids) = {Intent(a, a, P[a], N[a]) : a \in A}
  BY Zenon DEF Adaptive, Sides
<1>3. reservation \in Int
  <2>1. ObiShift(t) \in Int
    BY RoundIsInt, TouchTypes, MakersAssumption DEF ObiShift
  <2>2. InventoryOffset(v) \in Int
    <3>0. -MaxPosition \in Int /\ MaxPosition \in Int  BY Numbers
    <3>a. Clamp(v, -MaxPosition, MaxPosition) \in Int  BY <3>0, ClampIsInt
    <3>1. Clamp(v, -MaxPosition, MaxPosition) * InventorySkew \in Int
      BY <3>a, MakersAssumption
    <3>2. MaxPosition # 0 => (Clamp(v, -MaxPosition, MaxPosition) * InventorySkew) \div MaxPosition \in Int
      BY <3>1, DivIsInt, MakersAssumption
    <3> QED  BY <3>2 DEF InventoryOffset
  <2>3. Mid(t) + ObiShift(t) - InventoryOffset(v) \in Int  BY <2>1, <2>2, MidIsInt
  <2> QED  BY <2>3, ClampIsInt, Numbers
<1>4. edge \in Int
  <2>1. TRUE \in BOOLEAN  OBVIOUS
  <2>2. EdgeTicks(Mid(t), TRUE) \in Int  BY <2>1, MidIsInt, EdgeTicksIsInt
  <2>3. \A x \in Int : MinProfitEdge + x \in Int  BY MakersAssumption
  <2> QED  BY <2>2, <2>3, Zenon
<1> HIDE DEF A, P, N, reservation, edge
<1>5. ASSUME NEW a \in A
      PROVE  /\ P[a] \in Grid /\ N[a] \in Nat
             /\ Signed(a, v) + N[a] <= MaxPosition
             /\ a = "buy" => P[a] < t.ask /\ t.bid - P[a] <= MaxQuoteAway
             /\ a # "buy" => P[a] > t.bid /\ P[a] - t.ask <= MaxQuoteAway
  <2>1. a \in Sides /\ TwoSided(t)  BY <1>1
  <2>2. reservation - Signed(a, edge) \in Int  BY <1>3, <1>4, <2>1, SignedIsInt
  <2>3. /\ P[a] \in Grid
        /\ a = "buy" => P[a] < t.ask /\ t.bid - P[a] <= MaxQuoteAway
        /\ a # "buy" => P[a] > t.bid /\ P[a] - t.ask <= MaxQuoteAway
    BY <1>1, <2>1, <2>2, AdaptivePriceIsNear
  <2>4. N[a] \in Nat /\ Signed(a, v) + N[a] <= MaxPosition
    BY <1>1, <2>1, AdaptiveCountFits
  <2> QED  BY <2>3, <2>4
<1>6. Proper({Intent(a, a, P[a], N[a]) : a \in A}, t, v)
  BY <1>1, <1>5, BySide
<1> QED  BY <1>2, <1>6

-----------------------------------------------------------------------------
(* horizon.                                                                *)
LEMMA ReservationIsInt ==
  ASSUME NEW t \in TouchSet, NEW v \in Int, NEW e \in Estimates
  PROVE  Reservation(t, v, e) \in Int
<1> DEFINE held   == Clamp(v, -MaxPosition, MaxPosition)
           offset == IF MaxPosition = 0 THEN 0
                     ELSE Truncate(held * (InventorySkew + e.risk), MaxPosition)
<1>1. -MaxPosition \in Int /\ MaxPosition \in Int  BY Numbers
<1>2. held \in Int  BY <1>1, ClampIsInt
<1>3. e.risk \in Nat  BY QuotingAssumption
<1>4. held * (InventorySkew + e.risk) \in Int
  <2> HIDE DEF held
  <2> QED  BY <1>2, <1>3, MakersAssumption
<1>5. offset \in Int  BY <1>4, TruncateIsInt, Numbers
<1>6. Microprice(t) \in Int
  <2>1. t.bidSize * t.ask + t.askSize * t.bid \in Int /\ t.bidSize + t.askSize \in Nat
    BY TouchTypes
  <2>2. CASE t.bidSize + t.askSize <= 0  BY <2>2, MidIsInt DEF Microprice
  <2>3. CASE ~(t.bidSize + t.askSize <= 0)
    <3>1. t.bidSize + t.askSize \in Nat \ {0}  BY <2>1, <2>3
    <3> QED  BY <2>1, <2>3, <3>1, DivIsInt DEF Microprice
  <2> QED  BY <2>2, <2>3
<1> HIDE DEF offset
<1>7. Clamp(Microprice(t) - offset, 0, OneDollar) \in Int
  BY <1>5, <1>6, ClampIsInt, Numbers
<1> QED  BY <1>7 DEF Reservation, offset

LEMMA RequiredEdgeIsInt ==
  ASSUME NEW t \in TouchSet, NEW e \in Estimates
  PROVE  RequiredEdge(t, e) \in Int
<1>1. e.move \in Nat  BY QuotingAssumption
<1>2. AdverseBps * e.move \in Int  BY <1>1, MakersAssumption
<1>3. (AdverseBps * e.move) \div Bps \in Int  BY <1>2, DivIsInt, MakersAssumption
<1>4. FALSE \in BOOLEAN  OBVIOUS
<1>5. EdgeTicks(Mid(t), FALSE) \in Int  BY <1>4, EdgeTicksIsInt, MidIsInt
<1>6. \A x, y \in Int : MinProfitEdge + x + y \in Int  BY MakersAssumption
<1> QED  BY <1>3, <1>5, <1>6, Zenon DEF RequiredEdge

LEMMA HorizonPriceIsNear ==
  ASSUME NEW t \in TouchSet, TwoSided(t), NEW a \in Sides, NEW r \in Int, NEW edge \in Int,
         HorizonPrice(t, a, r, edge) # NoPrice
  PROVE  /\ HorizonPrice(t, a, r, edge) \in Grid
         /\ a = "buy" => /\ HorizonPrice(t, a, r, edge) < t.ask
                         /\ t.bid - HorizonPrice(t, a, r, edge) <= MaxQuoteAway
         /\ a # "buy" => /\ HorizonPrice(t, a, r, edge) > t.bid
                         /\ HorizonPrice(t, a, r, edge) - t.ask <= MaxQuoteAway
<1> DEFINE low == Lesser(r - edge, t.ask - 1)
           high == Greater(r + edge, t.bid + 1)
           p == HorizonPrice(t, a, r, edge)
<1>1. t.bid \in Int /\ t.ask \in Int /\ MaxQuoteAway \in Int  BY TouchTypes, MakersAssumption
<1>2. low \in Int /\ low <= t.ask - 1
  <2>1. r - edge \in Int /\ t.ask - 1 \in Int  BY <1>1
  <2> QED  BY <2>1, LesserIsInt
<1>3. high \in Int /\ t.bid + 1 <= high
  <2>1. r + edge \in Int /\ t.bid + 1 \in Int  BY <1>1
  <2> QED  BY <2>1, GreaterIsInt
<1>4. FloorLevel(low) \in Grid \cup {NoPrice} /\ (FloorLevel(low) # NoPrice => FloorLevel(low) <= low)
  BY <1>2, FloorLevelBelow
<1>5. CeilLevel(high) \in Grid \cup {NoPrice} /\ (CeilLevel(high) # NoPrice => CeilLevel(high) >= high)
  BY <1>3, CeilLevelAbove
<1> HIDE DEF low, high
<1>6. CASE a = "buy"
  <2>1. p = FloorLevel(low) /\ ~(t.bid - p > MaxQuoteAway)
    BY <1>6 DEF HorizonPrice, low
  <2> HIDE DEF p
  <2>2. p \in Grid /\ p \in Int /\ p <= low  BY <1>4, <2>1, Numbers DEF p
  <2>3. p < t.ask /\ t.bid - p <= MaxQuoteAway  BY <1>1, <1>2, <2>1, <2>2
  <2> QED  BY <1>6, <2>2, <2>3 DEF p
<1>7. CASE a # "buy"
  <2>1. p = CeilLevel(high) /\ ~(p - t.ask > MaxQuoteAway)
    BY <1>7 DEF HorizonPrice, high
  <2> HIDE DEF p
  <2>2. p \in Grid /\ p \in Int /\ p >= high  BY <1>5, <2>1, Numbers DEF p
  <2>3. p > t.bid /\ p - t.ask <= MaxQuoteAway  BY <1>1, <1>3, <2>1, <2>2
  <2> QED  BY <1>7, <2>2, <2>3 DEF p
<1> QED  BY <1>6, <1>7

LEMMA RampedIsInt ==
  ASSUME NEW ceiling \in Int, NEW surplus \in Int
  PROVE  Ramped(ceiling, surplus) \in Int
<1>1. (ceiling - MinCount) * Lesser(surplus, EdgeRamp) \in Int
  BY LesserIsInt, MakersAssumption
<1>2. Truncate((ceiling - MinCount) * Lesser(surplus, EdgeRamp), EdgeRamp) \in Int
  BY <1>1, TruncateIsInt, MakersAssumption
<1> QED  BY <1>2, MakersAssumption DEF Ramped

LEMMA TaperedIsInt ==
  ASSUME NEW n \in Int, NEW left \in Int, NEW e \in Estimates
  PROVE  /\ Tapered(n, left, e) \in Int
         /\ n >= MinCount => Tapered(n, left, e) >= MinCount
<1> DEFINE calm == (n * VolReference) \div (VolReference + e.move)
<1>1. e.move \in Nat  BY QuotingAssumption
<1>2. n * VolReference \in Int /\ VolReference + e.move \in Nat \ {0}
  BY <1>1, MakersAssumption
<1>3. calm \in Int  BY <1>2, DivIsInt
<1> HIDE DEF calm
<1>4. calm * left \in Int  BY <1>3
<1>5. (calm * left) \div FlattenSeconds \in Int  BY <1>4, DivIsInt, MakersAssumption
<1>6. TaperedDown(n, left, e) \in Int  BY <1>3, <1>5 DEF TaperedDown, calm
<1> DEFINE down == TaperedDown(n, left, e)
<1> HIDE DEF down
<1>7. down \in Int  BY <1>6 DEF down
<1>8. Greater(down, MinCount) \in Int /\ Greater(down, MinCount) >= MinCount
  BY <1>7, GreaterIsInt, Numbers
<1>9. Tapered(n, left, e) = IF n >= MinCount THEN Greater(down, MinCount) ELSE down
  BY DEF Tapered, down
<1> QED  BY <1>7, <1>8, <1>9

LEMMA RoomFits ==
  ASSUME NEW a \in Sides, NEW v \in Int, NEW reduceOnly \in BOOLEAN
  PROVE  /\ Room(a, v, reduceOnly) \in Int
         /\ Room(a, v, reduceOnly) <= Capacity(a, v)
         /\ reduceOnly => Room(a, v, reduceOnly) <= Magnitude(v)
<1>1. Magnitude(v) \in Int  BY DEF Magnitude
<1>2. Capacity(a, v) \in Int  BY CapacityIsInt
<1>3. Lesser(Capacity(a, v), Magnitude(v)) \in Int
      /\ Lesser(Capacity(a, v), Magnitude(v)) <= Capacity(a, v)
      /\ Lesser(Capacity(a, v), Magnitude(v)) <= Magnitude(v)
  BY <1>1, <1>2, LesserIsInt
<1> QED  BY <1>2, <1>3 DEF Room

LEMMA HorizonCountFits ==
  ASSUME NEW t \in TouchSet, NEW a \in Sides, NEW v \in Int, NEW surplus \in Int,
         NEW left \in Int, NEW e \in Estimates, NEW reduceOnly \in BOOLEAN
  PROVE  /\ HorizonCount(t, a, v, surplus, left, e, reduceOnly) \in Int
         /\ HorizonCount(t, a, v, surplus, left, e, reduceOnly) > 0
              => HorizonCount(t, a, v, surplus, left, e, reduceOnly) <= Room(a, v, reduceOnly)
<1> DEFINE offered == (TopSize(t, a) * LiquidityBps) \div Bps
           ceiling == Lesser(Count, Greater(MinCount, offered))
           desired == Penalized(Tapered(Ramped(ceiling, surplus), left, e), a, v)
           count   == Lesser(Lesser(desired, Room(a, v, reduceOnly)), ceiling)
           n == HorizonCount(t, a, v, surplus, left, e, reduceOnly)
<1>1. TopSize(t, a) \in Nat  BY TouchTypes DEF TopSize
<1>2. TopSize(t, a) * LiquidityBps \in Int  BY <1>1, MakersAssumption
<1>3. offered \in Int  BY <1>2, DivIsInt, MakersAssumption
<1> HIDE DEF offered
<1>4. ceiling \in Int  BY <1>3, LesserIsInt, GreaterIsInt, Numbers
<1> HIDE DEF ceiling
<1>5. desired \in Int  BY <1>4, RampedIsInt, TaperedIsInt, PenalizedIsInt
<1> HIDE DEF desired
<1>6. Room(a, v, reduceOnly) \in Int  BY RoomFits
<1>7. Lesser(desired, Room(a, v, reduceOnly)) \in Int
      /\ Lesser(desired, Room(a, v, reduceOnly)) <= Room(a, v, reduceOnly)
  BY <1>5, <1>6, LesserIsInt
<1>8. count \in Int /\ count <= Lesser(desired, Room(a, v, reduceOnly))
  BY <1>4, <1>7, LesserIsInt
<1>9. n = 0 \/ n = count
  BY DEF HorizonCount, count, desired, ceiling, offered
<1> HIDE DEF n, count
<1>10. n \in Int /\ (n > 0 => n <= Room(a, v, reduceOnly))
  BY <1>6, <1>7, <1>8, <1>9
<1> QED  BY <1>10 DEF n

LEMMA Opposing ==
  ASSUME NEW a \in Sides, NEW v \in Int, ~Increases(a, v)
  PROVE  Signed(a, v) < 0
BY DEF Increases, Signed

(* A quote of horizon; in its reduce-only phase, one that takes the        *)
(* position towards flat, by no more than there is of it.                  *)
LEMMA QuoteBuilt ==
  ASSUME NEW t \in TouchSet, TwoSided(t), NEW a \in Sides, NEW v \in Int, NEW left \in Int,
         NEW e \in Estimates, NEW reduceOnly \in BOOLEAN,
         NEW i \in BuildQuote(t, a, v, left, e, reduceOnly)
  PROVE  /\ BuildQuote(t, a, v, left, e, reduceOnly) = {i}
         /\ i \in IntentSet /\ i.contract = a /\ Fits(i, v) /\ Near(i, t)
         /\ reduceOnly => i.count <= Magnitude(v)
<1> DEFINE r == Reservation(t, v, e)
           edge  == RequiredEdge(t, e)
           price == HorizonPrice(t, a, r, edge)
           own == IF a = "buy" THEN t.bid ELSE t.ask
           surplus == Signed(a, r - own) - edge
           count == HorizonCount(t, a, v, surplus, left, e, reduceOnly)
<1>1. r \in Int /\ edge \in Int  BY ReservationIsInt, RequiredEdgeIsInt
<1>2. surplus \in Int
  <2>1. own \in Int  BY TouchTypes
  <2> HIDE DEF r, edge, own
  <2>2. r - own \in Int  BY <1>1, <2>1
  <2>3. Signed(a, r - own) \in Int  BY <2>2, SignedIsInt
  <2> QED  BY <1>1, <2>3
<1>3. /\ BuildQuote(t, a, v, left, e, reduceOnly) = {i}
      /\ price # NoPrice /\ ~(count <= 0)
      /\ i = Intent(a, a, price, count)
  BY Zenon DEF BuildQuote
<1> HIDE DEF r, edge, own, surplus
<1>4. /\ price \in Grid
      /\ a = "buy" => price < t.ask /\ t.bid - price <= MaxQuoteAway
      /\ a # "buy" => price > t.bid /\ price - t.ask <= MaxQuoteAway
  BY <1>1, <1>3, HorizonPriceIsNear
<1>5. count \in Int /\ (count > 0 => count <= Room(a, v, reduceOnly))
  BY <1>2, HorizonCountFits
<1> HIDE DEF price, count
<1>6. count \in Nat /\ count <= Room(a, v, reduceOnly)  BY <1>3, <1>5
<1>a. a \in Names  BY DEF Names
<1>7. a \in Names /\ price \in Int  BY <1>4, <1>a, Numbers
<1>8. i \in IntentSet /\ i.contract = a /\ i.price = price /\ i.count = count
  BY <1>3, <1>6, <1>7, IntentType
<1>9. Near(i, t)  BY <1>4, <1>8 DEF Near, OnItsSide, AwayFrom
<1>10. /\ Room(a, v, reduceOnly) \in Int /\ Room(a, v, reduceOnly) <= MaxPosition - Signed(a, v)
       /\ Signed(a, v) \in Int /\ MaxPosition \in Int
  BY RoomFits, CapacityIsInt, SignedIsInt, Numbers
<1>11. Fits(i, v)
  <2>1. Signed(a, v) + count <= MaxPosition  BY <1>6, <1>10
  <2> QED  BY <1>8, <2>1 DEF Fits
<1>12. reduceOnly => i.count <= Magnitude(v)
  <2>1. Magnitude(v) \in Int  BY DEF Magnitude
  <2>2. reduceOnly => Room(a, v, reduceOnly) <= Magnitude(v)  BY RoomFits
  <2>3. Room(a, v, reduceOnly) <= Magnitude(v) => count <= Magnitude(v)
    BY <1>6, <1>10, <2>1
  <2>4. reduceOnly => count <= Magnitude(v)  BY <2>2, <2>3, Zenon
  <2> QED  BY <1>8, <2>4, Zenon
<1> QED  BY <1>3, <1>8, <1>9, <1>11, <1>12

(* In the reduce-only phase every quote takes the position towards flat.   *)
Reducing(S, v) == \A i \in S : Signed(i.contract, v) < 0 /\ i.count <= Magnitude(v)

LEMMA FlattenIsProper ==
  ASSUME NEW t \in TouchSet, NEW v \in Int
  PROVE  Proper(FlattenIntents(t, v), t, v) /\ Reducing(FlattenIntents(t, v), v)
<1>1. CASE v = 0
  BY <1>1 DEF FlattenIntents, Proper, Reducing, OneEach
<1>2. CASE v # 0
  <2> DEFINE a == IF v > 0 THEN "sell" ELSE "buy"
             p == IF v > 0 THEN t.bid ELSE t.ask
             i == Intent("flatten", a, p, Magnitude(v))
  <2>1. FlattenIntents(t, v) = {i}  BY <1>2, Zenon DEF FlattenIntents
  <2>2. a \in Sides /\ "flatten" \in Names /\ "flatten" \notin Sides  BY DEF Sides, Names
  <2>3. p \in Int /\ Magnitude(v) \in Nat  BY TouchTypes DEF Magnitude
  <2>4. Signed(a, v) = -Magnitude(v) /\ Magnitude(v) > 0  BY <1>2 DEF Signed, Magnitude
  <2> HIDE DEF a, p
  <2>5. i \in IntentSet /\ i.quote = "flatten" /\ i.contract = a /\ i.count = Magnitude(v)
    BY <2>2, <2>3, IntentType
  <2> HIDE DEF i
  <2>6. Fits(i, v)
    <3>1. Signed(a, v) + Magnitude(v) <= MaxPosition  BY <2>3, <2>4, Numbers
    <3> QED  BY <2>5, <3>1 DEF Fits
  <2>7. Signed(i.contract, v) < 0 /\ i.count <= Magnitude(v)
    <3>1. Signed(a, v) < 0 /\ Magnitude(v) <= Magnitude(v)  BY <2>3, <2>4
    <3> QED  BY <2>5, <3>1
  <2> QED  BY <2>1, <2>2, <2>5, <2>6, <2>7 DEF Proper, Reducing, OneEach
<1> QED  BY <1>1, <1>2

LEMMA HorizonIsProper ==
  ASSUME NEW t \in TouchSet, NEW v \in Int, NEW left \in Int, NEW e \in Estimates
  PROVE  /\ Proper(Horizon(t, v, left, e), t, v)
         /\ IsReduceOnly(left) => Reducing(Horizon(t, v, left, e), v)
<1>1. CASE ~TwoSided(t)
  BY <1>1 DEF Horizon, Proper, Reducing, OneEach
<1>2. CASE TwoSided(t) /\ PastStop(left)
  <2>1. Horizon(t, v, left, e) = FlattenIntents(t, v)  BY <1>2 DEF Horizon
  <2> QED  BY <2>1, FlattenIsProper
<1>3. CASE TwoSided(t) /\ ~PastStop(left) /\ t.ask - t.bid > MaxSpread
  BY <1>3 DEF Horizon, Proper, Reducing, OneEach
<1>4. CASE TwoSided(t) /\ ~PastStop(left) /\ ~(t.ask - t.bid > MaxSpread)
  <2> DEFINE A == {b \in Sides : ~(IsReduceOnly(left) /\ Increases(b, v))}
             B(a) == BuildQuote(t, a, v, left, e, IsReduceOnly(left))
             S == UNION {B(a) : a \in A}
  <2>1. Horizon(t, v, left, e) = S  BY <1>4, Zenon DEF Horizon, Sides
  <2>2. IsReduceOnly(left) \in BOOLEAN  BY DEF IsReduceOnly
  <2>3. ASSUME NEW a \in A, NEW i \in B(a)
        PROVE  /\ B(a) = {i}
               /\ i \in IntentSet /\ i.contract = a /\ Fits(i, v) /\ Near(i, t)
               /\ IsReduceOnly(left) => i.count <= Magnitude(v)
    BY <1>4, <2>2, QuoteBuilt
  <2>4. ASSUME NEW a \in A, IsReduceOnly(left)  PROVE Signed(a, v) < 0
    BY <2>4, Opposing
  <2>5. \A i \in S : \E a \in A : i \in B(a)  OBVIOUS
  <2> HIDE DEF A, B
  <2>6. OneEach(S)
    <3> SUFFICES ASSUME NEW x \in S, NEW y \in S, x.contract = y.contract  PROVE x = y
      BY DEF OneEach
    <3>1. PICK a \in A : x \in B(a)  BY <2>5
    <3>2. PICK b \in A : y \in B(b)  BY <2>5
    <3>3. x.contract = a /\ B(a) = {x}  BY <2>3, <3>1
    <3>4. y.contract = b /\ B(b) = {y}  BY <2>3, <3>2
    <3> QED  BY <3>3, <3>4
  <2>7. \A i \in S : i \in IntentSet /\ Fits(i, v) /\ Near(i, t)
    BY <2>3, <2>5
  <2>8. Proper(S, t, v)  BY <2>6, <2>7 DEF Proper
  <2>9. IsReduceOnly(left) => Reducing(S, v)
    <3> SUFFICES ASSUME IsReduceOnly(left), NEW i \in S
                 PROVE  Signed(i.contract, v) < 0 /\ i.count <= Magnitude(v)
      BY DEF Reducing
    <3>1. PICK a \in A : i \in B(a)  BY <2>5
    <3> QED  BY <2>3, <2>4, <3>1
  <2> QED  BY <2>1, <2>8, <2>9
<1> QED  BY <1>1, <1>2, <1>3, <1>4

LEMMA MomentumIsProper ==
  ASSUME NEW t \in TouchSet, NEW v \in Int, NEW tracker, NEW n
  PROVE  Proper(Momentum(t, v, tracker, n), t, v)
<1> DEFINE up == Intent("momo buy", "buy", t.ask, Count)
           down == Intent("momo sell", "sell", t.bid, Count)
           action == IF tracker.signal.up THEN "buy" ELSE "sell"
           S == Momentum(t, v, tracker, n)
<1>1. /\ \A i \in S : (i = up \/ i = down) /\ i.contract = action /\ Capacity(action, v) >= Count
      /\ \A i, j \in S : i = j
  <2> DEFINE fee == EdgeTicks(Mid(t), TRUE)
             cond == /\ fee <= TakerFeeLimit
                     /\ tracker.signal.move - (t.ask - t.bid) \div 2 - fee >= TakerEdge
                     /\ Capacity(action, v) >= Count
  <2>1. S = IF cond THEN {IF tracker.signal.up THEN up ELSE down} ELSE {}
    BY Zenon DEF Momentum
  <2>2. up.contract = "buy" /\ down.contract = "sell"  BY DEF Intent
  <2>3. cond => Capacity(action, v) >= Count  OBVIOUS
  <2> HIDE DEF S, cond, up, down
  <2>4. CASE cond
    <3>1. CASE tracker.signal.up
      <4>1. S = {up} /\ action = "buy"  BY <2>1, <2>4, <3>1, Zenon
      <4> QED  BY <2>2, <2>3, <2>4, <4>1, Zenon
    <3>2. CASE ~tracker.signal.up
      <4>1. S = {down} /\ action = "sell"  BY <2>1, <2>4, <3>2, Zenon
      <4> QED  BY <2>2, <2>3, <2>4, <4>1, Zenon
    <3> QED  BY <3>1, <3>2
  <2>5. CASE ~cond  BY <2>1, <2>5, Zenon
  <2> QED  BY <2>4, <2>5
<1>2. action \in Sides  BY DEF Sides
<1>3. /\ "momo buy" \in Names \ Sides /\ "momo sell" \in Names \ Sides
      /\ "buy" \in Sides /\ "sell" \in Sides
  BY DEF Sides, Names
<1> HIDE DEF S, action
<1>4. /\ up \in IntentSet /\ up.quote = "momo buy" /\ up.count = Count
      /\ down \in IntentSet /\ down.quote = "momo sell" /\ down.count = Count
  <2>1. t.ask \in Int /\ t.bid \in Int /\ Count \in Nat  BY TouchTypes, Numbers
  <2>2. \A q \in Names, a \in Sides, p \in Int :
          LET i == Intent(q, a, p, Count)
          IN  i \in IntentSet /\ i.quote = q /\ i.count = Count
    BY <2>1, IntentType
  <2> QED  BY <1>3, <2>1, <2>2, Zenon
<1> HIDE DEF up, down
<1>5. \A i \in S : Fits(i, v)
  <2>1. Capacity(action, v) >= Count => Signed(action, v) + Count <= MaxPosition
    <3>1. Capacity(action, v) = MaxPosition - Signed(action, v) /\ Signed(action, v) \in Int
      BY <1>2, CapacityIsInt, SignedIsInt
    <3> QED  BY <3>1, Numbers
  <2> QED  BY <1>1, <1>4, <2>1 DEF Fits
<1> QED  BY <1>1, <1>3, <1>4, <1>5 DEF Proper, OneEach, S

-----------------------------------------------------------------------------
(* What the wrappers leave of a proper set of quotes, or make of it.       *)
WithinReach(i, t, moved) ==
  /\ OnItsSide(i, t)
  /\ AwayFrom(i, t) <= MaxQuoteAway + (IF moved THEN WidenTicks ELSE 0)
  /\ i.price \in IF moved THEN Prices ELSE Grid

Sound(S, t, v, moved) ==
  /\ S \in SUBSET IntentSet
  /\ OneEach(S)
  /\ \A i \in S : Fits(i, v)
  /\ \A i \in S : i.quote \in Sides => WithinReach(i, t, moved)

LEMMA ProperIsSound ==
  ASSUME NEW S, NEW T \in SUBSET S, NEW t \in TouchSet, NEW v, Proper(S, t, v)
  PROVE  Sound(T, t, v, FALSE)
<1>1. ASSUME NEW i \in IntentSet, Near(i, t)  PROVE WithinReach(i, t, FALSE)
  <2>1. MaxQuoteAway + 0 = MaxQuoteAway  BY MakersAssumption
  <2> QED  BY <1>1, <2>1 DEF Near, WithinReach
<1> QED  BY <1>1 DEF Proper, Sound, OneEach

LEMMA NearIsWithinReach ==
  ASSUME NEW t \in TouchSet, NEW i \in IntentSet, Near(i, t)
  PROVE  WithinReach(i, t, TRUE)
<1>1. t.bid \in Int /\ t.ask \in Int /\ i.price \in Int  BY TouchTypes DEF IntentSet
<1>2. AwayFrom(i, t) \in Int  BY <1>1 DEF AwayFrom
<1>3. AwayFrom(i, t) <= MaxQuoteAway + WidenTicks
  BY <1>2, MakersAssumption, GatesAssumption DEF Near
<1>4. i.price \in Prices  BY GridAssumption DEF Near
<1> QED  BY <1>3, <1>4 DEF Near, WithinReach

LEMMA WidenedTypes ==
  ASSUME NEW i \in IntentSet
  PROVE  /\ Widened(i) \in IntentSet
         /\ Widened(i).quote = i.quote /\ Widened(i).contract = i.contract
         /\ Widened(i).count = i.count
         /\ Widened(i).price = i.price - Signed(i.contract, WidenTicks)
<1>1. Signed(i.contract, WidenTicks) \in Int  BY SignedIsInt, GatesAssumption
<1>2. i.price - Signed(i.contract, WidenTicks) \in Int  BY <1>1 DEF IntentSet
<1> QED  BY <1>2 DEF Widened, IntentSet

LEMMA WidenedIsWithinReach ==
  ASSUME NEW t \in TouchSet, NEW i \in IntentSet, Near(i, t),
         0 < Widened(i).price, Widened(i).price < OneDollar
  PROVE  WithinReach(Widened(i), t, TRUE)
<1> DEFINE w == Widened(i)
<1>1. /\ t.bid \in Int /\ t.ask \in Int /\ i.price \in Int
      /\ WidenTicks \in Nat /\ MaxQuoteAway \in Nat
  BY TouchTypes, MakersAssumption, GatesAssumption DEF IntentSet
<1>2. w.contract = i.contract /\ w.price = i.price - Signed(i.contract, WidenTicks)
  BY WidenedTypes
<1> HIDE DEF w
<1>3. OnItsSide(w, t) /\ AwayFrom(w, t) <= MaxQuoteAway + WidenTicks
  <2>1. CASE i.contract = "buy"
    <3>1. w.price = i.price - WidenTicks  BY <1>2, <2>1 DEF Signed
    <3>2. i.price < t.ask /\ t.bid - i.price <= MaxQuoteAway
      BY <2>1 DEF Near, OnItsSide, AwayFrom
    <3>3. w.price < t.ask /\ t.bid - w.price <= MaxQuoteAway + WidenTicks
      BY <1>1, <3>1, <3>2
    <3> QED  BY <1>2, <2>1, <3>3 DEF OnItsSide, AwayFrom
  <2>2. CASE i.contract # "buy"
    <3>1. w.price = i.price + WidenTicks  BY <1>1, <1>2, <2>2 DEF Signed
    <3>2. i.price > t.bid /\ i.price - t.ask <= MaxQuoteAway
      BY <2>2 DEF Near, OnItsSide, AwayFrom
    <3>3. w.price > t.bid /\ w.price - t.ask <= MaxQuoteAway + WidenTicks
      BY <1>1, <3>1, <3>2
    <3> QED  BY <1>2, <2>2, <3>3 DEF OnItsSide, AwayFrom
  <2> QED  BY <2>1, <2>2
<1>4. w.price \in Prices
  <2>1. w.price \in Int
    <3>1. Signed(i.contract, WidenTicks) \in Int  BY <1>1, SignedIsInt
    <3> QED  BY <1>1, <1>2, <3>1
  <2> QED  BY <2>1, Numbers DEF Prices, w
<1> QED  BY <1>3, <1>4 DEF WithinReach, w

LEMMA DefendedIsSound ==
  ASSUME NEW S, NEW t \in TouchSet, NEW v, Proper(S, t, v), NEW tracker, NEW n, NEW symmetric
  PROVE  Sound(Defended(S, tracker, n, symmetric), t, v, TRUE)
<1> DEFINE exposed(i) == IF symmetric THEN InForce(tracker, n)
                                      ELSE Suppresses(tracker, i.contract, n)
           X == {i \in S : exposed(i)}
           Y == {i \in S : ~exposed(i)}
           W == {w \in {Widened(i) : i \in X} : 0 < w.price /\ w.price < OneDollar}
<1>1. Defended(S, tracker, n, symmetric) = Y \cup W  BY Zenon DEF Defended
<1>2. X \subseteq S /\ Y \subseteq S /\ X \cap Y = {}  OBVIOUS
<1> HIDE DEF X, Y
<1>3. S \in SUBSET IntentSet  BY DEF Proper
<1>4. ASSUME NEW w \in Y \cup W
      PROVE  \/ w \in Y
             \/ \E i \in X : /\ w = Widened(i) /\ w.quote = i.quote
                            /\ w.contract = i.contract /\ w.count = i.count
                            /\ 0 < w.price /\ w.price < OneDollar
  <2>1. w \notin Y => \E i \in X : w = Widened(i) /\ 0 < w.price /\ w.price < OneDollar
    OBVIOUS
  <2> QED  BY <1>2, <1>3, <2>1, WidenedTypes
<1>5. OneEach(Y \cup W)
  <2> SUFFICES ASSUME NEW x \in Y \cup W, NEW y \in Y \cup W, x.contract = y.contract
               PROVE  x = y
    BY DEF OneEach
  <2>1. \A i, j \in S : i.contract = j.contract => i = j  BY DEF Proper, OneEach
  <2>2. CASE x \in Y /\ y \in Y  BY <1>2, <2>1, <2>2
  <2>3. CASE x \in Y /\ y \notin Y
    <3>1. PICK j \in X : y.contract = j.contract  BY <1>4, <2>3
    <3> QED  BY <1>2, <2>1, <2>3, <3>1
  <2>4. CASE x \notin Y /\ y \in Y
    <3>1. PICK j \in X : x.contract = j.contract  BY <1>4, <2>4
    <3> QED  BY <1>2, <2>1, <2>4, <3>1
  <2>5. CASE x \notin Y /\ y \notin Y
    <3>1. PICK i \in X : x = Widened(i) /\ x.contract = i.contract  BY <1>4, <2>5
    <3>2. PICK j \in X : y = Widened(j) /\ y.contract = j.contract  BY <1>4, <2>5
    <3> QED  BY <1>2, <2>1, <3>1, <3>2
  <2> QED  BY <2>2, <2>3, <2>4, <2>5
<1>6. ASSUME NEW w \in Y \cup W
      PROVE  w \in IntentSet /\ Fits(w, v) /\ (w.quote \in Sides => WithinReach(w, t, TRUE))
  <2>1. CASE w \in Y
    <3>1. w \in S /\ w \in IntentSet  BY <1>2, <1>3, <2>1
    <3> QED  BY <3>1, NearIsWithinReach DEF Proper
  <2>2. CASE w \notin Y
    <3>1. PICK i \in X : /\ w = Widened(i) /\ w.quote = i.quote
                         /\ w.contract = i.contract /\ w.count = i.count
                         /\ 0 < w.price /\ w.price < OneDollar
      BY <1>4, <2>2
    <3>2. i \in S /\ i \in IntentSet  BY <1>2, <1>3
    <3>3. w \in IntentSet  BY <3>1, <3>2, WidenedTypes
    <3>4. Fits(w, v)  BY <3>1, <3>2 DEF Proper, Fits
    <3>5. w.quote \in Sides => WithinReach(w, t, TRUE)
      BY <3>1, <3>2, WidenedIsWithinReach DEF Proper
    <3> QED  BY <3>3, <3>4, <3>5
  <2> QED  BY <2>1, <2>2
<1> QED  BY <1>1, <1>5, <1>6 DEF Sound

-----------------------------------------------------------------------------
(* The states.                                                             *)
Strategies == {"dumb", "adaptive", "horizon", "momo"}
Wrappers   == {"plain", "phased", "obigate", "defended", "symmetric"}
Moved      == stack[2] \in {"defended", "symmetric"}
Nothing    == [buy |-> 0, sell |-> 0]

SessionTyped ==
  /\ stack[1] \in Strategies /\ stack[2] \in Wrappers
  /\ closeAt \in Nat \cup {None} /\ now \in 0..MaxNow
  /\ touch \in TouchSet /\ position \in Int

OrdersTyped ==
  /\ orders \in SUBSET OrderSet
  /\ \A o \in orders : o.filled <= o.rem
  /\ late \in [Sides -> Nat]
  /\ pending \in [intents : SUBSET IntentSet, touch : TouchSet, left : Int, view : Int,
                  missed : [Sides -> Nat]]

(* Of a side there is one order, or one about to be created.               *)
OneOfASide ==
  /\ OneEach(orders) /\ OneEach(pending.intents)
  /\ \A o \in orders, i \in pending.intents : o.contract # i.contract

Typed == SessionTyped /\ OrdersTyped /\ OneOfASide

LEMMA LeftIsInt ==
  ASSUME SessionTyped
  PROVE  Left \in Int
<1>1. now \in Int /\ closeAt \in Int  BY Numbers, QuotingAssumption DEF SessionTyped
<1>2. closeAt - now \in Int  BY <1>1
<1>3. Greater(closeAt - now, 0) \in Int  BY <1>2, GreaterIsInt
<1> QED  BY <1>3, Numbers DEF Left

(* The contracts of a set of orders that has one of a side at most.        *)
LEMMA FilledOfNone ==
  ASSUME NEW S, NEW a, \A o \in S : o.contract # a
  PROVE  Filled(S, a) = 0
<1> DEFINE R == {o \in S : o.contract = a}
           P(g) == g = [s \in SUBSET {} |-> IF s = {} THEN 0
                          ELSE (CHOOSE y \in s : TRUE).filled + g[s \ {CHOOSE y \in s : TRUE}]]
<1>1. R = {}  OBVIOUS
<1>2. P([s \in SUBSET {} |-> 0])  OBVIOUS
<1>3. P(CHOOSE g : P(g))  BY <1>2, Zenon
<1>4. MapThenSumSet(LAMBDA o : o.filled, {}) = (CHOOSE g : P(g))[{}]
  BY Zenon DEF MapThenSumSet, MapThenFoldSet
<1> HIDE DEF R
<1>5. Filled(S, a) = MapThenSumSet(LAMBDA o : o.filled, {})
  BY <1>1, Zenon DEF Filled, R
<1> QED  BY <1>3, <1>4, <1>5

LEMMA FilledOfOne ==
  ASSUME NEW S, NEW a, NEW x \in S, x.contract = a, x.filled \in Int,
         \A o \in S : o.contract = a => o = x
  PROVE  Filled(S, a) = x.filled
<1> DEFINE R == {o \in S : o.contract = a}
           P(g) == g = [s \in SUBSET {x} |-> IF s = {} THEN 0
                          ELSE (CHOOSE y \in s : TRUE).filled + g[s \ {CHOOSE y \in s : TRUE}]]
           h == [s \in SUBSET {x} |-> IF s = {} THEN 0 ELSE x.filled]
<1>1. R = {x}  OBVIOUS
<1>2. P(h)
  <2>1. ASSUME NEW s \in SUBSET {x}, s # {}
        PROVE  x.filled = (CHOOSE y \in s : TRUE).filled + h[s \ {CHOOSE y \in s : TRUE}]
    <3>1. s = {x}  BY <2>1
    <3>2. (CHOOSE y \in s : TRUE) = x  BY <3>1
    <3>3. h[s \ {CHOOSE y \in s : TRUE}] = 0  BY <3>1, <3>2
    <3>4. x.filled + 0 = x.filled  OBVIOUS
    <3> HIDE DEF h
    <3> QED  BY <3>2, <3>3, <3>4, Zenon
  <2> QED  BY <2>1
<1>3. P(CHOOSE g : P(g))  BY <1>2, Zenon
<1>4. MapThenSumSet(LAMBDA o : o.filled, {x}) = (CHOOSE g : P(g))[{x}]
  BY Zenon DEF MapThenSumSet, MapThenFoldSet
<1> HIDE DEF R
<1>5. Filled(S, a) = MapThenSumSet(LAMBDA o : o.filled, {x})
  BY <1>1, Zenon DEF Filled, R
<1>6. (CHOOSE g : P(g))[{x}] = x.filled
  <2> DEFINE g == CHOOSE g : P(g)
  <2>1. P(g)  BY <1>3
  <2> HIDE DEF g
  <2>2. (CHOOSE y \in {x} : TRUE) = x  OBVIOUS
  <2>3. g[{x} \ {x}] = 0  BY <2>1
  <2>4. g[{x}] = x.filled + g[{x} \ {x}]  BY <2>1, <2>2
  <2> QED  BY <2>3, <2>4 DEF g
<1> QED  BY <1>4, <1>5, <1>6

LEMMA AtRestOfOne ==
  ASSUME NEW x \in orders, x.rem - x.filled \in Int,
         \A o \in orders : o.contract = x.contract => o = x
  PROVE  AtRest(x.contract) = x.rem - x.filled
<1> DEFINE a == x.contract
           R == {o \in orders : o.contract = a}
           P(g) == g = [s \in SUBSET {x} |-> IF s = {} THEN 0
                          ELSE ((CHOOSE y \in s : TRUE).rem - (CHOOSE y \in s : TRUE).filled)
                                 + g[s \ {CHOOSE y \in s : TRUE}]]
           h == [s \in SUBSET {x} |-> IF s = {} THEN 0 ELSE x.rem - x.filled]
<1>1. R = {x}  OBVIOUS
<1>2. P(h)
  <2>1. ASSUME NEW s \in SUBSET {x}, s # {}
        PROVE  x.rem - x.filled
                 = ((CHOOSE y \in s : TRUE).rem - (CHOOSE y \in s : TRUE).filled)
                     + h[s \ {CHOOSE y \in s : TRUE}]
    <3>1. s = {x}  BY <2>1
    <3>2. (CHOOSE y \in s : TRUE) = x  BY <3>1
    <3>3. h[s \ {CHOOSE y \in s : TRUE}] = 0  BY <3>1, <3>2
    <3>4. (x.rem - x.filled) + 0 = x.rem - x.filled  OBVIOUS
    <3> HIDE DEF h
    <3> QED  BY <3>2, <3>3, <3>4, Zenon
  <2> QED  BY <2>1
<1>3. P(CHOOSE g : P(g))  BY <1>2, Zenon
<1>4. MapThenSumSet(LAMBDA o : o.rem - o.filled, {x}) = (CHOOSE g : P(g))[{x}]
  BY Zenon DEF MapThenSumSet, MapThenFoldSet
<1>5. AtRest(a) = MapThenSumSet(LAMBDA o : o.rem - o.filled, R)
  BY Zenon DEF AtRest
<1> HIDE DEF R
<1>6. (CHOOSE g : P(g))[{x}] = x.rem - x.filled
  <2> DEFINE g == CHOOSE g : P(g)
  <2>1. P(g)  BY <1>3
  <2> HIDE DEF g
  <2>2. (CHOOSE y \in {x} : TRUE) = x  OBVIOUS
  <2>3. g[{x} \ {x}] = 0  BY <2>1
  <2>4. g[{x}] = (x.rem - x.filled) + g[{x} \ {x}]  BY <2>1, <2>2
  <2> QED  BY <2>3, <2>4 DEF g
<1> QED  BY <1>1, <1>4, <1>5, <1>6

(* So what is filled and unheard of is a number.                           *)
LEMMA FilledIsNat ==
  ASSUME NEW S \in SUBSET OrderSet, OneEach(S), NEW a
  PROVE  Filled(S, a) \in Nat
<1>1. CASE \A o \in S : o.contract # a
  <2>1. Filled(S, a) = 0  BY <1>1, FilledOfNone
  <2> QED  BY <2>1
<1>2. CASE \E o \in S : o.contract = a
  <2>1. PICK x \in S : x.contract = a  BY <1>2
  <2>2. x.filled \in Nat /\ x.filled \in Int  BY DEF OrderSet
  <2>3. \A o \in S : o.contract = a => o = x  BY <2>1 DEF OneEach
  <2>4. Filled(S, a) = x.filled  BY <2>1, <2>2, <2>3, FilledOfOne
  <2> QED  BY <2>2, <2>4
<1> QED  BY <1>1, <1>2

LEMMA ViewIsInt ==
  ASSUME Typed
  PROVE  /\ Unseen("buy") \in Nat /\ Unseen("sell") \in Nat
         /\ View \in Int /\ View = position - Unseen("buy") + Unseen("sell")
<1>1. /\ orders \in SUBSET OrderSet /\ OneEach(orders)
      /\ late["buy"] \in Nat /\ late["sell"] \in Nat /\ position \in Int
  BY DEF Typed, SessionTyped, OrdersTyped, OneOfASide, Sides
<1>2. Filled(orders, "buy") \in Nat /\ Filled(orders, "sell") \in Nat
  BY <1>1, FilledIsNat
<1>3. Unseen("buy") \in Nat /\ Unseen("sell") \in Nat  BY <1>1, <1>2 DEF Unseen
<1> QED  BY <1>1, <1>3 DEF View

-----------------------------------------------------------------------------
(* What the strategy chosen wants in a state.                              *)
LEMMA BaseIsProper ==
  ASSUME Typed, NEW e \in Estimates, NEW m
  PROVE  /\ Proper(Base(m, e), touch, View)
         /\ stack[1] = "horizon" /\ IsReduceOnly(Left) => Reducing(Base(m, e), View)
<1>1. touch \in TouchSet /\ stack[1] \in Strategies /\ Left \in Int
  BY LeftIsInt DEF Typed, SessionTyped
<1>2. View \in Int  BY ViewIsInt
<1>3. CASE stack[1] = "dumb"
  <2>1. Base(m, e) = Dumb(touch, View)  BY <1>3, Zenon DEF Base
  <2>2. Proper(Dumb(touch, View), touch, View)  BY <1>1, <1>2, DumbIsProper
  <2> QED  BY <1>3, <2>1, <2>2
<1>4. CASE stack[1] = "adaptive"
  <2>1. Base(m, e) = Adaptive(touch, View, m.mids)  BY <1>4 DEF Base
  <2>2. Proper(Adaptive(touch, View, m.mids), touch, View)  BY <1>1, <1>2, AdaptiveIsProper
  <2> QED  BY <1>4, <2>1, <2>2
<1>5. CASE stack[1] = "horizon"
  <2>1. Base(m, e) = Horizon(touch, View, Left, e)  BY <1>5 DEF Base
  <2> QED  BY <1>1, <1>2, <2>1, HorizonIsProper
<1>6. CASE stack[1] = "momo"
  <2>1. Base(m, e) = IF Signals(m) THEN Momentum(touch, View, m.tracker, now) ELSE {}
    BY <1>6 DEF Base
  <2>2. Proper(Momentum(touch, View, m.tracker, now), touch, View)
    BY <1>1, <1>2, MomentumIsProper
  <2>3. Proper({}, touch, View)  BY DEF Proper, OneEach
  <2> QED  BY <1>6, <2>1, <2>2, <2>3
<1> QED  BY <1>1, <1>3, <1>4, <1>5, <1>6 DEF Strategies

LEMMA WantedIsSound ==
  ASSUME Typed, NEW e \in Estimates, NEW m
  PROVE  /\ Sound(Wanted(m, e), touch, View, Moved)
         /\ stack[1] = "horizon" /\ IsReduceOnly(Left) => Reducing(Wanted(m, e), View)
<1>1. touch \in TouchSet /\ stack[2] \in Wrappers  BY DEF Typed, SessionTyped
<1> DEFINE B == Base(m, e)
<1>2. Proper(B, touch, View)  BY BaseIsProper
<1>3. stack[1] = "horizon" /\ IsReduceOnly(Left) => Reducing(B, View)  BY BaseIsProper
<1> HIDE DEF B
<1>4. CASE stack[2] \in {"plain", "phased", "obigate"}
  <2>1. Wanted(m, e) \subseteq B
    <3>1. CASE stack[2] = "plain"
      <4>1. Wanted(m, e) = B  BY <3>1, Zenon DEF Wanted, B
      <4> QED  BY <4>1
    <3>2. CASE stack[2] = "phased"
      <4>1. Wanted(m, e) = Phased(B, View, Left)  BY <3>2 DEF Wanted, B
      <4> QED  BY <4>1 DEF Phased
    <3>3. CASE stack[2] = "obigate"
      <4>1. Wanted(m, e) = Gate(m, e).intents  BY <3>3 DEF Wanted
      <4> QED  BY <4>1 DEF Gate, Gated, B
    <3> QED  BY <1>4, <3>1, <3>2, <3>3
  <2>2. ~Moved  BY <1>4 DEF Moved
  <2>3. Sound(Wanted(m, e), touch, View, FALSE)  BY <1>1, <1>2, <2>1, ProperIsSound
  <2>4. Sound(Wanted(m, e), touch, View, Moved)
    BY <2>2, <2>3, Zenon DEF Sound, WithinReach
  <2> QED  BY <1>3, <2>1, <2>4 DEF Reducing
<1>5. CASE stack[2] \in {"defended", "symmetric"}
  <2>1. Wanted(m, e) = Defended(B, m.tracker, now, stack[2] = "symmetric")
    BY <1>5 DEF Wanted, B
  <2>2. Moved  BY <1>5 DEF Moved
  <2>0. ASSUME NEW tracker, NEW k
        PROVE  Sound(Defended(B, tracker, now, k), touch, View, TRUE)
    BY <1>1, <1>2, DefendedIsSound
  <2>3. Sound(Wanted(m, e), touch, View, TRUE)  BY <2>0, <2>1, Zenon
  <2>4. Sound(Wanted(m, e), touch, View, Moved)
    BY <2>2, <2>3, Zenon DEF Sound, WithinReach
  <2>5. \A w \in Wanted(m, e) : \E i \in B : w.contract = i.contract /\ w.count = i.count
    <3>1. \A i \in B : /\ Widened(i).contract = i.contract /\ Widened(i).count = i.count
      BY <1>2, WidenedTypes DEF Proper
    <3>2. \A w \in Wanted(m, e) : w \in B \/ \E i \in B : w = Widened(i)
      BY <2>1 DEF Defended
    <3> QED  BY <3>1, <3>2
  <2>6. Reducing(B, View) => Reducing(Wanted(m, e), View)
    BY <2>5, Zenon DEF Reducing
  <2> QED  BY <1>3, <2>4, <2>6
<1> QED  BY <1>1, <1>4, <1>5 DEF Wrappers

-----------------------------------------------------------------------------
(* What a state must hold for the exposure to stay bounded: each order, and *)
(* each one about to be created, is within the limit by the position of     *)
(* the exchange but for the fills unheard of when it was made.              *)
Sized ==
  /\ \A o \in orders :
       Signed(o.contract, position) + (o.rem - o.filled) <= MaxPosition + o.missed[o.contract]
  /\ \A i \in pending.intents :
       Signed(i.contract, position) + i.count <= MaxPosition + pending.missed[i.contract]

Shrinking ==
  stack[1] = "horizon" =>
    /\ \A o \in orders : IsReduceOnly(o.left) /\ o.missed = Nothing =>
         /\ o.rem - o.filled <= Magnitude(position)
         /\ o.rem > o.filled => Signed(o.contract, position) < 0
    /\ \A i \in pending.intents : IsReduceOnly(pending.left) /\ pending.missed = Nothing =>
         /\ i.count <= Magnitude(position)
         /\ Signed(i.contract, position) < 0

NearTheirTouch ==
  \A i \in pending.intents : i.quote \in Sides => WithinReach(i, pending.touch, Moved)

Quoted == Typed /\ Sized /\ Shrinking /\ NearTheirTouch

LEMMA InitQuoted == Init => Quoted
<1> SUFFICES ASSUME Init  PROVE Quoted  OBVIOUS
<1>1. /\ orders = {} /\ pending = Idle /\ pending.intents = {}
  BY DEF Init, Idle
<1>2. SessionTyped
  <2>1. PICK s \in Sessions : stack = s[1] /\ closeAt = s[2]  BY DEF Init
  <2>2. /\ s[1] \in Strategies \X Wrappers /\ s[2] \in Nat \cup {None}
    BY QuotingAssumption, Zenon DEF Strategies, Wrappers
  <2>3. stack[1] \in Strategies /\ stack[2] \in Wrappers  BY <2>1, <2>2
  <2>4. touch \in TouchSet /\ position \in Int
    BY QuotingAssumption DEF Init, TouchSet
  <2>5. now \in 0..MaxNow  BY QuotingAssumption DEF Init
  <2> QED  BY <2>1, <2>2, <2>3, <2>4, <2>5 DEF SessionTyped
<1>3. OrdersTyped
  <2>1. late = [buy |-> 0, sell |-> 0]  BY DEF Init
  <2>2. late \in [Sides -> Nat] /\ [buy |-> 0, sell |-> 0] \in [Sides -> Nat]
    BY <2>1 DEF Sides
  <2>3. [bid |-> NoPrice, ask |-> NoPrice, bidSize |-> 0, askSize |-> 0] \in TouchSet
    BY DEF TouchSet
  <2>4. Idle \in [intents : SUBSET IntentSet, touch : TouchSet, left : Int, view : Int,
                  missed : [Sides -> Nat]]
    BY <2>2, <2>3, Numbers DEF Idle
  <2> QED  BY <1>1, <2>2, <2>4 DEF OrdersTyped
<1>4. OneOfASide  BY <1>1 DEF OneOfASide, OneEach
<1> QED  BY <1>1, <1>2, <1>3, <1>4 DEF Quoted, Typed, Sized, Shrinking, NearTheirTouch

(* What an update keeps, and what it wants to create.                      *)
LEMMA KeptAndCreated ==
  ASSUME Typed, NEW W, OneEach(W)
  PROVE  /\ Kept(W) \subseteq orders /\ Missing(W, Kept(W)) \subseteq W
         /\ OneEach(Kept(W)) /\ OneEach(Missing(W, Kept(W)))
         /\ \A o \in Kept(W), i \in Missing(W, Kept(W)) : o.contract # i.contract
<1>1. Kept(W) \subseteq orders /\ Missing(W, Kept(W)) \subseteq W
  BY DEF Kept, Missing
<1>2. OneEach(Kept(W)) /\ OneEach(Missing(W, Kept(W)))
  BY <1>1 DEF Typed, OneOfASide, OneEach
<1>3. ASSUME NEW o \in Kept(W), NEW i \in Missing(W, Kept(W)), o.contract = i.contract
      PROVE  FALSE
  <2>1. PICK j \in W : j.quote = o.quote /\ ~ShouldReplace(o, j, now, o.at)
    BY DEF Kept
  <2>2. o.contract = j.contract  BY <2>1, Zenon DEF ShouldReplace, SameQuoteContract
  <2>3. i \in W /\ o.quote # i.quote  BY DEF Missing
  <2>4. i = j  BY <1>3, <2>2, <2>3 DEF OneEach
  <2> QED  BY <2>1, <2>3, <2>4
<1> QED  BY <1>1, <1>2, <1>3

(* By the portfolio or by the exchange: the difference is unheard of.      *)
LEMMA ByTheExchange ==
  ASSUME Typed, NEW a \in Sides
  PROVE  /\ Unseen(a) \in Nat
         /\ Signed(a, position) <= Signed(a, View) + Unseen(a)
         /\ Unseen("buy") = 0 /\ Unseen("sell") = 0 => View = position
<1>1. /\ Unseen("buy") \in Nat /\ Unseen("sell") \in Nat /\ position \in Int
      /\ View = position - Unseen("buy") + Unseen("sell")
  BY ViewIsInt DEF Typed, SessionTyped
<1>2. CASE a = "buy"
  <2>1. Signed(a, position) = position /\ Signed(a, View) = View  BY <1>2 DEF Signed
  <2> QED  BY <1>1, <1>2, <2>1
<1>3. CASE a # "buy"
  <2>1. Signed(a, position) = -position /\ Signed(a, View) = -View  BY <1>3 DEF Signed
  <2>2. a = "sell"  BY <1>3 DEF Sides
  <2> QED  BY <1>1, <2>1, <2>2
<1> QED  BY <1>2, <1>3

-----------------------------------------------------------------------------
LEMMA OrderFields ==
  ASSUME NEW o \in OrderSet
  PROVE  /\ o.contract \in Sides /\ o.price \in Int /\ o.rem \in Nat /\ o.filled \in Nat
         /\ o.missed \in [Sides -> Nat] /\ o.missed[o.contract] \in Nat
BY DEF OrderSet

LEMMA UpdateQuoted ==
  ASSUME Quoted, NEW e \in Estimates, Update(e)
  PROVE  Quoted'
<1> DEFINE W      == Wanted(Observed, e)
           kept   == Kept(W)
           create == Missing(W, kept)
<1>1. /\ pending = Idle
      /\ orders' = kept
      /\ late' = [a \in {"buy", "sell"} |-> late[a] + Filled(orders \ kept, a)]
      /\ pending' = IF create = {} THEN Idle
                    ELSE [intents |-> create, touch |-> touch, left |-> Left, view |-> View,
                          missed |-> [buy |-> Unseen("buy"), sell |-> Unseen("sell")]]
      /\ UNCHANGED <<stack, closeAt, now, touch, position>>
  BY Zenon DEF Update
<1>2. Typed  BY DEF Quoted
<1>3. /\ Sound(W, touch, View, Moved)
      /\ stack[1] = "horizon" /\ IsReduceOnly(Left) => Reducing(W, View)
  BY <1>2, WantedIsSound
<1>4. /\ kept \subseteq orders /\ create \subseteq W
      /\ OneEach(kept) /\ OneEach(create)
      /\ \A o \in kept, i \in create : o.contract # i.contract
  BY <1>2, <1>3, KeptAndCreated DEF Sound
<1> HIDE DEF W, kept, create
<1>5. pending'.intents = create  BY <1>1 DEF Idle
<1>6. create # {} => /\ pending'.touch = touch /\ pending'.left = Left
                    /\ pending'.missed = [buy |-> Unseen("buy"), sell |-> Unseen("sell")]
  BY <1>1
<1>7. Unseen("buy") \in Nat /\ Unseen("sell") \in Nat /\ View \in Int
  BY <1>2, ViewIsInt
<1>8. orders \in SUBSET OrderSet /\ OneEach(orders) /\ late \in [Sides -> Nat]
      /\ W \in SUBSET IntentSet
  BY <1>2, <1>3 DEF Typed, OrdersTyped, OneOfASide, Sound
<1>9. SessionTyped'
  BY <1>1, <1>2 DEF Typed, SessionTyped
<1>10. OrdersTyped'
  <2>1. orders' \in SUBSET OrderSet /\ \A o \in orders' : o.filled <= o.rem
    BY <1>1, <1>2, <1>4 DEF Typed, OrdersTyped
  <2>2. late' \in [Sides -> Nat]
    <3>1. OneEach(orders \ kept) /\ orders \ kept \in SUBSET OrderSet
      BY <1>8 DEF OneEach
    <3>2. \A a \in Sides : Filled(orders \ kept, a) \in Nat  BY <3>1, FilledIsNat
    <3>3. \A a \in Sides : late[a] + Filled(orders \ kept, a) \in Nat
      <4>1. \A x, y \in Nat : x + y \in Nat  OBVIOUS
      <4>2. \A a \in Sides : late[a] \in Nat  BY <1>8
      <4> QED  BY <3>2, <4>1, <4>2, Zenon
    <3>4. late' = [a \in Sides |-> late[a] + Filled(orders \ kept, a)]
      BY <1>1, Zenon DEF Sides
    <3> QED  BY <3>3, <3>4
  <2>3. pending' \in [intents : SUBSET IntentSet, touch : TouchSet, left : Int, view : Int,
                      missed : [Sides -> Nat]]
    <3>1. CASE create = {}
      BY <1>1, <1>2, <3>1 DEF Typed, OrdersTyped
    <3>2. CASE create # {}
      <4>1. [buy |-> Unseen("buy"), sell |-> Unseen("sell")] \in [Sides -> Nat]
        BY <1>7 DEF Sides
      <4>2. Left \in Int /\ touch \in TouchSet  BY <1>2, LeftIsInt DEF Typed, SessionTyped
      <4>3. create \in SUBSET IntentSet  BY <1>4, <1>8
      <4>4. pending' = [intents |-> create, touch |-> touch, left |-> Left, view |-> View,
                        missed |-> [buy |-> Unseen("buy"), sell |-> Unseen("sell")]]
        BY <1>1, <3>2
      <4> QED  BY <1>7, <4>1, <4>2, <4>3, <4>4, Zenon
    <3> QED  BY <3>1, <3>2
  <2> QED  BY <2>1, <2>2, <2>3 DEF OrdersTyped
<1>11. OneOfASide'
  BY <1>1, <1>4, <1>5 DEF OneOfASide, OneEach
<1>12. ASSUME NEW i \in create
       PROVE  /\ i \in IntentSet /\ i \in W /\ i.contract \in Sides
              /\ pending'.missed[i.contract] = Unseen(i.contract)
  <2>1. i \in IntentSet /\ i \in W  BY <1>4, <1>8
  <2>2. i.contract \in Sides  BY <2>1 DEF IntentSet
  <2>3. create # {}  OBVIOUS
  <2>4. pending'.missed = [buy |-> Unseen("buy"), sell |-> Unseen("sell")]  BY <1>6, <2>3
  <2> HIDE DEF IntentSet
  <2>5. pending'.missed["buy"] = Unseen("buy") /\ pending'.missed["sell"] = Unseen("sell")
    BY <2>4
  <2>6. i.contract = "buy" \/ i.contract = "sell"  BY <2>2 DEF Sides
  <2> QED  BY <2>1, <2>2, <2>5, <2>6, Zenon
<1>13. Sized'
  <2>1. \A o \in orders' : Signed(o.contract, position) + (o.rem - o.filled)
                              <= MaxPosition + o.missed[o.contract]
    BY <1>1, <1>4 DEF Quoted, Sized
  <2>2. ASSUME NEW i \in create
        PROVE  Signed(i.contract, position) + i.count <= MaxPosition + pending'.missed[i.contract]
    <3>1. Signed(i.contract, View) + i.count <= MaxPosition
      BY <1>3, <1>12 DEF Sound, Fits
    <3>2. /\ Unseen(i.contract) \in Nat
          /\ Signed(i.contract, position) <= Signed(i.contract, View) + Unseen(i.contract)
      BY <1>2, <1>12, ByTheExchange
    <3>3. /\ i.count \in Nat /\ MaxPosition \in Nat /\ Signed(i.contract, View) \in Int
          /\ Signed(i.contract, position) \in Int
      BY <1>2, <1>7, <1>12, SignedIsInt, Numbers DEF IntentSet, Typed, SessionTyped
    <3>4. Signed(i.contract, position) + i.count <= MaxPosition + Unseen(i.contract)
      BY <3>1, <3>2, <3>3
    <3> QED  BY <1>12, <3>4
  <2> QED  BY <1>1, <1>5, <2>1, <2>2 DEF Sized
<1>14. Shrinking'
  <2>1. stack' = stack /\ position' = position  BY <1>1
  <2>2. ASSUME stack[1] = "horizon", NEW i \in create, IsReduceOnly(pending'.left),
               pending'.missed = Nothing
        PROVE  i.count <= Magnitude(position) /\ Signed(i.contract, position) < 0
    <3>1. create # {}  OBVIOUS
    <3>2. IsReduceOnly(Left)  BY <1>6, <2>2, <3>1
    <3>3. Unseen("buy") = 0 /\ Unseen("sell") = 0
      <4>1. [buy |-> Unseen("buy"), sell |-> Unseen("sell")] = [buy |-> 0, sell |-> 0]
        BY <1>6, <2>2, <3>1, Zenon DEF Nothing
      <4> QED  BY <4>1
    <3>4. "buy" \in Sides  BY DEF Sides
    <3>5. View = position  BY <1>2, <3>3, <3>4, ByTheExchange
    <3>6. i.count <= Magnitude(View) /\ Signed(i.contract, View) < 0
      BY <1>3, <1>12, <2>2, <3>2 DEF Reducing
    <3> QED  BY <3>5, <3>6
  <2>3. stack[1] = "horizon" =>
          \A o \in orders' : IsReduceOnly(o.left) /\ o.missed = Nothing =>
            /\ o.rem - o.filled <= Magnitude(position)
            /\ o.rem > o.filled => Signed(o.contract, position) < 0
    BY <1>1, <1>4 DEF Quoted, Shrinking
  <2> QED  BY <1>5, <2>1, <2>2, <2>3 DEF Shrinking
<1>15. NearTheirTouch'
  <2>1. ASSUME NEW i \in create, i.quote \in Sides
        PROVE  WithinReach(i, pending'.touch, Moved)
    <3>1. WithinReach(i, touch, Moved)  BY <1>3, <1>12, <2>1 DEF Sound
    <3>2. pending'.touch = touch  BY <1>6
    <3> QED  BY <3>1, <3>2
  <2>2. Moved' <=> Moved  BY <1>1 DEF Moved
  <2>3. ASSUME NEW i \in create, i.quote \in Sides
        PROVE  WithinReach(i, pending.touch, Moved)'
    BY <2>1, <2>2, <2>3, Zenon DEF WithinReach, OnItsSide, AwayFrom
  <2> QED  BY <1>5, <2>3 DEF NearTheirTouch
<1> QED  BY <1>9, <1>10, <1>11, <1>13, <1>14, <1>15 DEF Quoted, Typed

LEMMA PlaceQuoted ==
  ASSUME Quoted, Place
  PROVE  Quoted'
<1> DEFINE created == pending.intents \ {i \in pending.intents : Crosses(i)}
           New == {OrderOf(i, pending) : i \in created}
<1>1. /\ orders' = orders \cup New
      /\ pending' = Idle
      /\ UNCHANGED <<stack, closeAt, now, touch, position, late>>
  BY Zenon DEF Place
<1>2. created \subseteq pending.intents  OBVIOUS
<1> HIDE DEF created
<1>3. pending'.intents = {}  BY <1>1 DEF Idle
<1>4. /\ pending.intents \in SUBSET IntentSet /\ pending.missed \in [Sides -> Nat]
      /\ pending.left \in Int /\ now \in Int
  BY QuotingAssumption DEF Quoted, Typed, OrdersTyped, SessionTyped
<1>5. ASSUME NEW i \in created
      PROVE  LET o == OrderOf(i, pending)
             IN  /\ o \in OrderSet
                 /\ o.contract = i.contract /\ o.rem = i.count /\ o.filled = 0
                 /\ o.missed = pending.missed /\ o.left = pending.left
  <2> DEFINE o == OrderOf(i, pending)
  <2>1. /\ o.contract = i.contract /\ o.rem = i.count /\ o.filled = 0
        /\ o.missed = pending.missed /\ o.left = pending.left
    BY DEF OrderOf
  <2>2. i \in IntentSet  BY <1>2, <1>4
  <2>3. /\ i.quote \in Names /\ i.ticker \in {"M"} /\ i.contract \in Sides
        /\ i.price \in Int /\ i.count \in Nat
    BY <2>2 DEF IntentSet
  <2>4. 0 \in Nat  OBVIOUS
  <2>5. o \in OrderSet  BY <1>4, <2>3, <2>4, Zenon DEF OrderOf, OrderSet
  <2> QED  BY <2>1, <2>5
<1>6. ASSUME NEW o \in New
      PROVE  /\ o \in OrderSet
             /\ \E i \in created : /\ o = OrderOf(i, pending) /\ i \in IntentSet
                                  /\ o.contract = i.contract /\ o.rem = i.count
                                  /\ o.filled = 0 /\ o.missed = pending.missed
                                  /\ o.left = pending.left
  BY <1>2, <1>4, <1>5
<1> HIDE DEF New
<1>7. SessionTyped'  BY <1>1 DEF Quoted, Typed, SessionTyped
<1>8. OrdersTyped'
  <2>1. orders' \in SUBSET OrderSet
    BY <1>1, <1>6 DEF Quoted, Typed, OrdersTyped
  <2>2. \A o \in orders' : o.filled <= o.rem
    <3>1. ASSUME NEW o \in New  PROVE o.filled <= o.rem
      <4>1. PICK i \in created : i \in IntentSet /\ o.rem = i.count /\ o.filled = 0
        BY <1>6
      <4>2. i.count \in Nat  BY <4>1 DEF IntentSet
      <4> QED  BY <4>1, <4>2
    <3> QED  BY <1>1, <3>1 DEF Quoted, Typed, OrdersTyped
  <2>3. late' \in [Sides -> Nat]  BY <1>1 DEF Quoted, Typed, OrdersTyped
  <2>4. pending' \in [intents : SUBSET IntentSet, touch : TouchSet, left : Int, view : Int,
                      missed : [Sides -> Nat]]
    <3>1. [buy |-> 0, sell |-> 0] \in [Sides -> Nat]  BY DEF Sides
    <3>2. [bid |-> NoPrice, ask |-> NoPrice, bidSize |-> 0, askSize |-> 0] \in TouchSet
      BY DEF TouchSet
    <3> QED  BY <1>1, <3>1, <3>2, Numbers DEF Idle
  <2> QED  BY <2>1, <2>2, <2>3, <2>4 DEF OrdersTyped
<1>9. OneOfASide'
  <2>1. OneEach(orders')
    <3> SUFFICES ASSUME NEW x \in orders \cup New, NEW y \in orders \cup New,
                        x.contract = y.contract
                 PROVE  x = y
      BY <1>1 DEF OneEach
    <3>1. /\ OneEach(orders) /\ OneEach(pending.intents)
          /\ \A o \in orders, i \in pending.intents : o.contract # i.contract
      BY DEF Quoted, Typed, OneOfASide
    <3>2. \A o \in New : \E i \in pending.intents : o = OrderOf(i, pending) /\ o.contract = i.contract
      BY <1>2, <1>6
    <3>3. CASE x \in New /\ y \in New
      <4>1. PICK i \in pending.intents : x = OrderOf(i, pending) /\ x.contract = i.contract
        BY <3>2, <3>3
      <4>2. PICK j \in pending.intents : y = OrderOf(j, pending) /\ y.contract = j.contract
        BY <3>2, <3>3
      <4> QED  BY <3>1, <4>1, <4>2 DEF OneEach
    <3>4. CASE x \in New /\ y \notin New
      BY <3>1, <3>2, <3>4
    <3>5. CASE x \notin New /\ y \in New
      BY <3>1, <3>2, <3>5
    <3>6. CASE x \notin New /\ y \notin New
      BY <3>1, <3>6 DEF OneEach
    <3> QED  BY <3>3, <3>4, <3>5, <3>6
  <2> QED  BY <1>3, <2>1 DEF OneOfASide, OneEach
<1>10. Sized'
  <2>1. ASSUME NEW o \in New
        PROVE  Signed(o.contract, position) + (o.rem - o.filled) <= MaxPosition + o.missed[o.contract]
    <3>1. PICK i \in created : /\ i \in IntentSet /\ o.contract = i.contract /\ o.rem = i.count
                               /\ o.filled = 0 /\ o.missed = pending.missed
      BY <1>6
    <3>2. Signed(i.contract, position) + i.count <= MaxPosition + pending.missed[i.contract]
      BY <1>2 DEF Quoted, Sized
    <3>3. i.count \in Nat  BY <3>1 DEF IntentSet
    <3>4. o.rem - o.filled = i.count  BY <3>1, <3>3
    <3> QED  BY <3>1, <3>2, <3>4
  <2> QED  BY <1>1, <1>3, <2>1 DEF Quoted, Sized
<1>11. Shrinking'
  <2>1. ASSUME stack[1] = "horizon", NEW o \in New, IsReduceOnly(o.left), o.missed = Nothing
        PROVE  o.rem - o.filled <= Magnitude(position) /\ Signed(o.contract, position) < 0
    <3>1. PICK i \in created : /\ i \in IntentSet /\ o.contract = i.contract /\ o.rem = i.count
                               /\ o.filled = 0 /\ o.missed = pending.missed
                               /\ o.left = pending.left
      BY <1>6
    <3>2. i.count <= Magnitude(position) /\ Signed(i.contract, position) < 0
      BY <1>2, <2>1, <3>1 DEF Quoted, Shrinking
    <3>3. i.count \in Nat  BY <3>1 DEF IntentSet
    <3>4. o.rem - o.filled = i.count  BY <3>1, <3>3
    <3> QED  BY <3>1, <3>2, <3>4
  <2> QED  BY <1>1, <1>3, <2>1 DEF Quoted, Shrinking
<1>12. NearTheirTouch'  BY <1>3 DEF NearTheirTouch
<1> QED  BY <1>7, <1>8, <1>9, <1>10, <1>11, <1>12 DEF Quoted, Typed

LEMMA MagnitudeOf ==
  ASSUME NEW v \in Int
  PROVE  /\ Magnitude(v) \in Nat
         /\ \A a : Signed(a, v) < 0 => Magnitude(v) = -Signed(a, v)
BY DEF Signed, Magnitude

(* A fill or the news of one changes one order.                            *)
LEMMA OneOrderChanges ==
  ASSUME Quoted, NEW o \in orders, NEW x \in OrderSet, x.filled <= x.rem,
         x.contract = o.contract, x.left = o.left, x.missed = o.missed,
         orders' \subseteq (orders \ {o}) \cup {x},
         UNCHANGED <<stack, closeAt, now, touch, late, pending>>,
         position' \in Int,
         \/ position' = position /\ x.rem - x.filled = o.rem - o.filled
         \/ /\ position' = position + Signed(o.contract, 1)
            /\ x.rem - x.filled = o.rem - o.filled - 1
            /\ o.rem > o.filled
  PROVE  Quoted'
<1>1. /\ orders \in SUBSET OrderSet /\ OneEach(orders) /\ OneEach(pending.intents)
      /\ \A p \in orders, i \in pending.intents : p.contract # i.contract
      /\ position \in Int /\ MaxPosition \in Nat
  BY Numbers DEF Quoted, Typed, SessionTyped, OrdersTyped, OneOfASide
<1>2. SessionTyped' /\ OrdersTyped'
  BY DEF Quoted, Typed, SessionTyped, OrdersTyped
<1>3. OneOfASide'
  BY <1>1 DEF OneOfASide, OneEach
<1>4. ASSUME NEW a \in Sides, a # o.contract
      PROVE  Signed(a, position') <= Signed(a, position) /\ Signed(a, position') \in Int
             /\ Signed(a, position) \in Int
  <2>1. o.contract \in Sides  BY <1>1, OrderFields
  <2>2. a = "buy" => o.contract = "sell"  BY <1>4, <2>1 DEF Sides
  <2>3. a # "buy" => o.contract = "buy"  BY <1>4, <2>1 DEF Sides
  <2>4. CASE a = "buy"
    <3>1. Signed(o.contract, 1) = -1  BY <2>2, <2>4 DEF Signed
    <3>2. Signed(a, position') = position' /\ Signed(a, position) = position  BY <2>4 DEF Signed
    <3> QED  BY <1>1, <3>1, <3>2
  <2>5. CASE a # "buy"
    <3>0. position' = position \/ position' = position + Signed(o.contract, 1)  OBVIOUS
    <3>1. Signed(o.contract, 1) = 1  BY <2>3, <2>5 DEF Signed
    <3>2. Signed(a, position') = -position' /\ Signed(a, position) = -position  BY <2>5 DEF Signed
    <3>3. position <= position'  BY <1>1, <3>0, <3>1
    <3>4. \A m, n \in Int : m <= n => -n <= -m /\ -n \in Int /\ -m \in Int  OBVIOUS
    <3>5. -position' <= -position /\ -position' \in Int /\ -position \in Int
      BY <1>1, <3>3, <3>4, Zenon
    <3> QED  BY <3>2, <3>5
  <2> QED  BY <2>4, <2>5
<1>5. /\ Signed(o.contract, position') + (x.rem - x.filled)
           = Signed(o.contract, position) + (o.rem - o.filled)
      /\ Signed(o.contract, position') \in Int /\ Signed(o.contract, position) \in Int
  <2>1. o.rem \in Nat /\ o.filled \in Nat /\ x.rem \in Nat /\ x.filled \in Nat
    BY <1>1, OrderFields
  <2>2. CASE o.contract = "buy"
    <3>1. /\ Signed(o.contract, 1) = 1 /\ Signed(o.contract, position') = position'
          /\ Signed(o.contract, position) = position
      BY <2>2 DEF Signed
    <3> QED  BY <1>1, <2>1, <3>1
  <2>3. CASE o.contract # "buy"
    <3>1. /\ Signed(o.contract, 1) = -1 /\ Signed(o.contract, position') = -position'
          /\ Signed(o.contract, position) = -position
      BY <2>3 DEF Signed
    <3> QED  BY <1>1, <2>1, <3>1
  <2> QED  BY <2>2, <2>3
<1>6. \A p \in orders : p # o => p.contract # o.contract  BY <1>1 DEF OneEach
<1>7. Sized'
  <2>1. ASSUME NEW p \in orders'
        PROVE  Signed(p.contract, position') + (p.rem - p.filled) <= MaxPosition + p.missed[p.contract]
    <3>1. CASE p = x
      <4>1. Signed(o.contract, position) + (o.rem - o.filled) <= MaxPosition + o.missed[o.contract]
        BY DEF Quoted, Sized
      <4> QED  BY <1>5, <3>1, <4>1
    <3>2. CASE p # x
      <4>1. p \in orders /\ p # o  BY <3>2
      <4>2. p.contract \in Sides /\ p.contract # o.contract
        BY <1>1, <1>6, <4>1, OrderFields
      <4>3. p.rem \in Nat /\ p.filled \in Nat /\ p.missed[p.contract] \in Nat
        BY <1>1, <4>1, OrderFields
      <4>4. Signed(p.contract, position) + (p.rem - p.filled) <= MaxPosition + p.missed[p.contract]
        BY <4>1 DEF Quoted, Sized
      <4>5. /\ Signed(p.contract, position') <= Signed(p.contract, position)
            /\ Signed(p.contract, position') \in Int /\ Signed(p.contract, position) \in Int
        BY <1>4, <4>2
      <4> QED  BY <1>1, <4>3, <4>4, <4>5
    <3> QED  BY <3>1, <3>2
  <2>2. ASSUME NEW i \in pending.intents
        PROVE  Signed(i.contract, position') + i.count <= MaxPosition + pending.missed[i.contract]
    <3>1. i \in IntentSet /\ pending.missed \in [Sides -> Nat]
      BY DEF Quoted, Typed, OrdersTyped
    <3>2. i.contract \in Sides /\ i.count \in Nat /\ i.contract # o.contract
      BY <1>1, <3>1 DEF IntentSet
    <3>3. pending.missed[i.contract] \in Nat  BY <3>1, <3>2
    <3>4. Signed(i.contract, position) + i.count <= MaxPosition + pending.missed[i.contract]
      BY DEF Quoted, Sized
    <3>5. /\ Signed(i.contract, position') <= Signed(i.contract, position)
          /\ Signed(i.contract, position') \in Int /\ Signed(i.contract, position) \in Int
      BY <1>4, <3>2
    <3> QED  BY <1>1, <3>2, <3>3, <3>4, <3>5
  <2> QED  BY <2>1, <2>2 DEF Sized
<1>8. ASSUME NEW a \in Sides
      PROVE  Signed(a, position) < 0 => Magnitude(position) = -Signed(a, position)
  BY <1>1, MagnitudeOf
<1>9. ASSUME NEW a \in Sides
      PROVE  Signed(a, position') < 0 => Magnitude(position') = -Signed(a, position')
  BY MagnitudeOf
<1>10. Magnitude(position) \in Nat /\ Magnitude(position') \in Nat  BY <1>1, MagnitudeOf
<1>11. Shrinking'
  <2>0. o.contract \in Sides /\ o.rem \in Nat /\ o.filled \in Nat /\ x.rem \in Nat
        /\ x.filled \in Nat /\ o.filled <= o.rem
    BY <1>1, OrderFields DEF Quoted, Typed, OrdersTyped
  <2>1. ASSUME stack[1] = "horizon", NEW p \in orders', IsReduceOnly(p.left), p.missed = Nothing
        PROVE  /\ p.rem - p.filled <= Magnitude(position')
               /\ p.rem > p.filled => Signed(p.contract, position') < 0
    <3>1. CASE p = x
      <4>1. /\ o.rem - o.filled <= Magnitude(position)
            /\ o.rem > o.filled => Signed(o.contract, position) < 0
        BY <2>1, <3>1 DEF Quoted, Shrinking
      <4>2. CASE x.rem > x.filled
        <5>1. o.rem > o.filled  BY <2>0, <4>2
        <5>2. Signed(o.contract, position) < 0  BY <4>1, <5>1
        <5>3. Magnitude(position) = -Signed(o.contract, position)  BY <1>8, <2>0, <5>2
        <5>4. Signed(o.contract, position') < 0
          BY <1>5, <2>0, <4>1, <4>2, <5>3
        <5>5. Magnitude(position') = -Signed(o.contract, position')  BY <1>9, <2>0, <5>4
        <5>6. x.rem - x.filled <= Magnitude(position')
          BY <1>5, <2>0, <4>1, <5>3, <5>5
        <5> QED  BY <3>1, <5>4, <5>6
      <4>3. CASE ~(x.rem > x.filled)
        <5>1. x.rem - x.filled <= 0  BY <2>0, <4>3
        <5>2. x.rem - x.filled <= Magnitude(position')  BY <1>10, <2>0, <5>1
        <5> QED  BY <3>1, <4>3, <5>2
      <4> QED  BY <4>2, <4>3
    <3>2. CASE p # x
      <4>1. p \in orders /\ p # o  BY <3>2
      <4>2. /\ p.contract \in Sides /\ p.contract # o.contract
            /\ p.rem \in Nat /\ p.filled \in Nat
        BY <1>1, <1>6, <4>1, OrderFields
      <4>3. /\ p.rem - p.filled <= Magnitude(position)
            /\ p.rem > p.filled => Signed(p.contract, position) < 0
        BY <2>1, <4>1 DEF Quoted, Shrinking
      <4>4. /\ Signed(p.contract, position') <= Signed(p.contract, position)
            /\ Signed(p.contract, position') \in Int /\ Signed(p.contract, position) \in Int
        BY <1>4, <4>2
      <4>5. CASE p.rem > p.filled
        <5>1. Signed(p.contract, position) < 0 /\ Signed(p.contract, position') < 0
          BY <4>3, <4>4, <4>5
        <5>2. /\ Magnitude(position) = -Signed(p.contract, position)
              /\ Magnitude(position') = -Signed(p.contract, position')
          BY <1>8, <1>9, <4>2, <5>1
        <5>3. p.rem - p.filled <= Magnitude(position')
          BY <4>2, <4>3, <4>4, <5>2
        <5> QED  BY <5>1, <5>3
      <4>6. CASE ~(p.rem > p.filled)
        <5>1. p.rem - p.filled <= Magnitude(position')  BY <1>10, <4>2, <4>6
        <5> QED  BY <4>6, <5>1
      <4> QED  BY <4>5, <4>6
    <3> QED  BY <3>1, <3>2
  <2>2. ASSUME stack[1] = "horizon", NEW i \in pending.intents, IsReduceOnly(pending.left),
               pending.missed = Nothing
        PROVE  i.count <= Magnitude(position') /\ Signed(i.contract, position') < 0
    <3>1. i \in IntentSet  BY DEF Quoted, Typed, OrdersTyped
    <3>2. i.contract \in Sides /\ i.count \in Nat /\ i.contract # o.contract
      BY <1>1, <3>1 DEF IntentSet
    <3>3. i.count <= Magnitude(position) /\ Signed(i.contract, position) < 0
      BY <2>2 DEF Quoted, Shrinking
    <3>4. /\ Signed(i.contract, position') <= Signed(i.contract, position)
          /\ Signed(i.contract, position') \in Int /\ Signed(i.contract, position) \in Int
      BY <1>4, <3>2
    <3>5. Signed(i.contract, position') < 0  BY <3>3, <3>4
    <3>6. /\ Magnitude(position) = -Signed(i.contract, position)
          /\ Magnitude(position') = -Signed(i.contract, position')
      BY <1>8, <1>9, <3>2, <3>3, <3>5
    <3> QED  BY <3>2, <3>3, <3>4, <3>5, <3>6
  <2> QED  BY <2>1, <2>2 DEF Shrinking
<1>12. NearTheirTouch'
  <2>1. Moved' <=> Moved  BY DEF Moved
  <2> QED  BY <2>1, Zenon DEF Quoted, NearTheirTouch, WithinReach, OnItsSide, AwayFrom
<1> QED  BY <1>2, <1>3, <1>7, <1>11, <1>12 DEF Quoted, Typed

LEMMA FillQuoted ==
  ASSUME Quoted, NEW o \in orders, Fill(o)
  PROVE  Quoted'
<1> DEFINE x == [o EXCEPT !.filled = @ + 1]
<1>1. o \in OrderSet /\ o.filled <= o.rem /\ position \in Int
  BY DEF Quoted, Typed, SessionTyped, OrdersTyped
<1>2. o.rem \in Nat /\ o.filled \in Nat /\ o.contract \in Sides  BY <1>1, OrderFields
<1>3. o.rem > o.filled  BY DEF Fill
<1>4. /\ x \in OrderSet /\ x.contract = o.contract /\ x.left = o.left /\ x.missed = o.missed
      /\ x.rem = o.rem /\ x.filled = o.filled + 1
  <2>1. o.filled + 1 \in Nat  BY <1>2
  <2> QED  BY <1>1, <2>1 DEF OrderSet
<1>5. /\ orders' = (orders \ {o}) \cup {x}
      /\ position' = position + Signed(o.contract, 1)
      /\ UNCHANGED <<stack, closeAt, now, touch, late, pending>>
  BY DEF Fill
<1> HIDE DEF x
<1>6. Signed(o.contract, 1) \in Int  BY SignedIsInt
<1>7. position' \in Int  BY <1>1, <1>5, <1>6
<1>8. x.filled <= x.rem /\ x.rem - x.filled = o.rem - o.filled - 1  BY <1>2, <1>3, <1>4
<1> QED  BY <1>3, <1>4, <1>5, <1>7, <1>8, OneOrderChanges

LEMMA ReportQuoted ==
  ASSUME Quoted, NEW o \in orders, Report(o)
  PROVE  Quoted'
<1> DEFINE x == [o EXCEPT !.rem = @ - o.filled, !.filled = 0]
<1>1. o \in OrderSet /\ o.filled <= o.rem /\ position \in Int
  BY DEF Quoted, Typed, SessionTyped, OrdersTyped
<1>2. o.rem \in Nat /\ o.filled \in Nat /\ o.contract \in Sides  BY <1>1, OrderFields
<1>4. /\ x \in OrderSet /\ x.contract = o.contract /\ x.left = o.left /\ x.missed = o.missed
      /\ x.rem = o.rem - o.filled /\ x.filled = 0
  <2>1. o.rem - o.filled \in Nat  BY <1>1, <1>2
  <2> QED  BY <1>1, <2>1 DEF OrderSet
<1>5. /\ orders' = (orders \ {o}) \cup (IF o.rem = o.filled THEN {} ELSE {x})
      /\ UNCHANGED <<stack, closeAt, now, touch, position, late, pending>>
  BY DEF Report
<1> HIDE DEF x
<1>6. orders' \subseteq (orders \ {o}) \cup {x}  BY <1>5
<1>7. position' \in Int /\ position' = position  BY <1>1, <1>5
<1>8. x.filled <= x.rem /\ x.rem - x.filled = o.rem - o.filled  BY <1>1, <1>2, <1>4
<1> QED  BY <1>4, <1>5, <1>6, <1>7, <1>8, OneOrderChanges

(* The rest leaves the orders, what is pending and the position alone.     *)
LEMMA OthersQuoted ==
  ASSUME Quoted, UNCHANGED <<stack, closeAt, position, orders, pending>>,
         now' \in 0..MaxNow, touch' \in TouchSet, late' \in [Sides -> Nat]
  PROVE  Quoted'
<1>1. SessionTyped' /\ OrdersTyped' /\ OneOfASide'
  BY DEF Quoted, Typed, SessionTyped, OrdersTyped, OneOfASide
<1>2. Sized' /\ Shrinking'  BY DEF Quoted, Sized, Shrinking
<1>3. NearTheirTouch'
  <2>1. Moved' <=> Moved  BY DEF Moved
  <2> QED  BY <2>1, Zenon DEF Quoted, NearTheirTouch, WithinReach, OnItsSide, AwayFrom
<1> QED  BY <1>1, <1>2, <1>3 DEF Quoted, Typed

LEMMA NextQuoted == Quoted /\ [Next]_vars => Quoted'
<1> SUFFICES ASSUME Quoted, [Next]_vars  PROVE Quoted'  OBVIOUS
<1>0. now \in 0..MaxNow /\ touch \in TouchSet /\ late \in [Sides -> Nat] /\ MaxNow \in Nat
  BY QuotingAssumption DEF Quoted, Typed, SessionTyped, OrdersTyped
<1>1. ASSUME NEW e \in Estimates, Update(e)  PROVE Quoted'  BY <1>1, UpdateQuoted
<1>2. CASE Place  BY <1>2, PlaceQuoted
<1>3. ASSUME NEW o \in orders, Fill(o)  PROVE Quoted'  BY <1>3, FillQuoted
<1>4. ASSUME NEW o \in orders, Report(o)  PROVE Quoted'  BY <1>4, ReportQuoted
<1>5. ASSUME NEW a \in {"buy", "sell"}, ReportLate(a)  PROVE Quoted'
  <2>1. late' \in [Sides -> Nat]  BY <1>0, <1>5 DEF ReportLate, Sides
  <2> QED  BY <1>0, <1>5, <2>1, OthersQuoted DEF ReportLate
<1>6. ASSUME NEW t \in Touches, MarketMoves(t)  PROVE Quoted'
  <2>1. t \in TouchSet  BY QuotingAssumption DEF TouchSet
  <2> QED  BY <1>0, <1>6, <2>1, OthersQuoted DEF MarketMoves
<1>7. CASE Tick
  <2>1. now' \in 0..MaxNow  BY <1>0, <1>7 DEF Tick
  <2> QED  BY <1>0, <1>7, <2>1, OthersQuoted DEF Tick
<1>8. CASE UNCHANGED vars
  BY <1>0, <1>8, OthersQuoted DEF vars
<1> QED  BY <1>1, <1>2, <1>3, <1>4, <1>5, <1>6, <1>7, <1>8 DEF Next

LEMMA QuotedThroughout == Spec => []Quoted
BY InitQuoted, NextQuoted, PTL DEF Spec

-----------------------------------------------------------------------------
LEMMA QuotedBoundsExposure == Quoted => ExposureBounded
<1> SUFFICES ASSUME Quoted  PROVE ExposureBounded  OBVIOUS
<1>1. orders \in SUBSET OrderSet /\ OneEach(orders)
  BY DEF Quoted, Typed, OrdersTyped, OneOfASide
<1>2. WithinUnheard
  <2> SUFFICES ASSUME NEW o \in orders
               PROVE  Signed(o.contract, position) + AtRest(o.contract)
                        <= MaxPosition + o.missed[o.contract]
    BY DEF WithinUnheard
  <2>1. o.rem - o.filled \in Int  BY <1>1, OrderFields
  <2>2. AtRest(o.contract) = o.rem - o.filled  BY <1>1, <2>1, AtRestOfOne DEF OneEach
  <2> QED  BY <2>2 DEF Quoted, Sized
<1>3. ReduceOnlyReduces
  BY DEF Quoted, Shrinking, ReduceOnlyReduces, Nothing
<1> QED  BY <1>2, <1>3 DEF ExposureBounded

(* Whatever the market does, and however late the news of fills is, what a  *)
(* side has at rest takes the position past the limit by no more than the  *)
(* fills unheard of when its order was made; and an order of the horizon   *)
(* strategy's reduce-only phase never takes it past flat.                  *)
THEOREM ExposureStaysBounded == Spec => []ExposureBounded
BY QuotedThroughout, QuotedBoundsExposure, PTL

-----------------------------------------------------------------------------
(* What pays its fee in the smallest size pays it in a size that holds it.  *)
LEMMA ViableGrows ==
  ASSUME NEW price, NEW captured, NEW n \in Int, n >= MinCount,
         Viable(price, captured, MinCount)
  PROVE  Viable(price, captured, n)
<1> DEFINE Sizes(k) == {j \in 1..k : /\ j % CountScale = 0
                                     /\ captured * j >= Required(price, j, FALSE)}
<1>1. \A k : MinimumViableCount(price, captured, k, FALSE)
               = IF captured <= 0 \/ Sizes(k) = {} THEN NoCount
                 ELSE CHOOSE j \in Sizes(k) : \A i \in Sizes(k) : j <= i
  BY Zenon DEF MinimumViableCount
<1>2. \A k : Sizes(k) \subseteq 1..k  OBVIOUS
<1>3. Sizes(MinCount) \subseteq Sizes(n)
  <2>1. 1..MinCount \subseteq 1..n  BY Numbers
  <2> QED  BY <2>1
<1> HIDE DEF Sizes
<1>4. ~(captured <= 0) /\ Sizes(MinCount) # {}
  BY <1>1, Zenon DEF Viable
<1>5. Sizes(n) # {} /\ Sizes(n) \in SUBSET Nat  BY <1>2, <1>3, <1>4
<1>6. \E j \in Sizes(n) : \A i \in Sizes(n) : j <= i  BY <1>5, FirstNumber
<1>7. MinimumViableCount(price, captured, n, FALSE) \in Sizes(n)
  BY <1>1, <1>4, <1>5, <1>6
<1>8. NoCount \notin Sizes(n)  BY <1>2 DEF NoCount
<1> QED  BY <1>7, <1>8 DEF Viable

LEMMA ProductIsNat == \A m, n \in Nat : m * n \in Nat
OBVIOUS

LEMMA RampedIsLeast ==
  ASSUME NEW ceiling \in Int, ceiling >= MinCount, NEW surplus \in Int
  PROVE  Ramped(ceiling, surplus) >= MinCount
<1>1. CASE surplus <= 0  BY <1>1, Numbers DEF Ramped
<1>2. CASE ~(surplus <= 0)
  <2> DEFINE k == Lesser(surplus, EdgeRamp)
             q == Truncate((ceiling - MinCount) * k, EdgeRamp)
  <2>1. k \in Nat  BY <1>2, MakersAssumption DEF Lesser
  <2>2. ceiling - MinCount \in Nat  BY Numbers
  <2> HIDE DEF k
  <2>3. (ceiling - MinCount) * k \in Nat  BY <2>1, <2>2, ProductIsNat
  <2>4. q \in Int /\ q >= 0  BY <2>3, TruncateIsInt, MakersAssumption
  <2>5. Ramped(ceiling, surplus) = MinCount + q  BY <1>2 DEF Ramped, k
  <2> HIDE DEF q
  <2> QED  BY <2>4, <2>5, Numbers
<1> QED  BY <1>1, <1>2

(* Flat, before the reduce-only phase, a side with enough at its touch is   *)
(* never given a size under the smallest.                                  *)
LEMMA CountIsLeast ==
  ASSUME MinCount <= Count, MinCount <= MaxPosition,
         NEW t \in TouchSet, NEW a \in Sides, NEW surplus \in Int, NEW left \in Int,
         NEW e \in Estimates, TopSize(t, a) >= MinTopSize
  PROVE  HorizonCount(t, a, 0, surplus, left, e, FALSE) >= MinCount
<1> DEFINE offered == (TopSize(t, a) * LiquidityBps) \div Bps
           ceiling == Lesser(Count, Greater(MinCount, offered))
           tapered == Tapered(Ramped(ceiling, surplus), left, e)
           desired == Penalized(tapered, a, 0)
           count   == Lesser(Lesser(desired, Room(a, 0, FALSE)), ceiling)
<1>1. TopSize(t, a) \in Nat  BY TouchTypes DEF TopSize
<1>2. TopSize(t, a) * LiquidityBps \in Int  BY <1>1, MakersAssumption
<1>3. offered \in Int  BY <1>2, DivIsInt, MakersAssumption
<1> HIDE DEF offered
<1>4. ceiling \in Int /\ ceiling >= MinCount
  <2>1. Greater(MinCount, offered) \in Int /\ MinCount <= Greater(MinCount, offered)
    BY <1>3, GreaterIsInt, Numbers
  <2>2. MinCount \in Int /\ Count \in Int /\ MinCount <= Count  BY Numbers
  <2> QED  BY <2>1, <2>2, LesserAtLeast, Zenon
<1> HIDE DEF ceiling
<1>5. tapered \in Int /\ tapered >= MinCount
  BY <1>4, RampedIsInt, RampedIsLeast, TaperedIsInt
<1> HIDE DEF tapered
<1>6. Signed(a, 0) = 0
  <2>1. \A n \in Int : n + n = 0 => -n = n  OBVIOUS
  <2>2. 0 \in Int /\ 0 + 0 = 0  OBVIOUS
  <2>3. -0 = 0  BY <2>1, <2>2, Zenon
  <2> QED  BY <2>3, Zenon DEF Signed
<1>7. desired = tapered
  BY <1>5, <1>6 DEF Penalized
<1> HIDE DEF desired
<1>8. Room(a, 0, FALSE) = MaxPosition
  <2>1. Capacity(a, 0) = MaxPosition  BY <1>6, Numbers DEF Capacity
  <2> QED  BY <2>1 DEF Room
<1>9. count >= MinCount
  <2>0. MinCount \in Int /\ MaxPosition \in Int /\ MinCount <= MaxPosition  BY Numbers
  <2>1. Lesser(desired, MaxPosition) \in Int /\ Lesser(desired, MaxPosition) >= MinCount
    BY <1>5, <1>7, <2>0, LesserAtLeast, Zenon
  <2>2. Lesser(Lesser(desired, MaxPosition), ceiling) >= MinCount
    BY <1>4, <2>0, <2>1, LesserAtLeast, Zenon
  <2> QED  BY <1>8, <2>2
<1>10. count \in Int
  <2>1. Lesser(desired, MaxPosition) \in Int  BY <1>5, <1>7, LesserIsInt, Numbers
  <2> QED  BY <1>4, <1>8, <2>1, LesserIsInt
<1>11. HorizonCount(t, a, 0, surplus, left, e, FALSE)
         = IF TopSize(t, a) < MinTopSize \/ count < MinCount THEN 0 ELSE count
  BY Zenon DEF HorizonCount, count, desired, tapered, ceiling, offered
<1> HIDE DEF count
<1>12. ~(TopSize(t, a) < MinTopSize) /\ ~(count < MinCount)
  BY <1>1, <1>9, <1>10, Numbers, MakersAssumption
<1> QED  BY <1>9, <1>11, <1>12

(* The sizes of horizon fit together, and so do its phases.                *)
SizesFit ==
  /\ MinCount <= Count /\ MinCount <= MaxPosition
  /\ StopQuotingSeconds <= ReduceOnlySeconds

LEMMA SilenceHasACause ==
  ASSUME SizesFit, Quoted
  PROVE  SilentForCause
<1> SUFFICES ASSUME NEW e \in Estimates, NEW a \in {"buy", "sell"},
                    LET r == Reservation(touch, 0, e)
                        p == HorizonPrice(touch, a, r, RequiredEdge(touch, e))
                        edge == Signed(a, r - p)
                    IN  /\ stack[1] = "horizon" /\ View = 0 /\ ~IsReduceOnly(Left)
                        /\ TwoSided(touch) /\ touch.ask - touch.bid <= MaxSpread
                        /\ p # NoPrice /\ edge > 0 /\ TopSize(touch, a) >= MinTopSize
                        /\ Viable(p, edge, MinCount)
             PROVE  \E i \in Base(Observed, e) : i.contract = a
  BY Zenon DEF SilentForCause
<1> DEFINE r == Reservation(touch, 0, e)
           need == RequiredEdge(touch, e)
           p == HorizonPrice(touch, a, r, need)
           edge == Signed(a, r - p)
           level == IF a = "buy" THEN touch.bid ELSE touch.ask
           surplus == Signed(a, r - level) - need
           count == HorizonCount(touch, a, 0, surplus, Left, e, FALSE)
<1>1. /\ stack[1] = "horizon" /\ View = 0 /\ ~IsReduceOnly(Left)
      /\ TwoSided(touch) /\ touch.ask - touch.bid <= MaxSpread
      /\ p # NoPrice /\ edge > 0 /\ TopSize(touch, a) >= MinTopSize
      /\ Viable(p, edge, MinCount)
  BY Zenon
<1>2. /\ touch \in TouchSet /\ Left \in Int /\ a \in Sides /\ 0 \in Int
  BY LeftIsInt DEF Quoted, Typed, SessionTyped, Sides
<1>3. r \in Int /\ need \in Int  BY <1>2, ReservationIsInt, RequiredEdgeIsInt
<1> HIDE DEF r, need
<1>4. p \in Int /\ edge \in Int
  <2>1. p \in Grid  BY <1>1, <1>2, <1>3, HorizonPriceIsNear
  <2>2. p \in Int  BY <2>1, Numbers
  <2> HIDE DEF p
  <2>3. r - p \in Int  BY <1>3, <2>2
  <2> QED  BY <2>2, <2>3, SignedIsInt
<1>5. surplus \in Int
  <2>1. level \in Int  BY <1>2, TouchTypes
  <2> HIDE DEF level
  <2>2. r - level \in Int  BY <1>3, <2>1
  <2>3. Signed(a, r - level) \in Int  BY <2>2, SignedIsInt
  <2> QED  BY <1>3, <2>3
<1> HIDE DEF surplus, edge, p
<1>6. count >= MinCount  BY <1>1, <1>2, <1>5, CountIsLeast DEF SizesFit
<1>7. count \in Int
  <2>1. FALSE \in BOOLEAN  OBVIOUS
  <2> QED  BY <1>2, <1>5, <2>1, HorizonCountFits
<1> HIDE DEF count
<1>8. Viable(p, edge, count)  BY <1>1, <1>6, <1>7, ViableGrows
<1>9. ~(p = NoPrice \/ edge <= 0 \/ count <= 0 \/ ~Viable(p, edge, count))
  BY <1>1, <1>4, <1>6, <1>7, <1>8, Numbers
<1>10. BuildQuote(touch, a, 0, Left, e, FALSE)
         = IF p = NoPrice \/ edge <= 0 \/ count <= 0 \/ ~Viable(p, edge, count)
           THEN {} ELSE {Intent(a, a, p, count)}
  BY Zenon DEF BuildQuote, p, edge, count, surplus, level, r, need
<1>11. Intent(a, a, p, count) \in BuildQuote(touch, a, 0, Left, e, FALSE)
  BY <1>9, <1>10
<1>12. ~PastStop(Left)
  BY <1>1, <1>2, MakersAssumption DEF IsReduceOnly, PastStop, SizesFit
<1>13. Base(Observed, e) = Horizon(touch, 0, Left, e)  BY <1>1 DEF Base
<1>14. Horizon(touch, 0, Left, e)
         = UNION {BuildQuote(touch, b, 0, Left, e, IsReduceOnly(Left)) :
                    b \in {c \in {"buy", "sell"} : ~(IsReduceOnly(Left) /\ Increases(c, 0))}}
  <2>1. ~(touch.ask - touch.bid > MaxSpread)
    <3>1. touch.ask - touch.bid \in Int  BY <1>2, TouchTypes
    <3> QED  BY <1>1, <3>1, MakersAssumption
  <2> QED  BY <1>1, <1>12, <2>1, Zenon DEF Horizon
<1>15. IsReduceOnly(Left) = FALSE  BY <1>1, Zenon DEF IsReduceOnly
<1>16. Intent(a, a, p, count) \in Base(Observed, e)
  BY <1>11, <1>13, <1>14, <1>15, Zenon
<1>17. Intent(a, a, p, count).contract = a  BY DEF Intent
<1> QED  BY <1>16, <1>17

LEMMA QuotedKeepsTouch == Quoted => NearItsTouch
<1> SUFFICES ASSUME Quoted  PROVE NearItsTouch  OBVIOUS
<1>1. ASSUME NEW i \in pending.intents, i.quote \in Sides
      PROVE  WithinReach(i, pending.touch, Moved)
  BY <1>1 DEF Quoted, NearTheirTouch
<1> QED
  BY <1>1, Zenon DEF NearItsTouch, WithinReach, OnItsSide, AwayFrom, Moved, Sides

(* A maker's quote keeps to its side of the touch it was made from and near *)
(* it, and where the sizes of horizon and its phases fit together, horizon  *)
(* is silent on a side for a reason only.                                  *)
THEOREM QuotesStaySound ==
  ASSUME SizesFit
  PROVE  Spec => []QuotesAreSound
<1>1. Quoted => QuotesAreSound
  BY QuotedKeepsTouch, SilenceHasACause DEF QuotesAreSound
<1> QED  BY <1>1, QuotedThroughout, PTL

-----------------------------------------------------------------------------
(* What the strategy keeps.                                                *)
SampleSet  == [at : Int, mid : Nat]
SignalSet  == [up : BOOLEAN, at : Int, move : Int]
TrackerSet == [history : Seq(SampleSet), signal : SignalSet]

-----------------------------------------------------------------------------
(* The history the tracker keeps, h, is the end of what was observed: of    *)
(* every second since its first sample the last mid, and its first sample  *)
(* is the first of all or older than the lookback.                         *)
Sorted(h) == \A j, k \in 1..Len(h) : j <= k => h[j].at <= h[k].at

LastOfItsSecond(h, k) == k = Len(h) \/ h[k + 1].at > h[k].at

HistoryOf(h, last, first, mid, n) ==
  /\ h \in Seq(SampleSet) /\ Sorted(h)
  /\ \A k \in 1..Len(h) : h[k].at \in 0..n
  /\ last \in [0..MaxNow -> Nat \cup {NoPrice}]
  /\ first = None <=> Len(h) = 0
  /\ first # None => first \in 0..n
  /\ \A s \in 0..MaxNow : last[s] # NoPrice => first # None /\ first <= s /\ s <= n
  /\ \A s \in 0..MaxNow : Len(h) > 0 /\ last[s] # NoPrice /\ h[1].at <= s
                           => \E k \in 1..Len(h) : h[k].at = s
  /\ \A k \in 1..Len(h) : LastOfItsSecond(h, k) => last[h[k].at] = h[k].mid
  /\ Len(h) > 0 => (h[1].at = first /\ h[1].mid = mid) \/ h[1].at < n - Lookback

(* What a history that has just grown still knows: since when a mid has    *)
(* been standing, and which one stood before the lookback began.           *)
Recalls(kept, last, first, mid, n) ==
  LET before == {s \in 0..MaxNow : s < n - Lookback /\ last[s] # NoPrice}
  IN  /\ Len(kept) \in Nat /\ kept[1] \in SampleSet
      /\ first = None => Len(kept) = 1
      /\ first # None =>
           /\ Len(kept) >= 2
           /\ kept[1].at = IF before = {} THEN first ELSE Highest(before)
           /\ kept[1].mid = IF before = {} THEN mid ELSE last[Highest(before)]

LEMMA SecondsAreNumbers ==
  ASSUME NEW n \in 0..MaxNow
  PROVE  n \in Int /\ 0 <= n /\ n <= MaxNow /\ MaxNow \in Nat /\ Lookback \in Nat \ {0}
         /\ n - Lookback \in Int /\ n - Lookback < n
BY QuotingAssumption, GatesAssumption

LEMMA HistoryAges ==
  ASSUME NEW h, NEW last, NEW first, NEW mid, NEW n \in 0..MaxNow, NEW p \in 0..MaxNow, n <= p,
         HistoryOf(h, last, first, mid, n)
  PROVE  HistoryOf(h, last, first, mid, p)
<1>1. n \in Int /\ p \in Int /\ Lookback \in Nat  BY SecondsAreNumbers
<1>2. \A s \in 0..n : s \in 0..p  BY <1>1
<1>3. h \in Seq(SampleSet) /\ Len(h) \in Nat  BY DEF HistoryOf
<1>4. ASSUME Len(h) > 0, h[1].at < n - Lookback  PROVE h[1].at < p - Lookback
  <2>1. 1 \in 1..Len(h)  BY <1>3, <1>4
  <2>2. h[1].at \in 0..n  BY <2>1 DEF HistoryOf
  <2> QED  BY <1>1, <1>4, <2>2
<1>5. \A k \in 1..Len(h) : h[k].at \in 0..p  BY <1>2 DEF HistoryOf
<1>6. first # None => first \in 0..p  BY <1>2 DEF HistoryOf
<1>7. \A s \in 0..MaxNow : last[s] # NoPrice => first # None /\ first <= s /\ s <= p
  <2>1. \A s \in 0..MaxNow : s \in Int  OBVIOUS
  <2> QED  BY <1>1, <2>1 DEF HistoryOf
<1>8. Len(h) > 0 => (h[1].at = first /\ h[1].mid = mid) \/ h[1].at < p - Lookback
  BY <1>4 DEF HistoryOf
<1> QED  BY <1>5, <1>6, <1>7, <1>8 DEF HistoryOf

(* The first sample kept is the last that is older than the cutoff, or the  *)
(* first there is.                                                         *)
LEMMA FirstKeptIs ==
  ASSUME NEW all \in Seq(SampleSet), Len(all) > 0, NEW c \in Int
  PROVE  /\ FirstKept(all, c) \in 1..Len(all)
         /\ FirstKept(all, c) = Len(all) \/ all[FirstKept(all, c) + 1].at >= c
         /\ \A j \in 2..FirstKept(all, c) : all[j].at < c
<1> DEFINE L == Len(all)
           S == {k \in 1..L : k = L \/ all[k + 1].at >= c}
           Good(k) == /\ k = L \/ all[k + 1].at >= c
                      /\ \A j \in 2..k : all[j].at < c
<1>0. \A j \in 1..L : all[j] \in SampleSet  OBVIOUS
<1>1. L \in Nat /\ L > 0 /\ \A j \in 1..L : all[j].at \in Int  BY <1>0 DEF SampleSet
<1> HIDE DEF L
<1>2. L \in S /\ S \in SUBSET Nat  BY <1>1
<1>3. PICK k \in S : \A i \in S : k <= i  BY <1>2, FirstNumber
<1>4. ASSUME NEW j \in 2..k  PROVE all[j].at < c
  <2>1. j - 1 \in 1..L /\ j \in 1..L /\ j - 1 < k /\ (j - 1) + 1 = j  BY <1>1, <1>3
  <2>2. j - 1 \notin S  BY <1>2, <1>3, <2>1
  <2>3. ~(all[j].at >= c)  BY <2>1, <2>2
  <2> QED  BY <1>1, <2>1, <2>3
<1>5. k \in 1..L /\ Good(k)  BY <1>3, <1>4
<1>6. FirstKept(all, c) = CHOOSE i \in 1..L : Good(i)
  BY Zenon DEF FirstKept, L
<1>7. FirstKept(all, c) \in 1..L /\ Good(FirstKept(all, c))
  <2> HIDE DEF Good
  <2> QED  BY <1>5, <1>6
<1> QED  BY <1>7 DEF L

(* One more mid is observed.                                               *)
LEMMA ObservedHistory ==
  ASSUME NEW h, NEW last, NEW first, NEW mid, NEW n \in 0..MaxNow, NEW m \in Nat,
         HistoryOf(h, last, first, mid, n)
  PROVE  LET all  == Append(h, [at |-> n, mid |-> m])
             k    == FirstKept(all, n - Lookback)
             kept == SubSeq(all, k, Len(all))
         IN  /\ HistoryOf(kept, [last EXCEPT ![n] = m], IF first = None THEN n ELSE first,
                          IF first = None THEN m ELSE mid, n)
             /\ Recalls(kept, last, first, mid, n)
<1> DEFINE all  == Append(h, [at |-> n, mid |-> m])
           c    == n - Lookback
           k    == FirstKept(all, c)
           L    == Len(h)
           kept == SubSeq(all, k, Len(all))
           K    == Len(kept)
           last2 == [last EXCEPT ![n] = m]
           first2 == IF first = None THEN n ELSE first
           mid2   == IF first = None THEN m ELSE mid
           before == {s \in 0..MaxNow : s < c /\ last[s] # NoPrice}
<1>1. n \in Int /\ 0 <= n /\ n <= MaxNow /\ MaxNow \in Nat /\ c \in Int /\ c < n
  BY SecondsAreNumbers
<1>2. h \in Seq(SampleSet) /\ L \in Nat /\ \A j \in 1..L : h[j] \in SampleSet
  BY DEF HistoryOf
<1>3. [at |-> n, mid |-> m] \in SampleSet  BY <1>1 DEF SampleSet
<1>4. /\ all \in Seq(SampleSet) /\ Len(all) = L + 1
      /\ \A j \in 1..L : all[j] = h[j]
      /\ all[L + 1] = [at |-> n, mid |-> m]
  BY <1>2, <1>3
<1>5. all[L + 1].at = n /\ all[L + 1].mid = m  BY <1>4
<1> HIDE DEF all
<1>6. /\ k \in 1..(L + 1) /\ k \in Int
      /\ k = L + 1 \/ all[k + 1].at >= c
      /\ \A j \in 2..k : all[j].at < c
  <2>1. Len(all) > 0  BY <1>2, <1>4
  <2> HIDE DEF c, L
  <2>2. /\ k \in 1..Len(all)
        /\ k = Len(all) \/ all[k + 1].at >= c
        /\ \A j \in 2..k : all[j].at < c
    BY <1>1, <1>4, <2>1, FirstKeptIs
  <2> HIDE DEF k
  <2>3. Len(all) = L + 1  BY <1>4
  <2>4. k \in 1..(L + 1) /\ k \in Int  BY <1>2, <2>2, <2>3
  <2> QED  BY <2>2, <2>3, <2>4
<1> HIDE DEF k
<1>7. /\ kept \in Seq(SampleSet) /\ K = (L + 1) - k + 1 /\ K \in Nat /\ K > 0
      /\ \A j \in 1..K : kept[j] = all[k + j - 1]
  <2>1. \A i \in k..(L + 1) : i \in 1..(L + 1)  BY <1>2, <1>6
  <2>2. \A i \in 1..(L + 1) : all[i] \in SampleSet  BY <1>4
  <2>3. L + 1 \in Int /\ k <= L + 1  BY <1>2, <1>6
  <2>4. /\ SubSeq(all, k, L + 1) \in Seq(SampleSet)
        /\ Len(SubSeq(all, k, L + 1)) = IF k <= L + 1 THEN (L + 1) - k + 1 ELSE 0
        /\ \A i \in 1..((L + 1) - k + 1) : SubSeq(all, k, L + 1)[i] = all[k + i - 1]
    BY <1>6, <2>1, <2>2, <2>3, SubSeqProperties
  <2>5. kept = SubSeq(all, k, L + 1)  BY <1>4
  <2> HIDE DEF kept, L
  <2>6. K = (L + 1) - k + 1 /\ kept \in Seq(SampleSet)  BY <2>3, <2>4, <2>5
  <2>7. \A j \in 1..K : kept[j] = all[k + j - 1]  BY <2>4, <2>5, <2>6
  <2> HIDE DEF K
  <2>8. K \in Nat /\ K > 0  BY <1>2, <1>6, <2>3, <2>6
  <2> QED  BY <2>6, <2>7, <2>8
<1> HIDE DEF kept
<1>8. \A j \in 1..(L + 1) : /\ all[j].at \in Int /\ all[j].at \in 0..n /\ all[j].at \in 0..MaxNow
                            /\ all[j].mid \in Nat
  <2>1. \A j \in 1..L : h[j].at \in 0..n  BY DEF HistoryOf
  <2>2. \A j \in 1..L : all[j].at \in 0..n /\ all[j].mid \in Nat  BY <1>2, <1>4, <2>1 DEF SampleSet
  <2>3. n \in 0..n  BY <1>1
  <2>4. \A j \in 1..(L + 1) : j \in 1..L \/ j = L + 1  BY <1>2
  <2>5. \A s \in 0..n : s \in Int /\ s \in 0..MaxNow  BY <1>1
  <2> QED  BY <1>5, <2>2, <2>3, <2>4, <2>5
<1>9. \A i, j \in 1..(L + 1) : i <= j => all[i].at <= all[j].at
  <2> SUFFICES ASSUME NEW i \in 1..(L + 1), NEW j \in 1..(L + 1), i <= j
               PROVE  all[i].at <= all[j].at
    OBVIOUS
  <2>1. CASE j = L + 1
    <3>1. all[i].at \in 0..n  BY <1>8
    <3> QED  BY <1>1, <1>5, <2>1, <3>1
  <2>2. CASE j # L + 1
    <3>1. i \in 1..L /\ j \in 1..L  BY <1>2, <2>2
    <3>2. h[i].at <= h[j].at  BY <1>2, <3>1 DEF HistoryOf, Sorted
    <3> QED  BY <1>4, <3>1, <3>2
  <2> QED  BY <2>1, <2>2
<1>10. first = None <=> L = 0  BY DEF HistoryOf
<1>11. L > 0 => k <= L
  <2> SUFFICES ASSUME L > 0, k = L + 1  PROVE FALSE  BY <1>2, <1>6
  <2>1. k \in 2..k  BY <1>2, <1>6
  <2>2. n < c  BY <1>5, <1>6, <2>1
  <2> QED  BY <1>1, <2>2
<1>12. first # None => first \in 0..n /\ first \in Int  BY <1>1 DEF HistoryOf
<1>13. /\ last \in [0..MaxNow -> Nat \cup {NoPrice}]
       /\ \A s \in 0..MaxNow : last[s] # NoPrice => first # None /\ first <= s /\ s <= n
       /\ \A s \in 0..MaxNow : L > 0 /\ last[s] # NoPrice /\ h[1].at <= s
                               => \E j \in 1..L : h[j].at = s
       /\ \A j \in 1..L : LastOfItsSecond(h, j) => last[h[j].at] = h[j].mid
       /\ L > 0 => (h[1].at = first /\ h[1].mid = mid) \/ h[1].at < c
  BY DEF HistoryOf
<1>14. n \in 0..MaxNow /\ last2[n] = m /\ \A s \in 0..MaxNow : s # n => last2[s] = last[s]
  BY <1>13
<1>15. last2 \in [0..MaxNow -> Nat \cup {NoPrice}]  BY <1>13
<1> HIDE DEF last2, L, K, c
<1>16. HistoryOf(kept, last2, first2, mid2, n)
  <2>1. Sorted(kept)
    <3> SUFFICES ASSUME NEW i \in 1..K, NEW j \in 1..K, i <= j  PROVE kept[i].at <= kept[j].at
      BY DEF Sorted, K
    <3>1. /\ k + i - 1 \in 1..(L + 1) /\ k + j - 1 \in 1..(L + 1) /\ k + i - 1 <= k + j - 1
      BY <1>2, <1>6, <1>7
    <3> QED  BY <1>7, <1>9, <3>1
  <2>2. \A j \in 1..K : k + j - 1 \in 1..(L + 1)  BY <1>2, <1>6, <1>7
  <2>3. \A j \in 1..K : kept[j].at \in 0..n  BY <1>7, <1>8, <2>2
  <2>4. first2 # None /\ first2 \in 0..n /\ first2 \in Int
    BY <1>1, <1>12, Numbers DEF None
  <2>5. ASSUME NEW s \in 0..MaxNow, last2[s] # NoPrice  PROVE first2 <= s /\ s <= n
    <3>1. CASE s = n  BY <1>1, <2>4, <3>1
    <3>2. CASE s # n
      <4>1. last[s] # NoPrice  BY <1>14, <2>5, <3>2
      <4> QED  BY <1>13, <4>1
    <3> QED  BY <3>1, <3>2
  <2>6. ASSUME NEW s \in 0..MaxNow, last2[s] # NoPrice, kept[1].at <= s
        PROVE  \E j \in 1..K : kept[j].at = s
    <3>1. CASE s = n
      <4>1. K \in 1..K /\ k + K - 1 = L + 1  BY <1>2, <1>6, <1>7
      <4>2. kept[K] = all[L + 1]  BY <1>7, <4>1
      <4> QED  BY <1>5, <3>1, <4>1, <4>2
    <3>2. CASE s # n
      <4>1. last[s] # NoPrice  BY <1>14, <2>6, <3>2
      <4>2. L > 0  BY <1>2, <1>10, <1>13, <4>1
      <4>3. k \in 1..L /\ 1 \in 1..L /\ 1 <= k  BY <1>2, <1>6, <1>11, <4>2
      <4>4. 1 \in 1..K /\ k + 1 - 1 = k  BY <1>6, <1>7
      <4>5. kept[1] = h[k]  BY <1>4, <1>7, <4>3, <4>4
      <4>6. h[1].at <= h[k].at  BY <1>2, <4>3 DEF HistoryOf, Sorted, L
      <4>a. 1 \in 1..(L + 1) /\ k \in 1..(L + 1)  BY <1>2, <1>6
      <4>7. h[1].at \in Int /\ h[k].at \in Int  BY <1>4, <1>8, <4>3, <4>a
      <4>8. h[1].at <= s  BY <2>6, <4>5, <4>6, <4>7
      <4>9. PICK i \in 1..L : h[i].at = s  BY <1>13, <4>1, <4>2, <4>8
      <4>10. CASE i >= k
        <5>1. i - k + 1 \in 1..K /\ k + (i - k + 1) - 1 = i  BY <1>2, <1>6, <1>7, <4>10
        <5>2. kept[i - k + 1] = h[i]  BY <1>4, <1>7, <5>1
        <5> QED  BY <4>9, <5>1, <5>2
      <4>11. CASE ~(i >= k)
        <5>1. h[i].at <= h[k].at
          BY <1>2, <4>3, <4>11 DEF HistoryOf, Sorted, L
        <5>2. h[k].at = s  BY <2>6, <4>5, <4>7, <4>9, <5>1
        <5> QED  BY <4>4, <4>5, <5>2
      <4> QED  BY <4>10, <4>11
    <3> QED  BY <3>1, <3>2
  <2>7. ASSUME NEW j \in 1..K, LastOfItsSecond(kept, j)
        PROVE  last2[kept[j].at] = kept[j].mid
    <3> DEFINE i == k + j - 1
    <3>1. i \in 1..(L + 1) /\ kept[j] = all[i]  BY <1>7, <2>2
    <3>2. CASE i = L + 1
      BY <1>5, <1>14, <3>1, <3>2
    <3>3. CASE i # L + 1
      <4>1. i \in 1..L /\ all[i] = h[i]  BY <1>2, <1>4, <3>1, <3>3
      <4>0. k + j - 1 # L + 1 /\ k + j - 1 \in 1..(L + 1)  BY <3>1, <3>3
      <4>2. j # K /\ j + 1 \in 1..K /\ k + (j + 1) - 1 = k + j - 1 + 1
        BY <1>2, <1>6, <1>7, <4>0
      <4>b. kept[j + 1] = all[k + (j + 1) - 1]  BY <1>7, <4>2
      <4>3. kept[j + 1] = all[i + 1]  BY <4>2, <4>b, Zenon
      <4>4. all[i + 1].at > all[i].at
        BY <2>7, <3>1, <4>2, <4>3 DEF LastOfItsSecond, K
      <4> HIDE DEF i
      <4>5. LastOfItsSecond(h, i)
        <5>1. CASE i = L  BY <5>1 DEF LastOfItsSecond, L
        <5>2. CASE i # L
          <6>1. i + 1 \in 1..L  BY <1>2, <4>1, <5>2
          <6> QED  BY <1>4, <4>1, <4>4, <6>1 DEF LastOfItsSecond
        <5> QED  BY <5>1, <5>2
      <4>6. last[h[i].at] = h[i].mid  BY <1>13, <4>1, <4>5
      <4>7. h[i].at # n /\ h[i].at \in 0..MaxNow
        <5>1. i + 1 \in 1..(L + 1)  BY <1>2, <4>1
        <5>2. all[i + 1].at \in 0..n /\ all[i + 1].at \in Int  BY <1>8, <5>1
        <5>3. all[i].at \in Int /\ all[i].at \in 0..MaxNow  BY <1>8, <3>1
        <5> QED  BY <1>1, <4>1, <4>4, <5>2, <5>3
      <4> QED  BY <1>14, <3>1, <4>1, <4>6, <4>7
    <3> QED  BY <3>2, <3>3
  <2>8. (kept[1].at = first2 /\ kept[1].mid = mid2) \/ kept[1].at < c
    <3>1. 1 \in 1..K /\ k + 1 - 1 = k  BY <1>6, <1>7
    <3>2. kept[1] = all[k]  BY <1>7, <3>1
    <3>3. CASE k = 1
      <4>1. CASE L = 0  BY <1>5, <1>10, <3>2, <3>3, <4>1
      <4>2. CASE L # 0
        <5>1. 1 \in 1..L  BY <1>2, <4>2
        <5> QED  BY <1>2, <1>4, <1>10, <1>13, <3>2, <3>3, <4>2, <5>1
      <4> QED  BY <4>1, <4>2
    <3>4. CASE k # 1
      <4>1. k \in 2..k  BY <1>6, <3>4
      <4> QED  BY <1>6, <3>2, <4>1
    <3> QED  BY <3>3, <3>4
  <2>9. first2 = None <=> K = 0  BY <1>7, <2>4
  <2> HIDE DEF first2, mid2
  <2> QED  BY <1>7, <1>15, <2>1, <2>3, <2>4, <2>5, <2>6, <2>7, <2>8, <2>9 DEF HistoryOf, K, c
<1>17. K \in Nat /\ kept[1] \in SampleSet
  <2>1. 1 \in 1..K  BY <1>7
  <2> QED  BY <1>7, <2>1 DEF K
<1>18. first = None => K = 1
  BY <1>2, <1>6, <1>7, <1>10
<1>19. ASSUME first # None
       PROVE  /\ K >= 2
              /\ kept[1].at = IF before = {} THEN first ELSE Highest(before)
              /\ kept[1].mid = IF before = {} THEN mid ELSE last[Highest(before)]
  <2>1. L > 0  BY <1>2, <1>10, <1>19
  <2>2. k \in 1..L /\ 1 \in 1..L /\ k + 1 \in 1..(L + 1)  BY <1>2, <1>6, <1>11, <2>1
  <2>3. K >= 2  BY <1>2, <1>6, <1>7, <2>2
  <2>4. kept[1] = h[k] /\ all[k] = h[k]
    <3>1. 1 \in 1..K /\ k + 1 - 1 = k  BY <1>6, <1>7
    <3> QED  BY <1>4, <1>7, <2>2, <3>1
  <2>5. all[k + 1].at >= c  BY <1>2, <1>6, <2>2
  <2>6. h[k].at \in 0..MaxNow /\ h[k].at \in Int /\ h[k].mid \in Nat /\ h[1].at \in Int
    BY <1>4, <1>8, <2>2
  <2>7. before \in SUBSET (0..MaxNow)  OBVIOUS
  <2>8. CASE h[k].at < c
    <3>1. LastOfItsSecond(h, k)
      <4>1. CASE k = L  BY <4>1 DEF LastOfItsSecond, L
      <4>2. CASE k # L
        <5>1. k + 1 \in 1..L  BY <1>2, <2>2, <4>2
        <5>2. h[k + 1].at >= c /\ h[k + 1].at \in Int  BY <1>4, <1>8, <2>2, <2>5, <5>1
        <5>3. h[k + 1].at > h[k].at  BY <1>1, <2>6, <2>8, <5>2
        <5> QED  BY <5>3 DEF LastOfItsSecond
      <4> QED  BY <4>1, <4>2
    <3>2. last[h[k].at] = h[k].mid  BY <1>13, <2>2, <3>1
    <3>3. h[k].mid # NoPrice  BY <2>6 DEF NoPrice
    <3>4. h[k].at \in before  BY <2>6, <2>8, <3>2, <3>3
    <3>5. ASSUME NEW s \in before  PROVE s <= h[k].at
      <4> SUFFICES ASSUME s > h[k].at  PROVE FALSE  BY <2>6
      <4>1. s \in 0..MaxNow /\ s < c /\ last[s] # NoPrice /\ s \in Int  OBVIOUS
      <4>2. h[1].at <= h[k].at  BY <1>2, <2>2 DEF HistoryOf, Sorted, L
      <4>3. h[1].at <= s  BY <2>6, <4>1, <4>2
      <4>4. PICK i \in 1..L : h[i].at = s  BY <1>13, <2>1, <4>1, <4>3
      <4>5. i >= k + 1
        <5> SUFFICES ASSUME i <= k  PROVE FALSE  BY <1>2, <1>6
        <5>1. h[i].at <= h[k].at  BY <2>2 DEF HistoryOf, Sorted, L
        <5> QED  BY <2>6, <4>1, <4>4, <5>1
      <4>6. i \in 1..(L + 1) /\ all[i] = h[i]  BY <1>2, <1>4
      <4>7. all[k + 1].at <= all[i].at /\ all[k + 1].at \in Int
        BY <1>8, <1>9, <2>2, <4>5, <4>6
      <4> QED  BY <1>1, <2>5, <4>1, <4>4, <4>6, <4>7
    <3>6. Highest(before) = h[k].at
      <4>1. Highest(before) \in before /\ \A q \in before : q <= Highest(before)
        BY <1>1, <2>7, <3>4, HighestIsLast
      <4>2. Highest(before) <= h[k].at /\ h[k].at <= Highest(before)  BY <3>4, <3>5, <4>1
      <4>3. Highest(before) \in Int  BY <2>7, <4>1
      <4> QED  BY <2>6, <4>2, <4>3
    <3>7. before # {}  BY <3>4
    <3> HIDE DEF before
    <3> QED  BY <2>3, <2>4, <3>2, <3>6, <3>7
  <2>9. CASE ~(h[k].at < c)
    <3>1. k = 1
      <4> SUFFICES ASSUME k # 1  PROVE FALSE  OBVIOUS
      <4>1. k \in 2..k  BY <1>6
      <4> QED  BY <1>6, <2>4, <2>9, <4>1
    <3>2. h[1].at = first /\ h[1].mid = mid  BY <1>13, <2>1, <2>9, <3>1
    <3>3. before = {}
      <4> SUFFICES ASSUME NEW s \in before  PROVE FALSE  OBVIOUS
      <4>1. s < c /\ last[s] # NoPrice /\ s \in 0..MaxNow /\ s \in Int  OBVIOUS
      <4>2. first <= s  BY <1>13, <4>1
      <4> QED  BY <1>1, <2>6, <2>9, <3>1, <3>2, <4>1, <4>2
    <3> HIDE DEF before
    <3> QED  BY <2>3, <2>4, <3>1, <3>2, <3>3
  <2> QED  BY <2>8, <2>9
<1>20. Recalls(kept, last, first, mid, n)
  BY <1>17, <1>18, <1>19, Zenon DEF Recalls, K, c
<1> QED  BY <1>16, <1>20 DEF kept, k, all, c, last2

-----------------------------------------------------------------------------
Remembered ==
  /\ memory = [mids |-> memory.mids, episode |-> memory.episode, tracker |-> memory.tracker]
  /\ memory.tracker \in TrackerSet
  /\ Watching => HistoryOf(memory.tracker.history, seen.last, seen.first, seen.mid, now)

LEMMA MidIsNat == ASSUME NEW t \in TouchSet, TwoSided(t)  PROVE Mid(t) \in Nat
<1>1. t.bid \in Nat /\ t.ask \in Nat  BY TouchTypes
<1> QED  BY <1>1 DEF Mid

LEMMA InitRemembered == Init => Remembered
<1> SUFFICES ASSUME Init  PROVE Remembered  OBVIOUS
<1>1. memory = [mids |-> <<>>, episode |-> NoEpisode, tracker |-> NewTracker]
  BY DEF Init
<1>2. memory = [mids |-> memory.mids, episode |-> memory.episode, tracker |-> memory.tracker]
  BY <1>1
<1>3. NewTracker \in TrackerSet /\ NewTracker.history = <<>>
  <2>1. FALSE \in BOOLEAN /\ -1 \in Int /\ 0 \in Int /\ <<>> \in Seq(SampleSet)  OBVIOUS
  <2>2. NoSignal \in SignalSet  BY <2>1, Zenon DEF NoSignal, SignalSet
  <2>3. NewTracker \in TrackerSet  BY <2>1, <2>2, Zenon DEF NewTracker, TrackerSet
  <2> QED  BY <2>3 DEF NewTracker
<1>4. memory.tracker \in TrackerSet /\ memory.tracker.history = <<>>
  BY <1>1, <1>3
<1>5. /\ seen.last = [s \in 0..MaxNow |-> NoPrice] /\ seen.first = None /\ seen.mid = NoPrice
      /\ now = 0
  BY DEF Init
<1>6. HistoryOf(<<>>, seen.last, seen.first, seen.mid, now)
  <2>1. <<>> \in Seq(SampleSet) /\ Len(<<>>) = 0  OBVIOUS
  <2>2. seen.last \in [0..MaxNow -> Nat \cup {NoPrice}] /\ \A s \in 0..MaxNow : seen.last[s] = NoPrice
    BY <1>5
  <2> QED  BY <1>5, <2>1, <2>2 DEF HistoryOf, Sorted
<1> QED  BY <1>2, <1>4, <1>6 DEF Remembered

LEMMA ObserveIs ==
  ASSUME NEW tracker, NEW m, NEW n
  PROVE  LET all  == Append(tracker.history, [at |-> n, mid |-> m])
             kept == SubSeq(all, FirstKept(all, n - Lookback), Len(all))
             move == m - kept[1].mid
             raised == /\ Len(kept) >= 2 /\ ~InForce(tracker, n)
                       /\ n - kept[1].at >= Lookback /\ Magnitude(move) >= TriggerTicks
         IN  /\ Observe(tracker, m, n)
                   = [history |-> kept,
                      signal |-> IF raised
                                 THEN [up |-> move > 0, at |-> n, move |-> Magnitude(move)]
                                 ELSE tracker.signal]
BY Zenon DEF Observe

(* What the tracker has observed once it has observed the touch.           *)
LEMMA ObservedIs ==
  ASSUME Remembered
  PROVE  /\ Observed = [mids |-> Observed.mids, episode |-> Observed.episode,
                        tracker |-> Observed.tracker]
         /\ Observed.episode = memory.episode
         /\ Observed.tracker = IF Watching /\ TwoSided(touch)
                               THEN Observe(memory.tracker, Mid(touch), now) ELSE memory.tracker
<1>1. memory = [mids |-> memory.mids, episode |-> memory.episode, tracker |-> memory.tracker]
  BY DEF Remembered
<1>2. CASE TwoSided(touch)
  <2> DEFINE mids == IF stack[1] = "adaptive" THEN RecordMid(memory.mids, touch) ELSE memory.mids
             tracker == IF Watching THEN Observe(memory.tracker, Mid(touch), now)
                        ELSE memory.tracker
  <2>1. Observed = [memory EXCEPT !.mids = mids, !.tracker = tracker]
    BY <1>2, Zenon DEF Observed
  <2> HIDE DEF mids, tracker
  <2>2. Observed = [mids |-> mids, episode |-> memory.episode, tracker |-> tracker]
    BY <1>1, <2>1
  <2>3. Observed.mids = mids /\ Observed.episode = memory.episode /\ Observed.tracker = tracker
    BY <2>2
  <2> QED  BY <1>2, <2>2, <2>3 DEF tracker
<1>3. CASE ~TwoSided(touch)
  <2>1. Observed = memory  BY <1>3, Zenon DEF Observed
  <2> QED  BY <1>1, <1>3, <2>1
<1> QED  BY <1>2, <1>3

LEMMA UpdateRemembers ==
  ASSUME Quoted, Remembered, NEW e \in Estimates, Update(e)
  PROVE  Remembered'
<1> DEFINE m == Observed
           episode == IF stack[2] = "obigate" THEN Gate(m, e).episode ELSE m.episode
<1>1. /\ memory' = [m EXCEPT !.episode = episode]
      /\ seen' = IF ~Watching \/ ~TwoSided(touch) THEN seen
                 ELSE [last  |-> [seen.last EXCEPT ![now] = Mid(touch)],
                       first |-> IF seen.first = None THEN now ELSE seen.first,
                       mid   |-> IF seen.first = None THEN Mid(touch) ELSE seen.mid]
      /\ UNCHANGED <<stack, closeAt, now, touch, position>>
  BY Zenon DEF Update
<1>2. /\ m = [mids |-> m.mids, episode |-> m.episode, tracker |-> m.tracker]
      /\ m.episode = memory.episode
      /\ m.tracker = IF Watching /\ TwoSided(touch)
                     THEN Observe(memory.tracker, Mid(touch), now) ELSE memory.tracker
  BY ObservedIs
<1> HIDE DEF m, episode
<1>4. memory' = [mids |-> m.mids, episode |-> episode, tracker |-> m.tracker]
  BY <1>1, <1>2
<1>5. /\ memory' = [mids |-> memory'.mids, episode |-> memory'.episode, tracker |-> memory'.tracker]
      /\ memory'.episode = episode /\ memory'.tracker = m.tracker
  BY <1>4
<1>6. Watching' <=> Watching  BY <1>1 DEF Watching
<1>7. CASE Watching /\ TwoSided(touch)
  <2> DEFINE h == memory.tracker.history
             mid == Mid(touch)
             all == Append(h, [at |-> now, mid |-> mid])
             kept == SubSeq(all, FirstKept(all, now - Lookback), Len(all))
             last2 == [seen.last EXCEPT ![now] = mid]
             first2 == IF seen.first = None THEN now ELSE seen.first
             mid2 == IF seen.first = None THEN mid ELSE seen.mid
  <2>1. touch \in TouchSet /\ now \in 0..MaxNow /\ now \in Int
    BY SecondsAreNumbers DEF Quoted, Typed, SessionTyped
  <2>2. mid \in Nat  BY <1>7, <2>1, MidIsNat
  <2>3. HistoryOf(h, seen.last, seen.first, seen.mid, now)  BY <1>7 DEF Remembered
  <2> HIDE DEF h, mid
  <2>4. HistoryOf(kept, last2, first2, mid2, now) /\ kept[1] \in SampleSet
    BY <2>1, <2>2, <2>3, ObservedHistory DEF Recalls
  <2>5. seen'.last = last2 /\ seen'.first = first2 /\ seen'.mid = mid2
    BY <1>1, <1>7 DEF mid
  <2>6. memory.tracker.signal \in SignalSet  BY DEF Remembered, TrackerSet
  <2>7. m.tracker.history = kept /\ m.tracker \in TrackerSet
    <3> DEFINE move == mid - kept[1].mid
               new == [up |-> move > 0, at |-> now, move |-> Magnitude(move)]
    <3>1. \/ m.tracker = [history |-> kept, signal |-> new]
          \/ m.tracker = [history |-> kept, signal |-> memory.tracker.signal]
      <4>1. m.tracker = Observe(memory.tracker, mid, now)  BY <1>2, <1>7 DEF mid
      <4> QED  BY <4>1, ObserveIs, Zenon DEF h
    <3>2. kept \in Seq(SampleSet)  BY <2>4 DEF HistoryOf
    <3> HIDE DEF kept
    <3>3. kept[1].mid \in Nat  BY <2>4 DEF SampleSet
    <3>4. move \in Int  BY <2>2, <3>3
    <3>5. Magnitude(move) \in Int /\ (move > 0) \in BOOLEAN  BY <3>4, MagnitudeOf
    <3> HIDE DEF move
    <3>6. new \in SignalSet  BY <2>1, <3>5, Zenon DEF SignalSet
    <3> HIDE DEF new
    <3>7. \A s \in SignalSet : /\ [history |-> kept, signal |-> s] \in TrackerSet
                              /\ [history |-> kept, signal |-> s].history = kept
      BY <3>2 DEF TrackerSet
    <3> QED  BY <2>6, <3>1, <3>6, <3>7, Zenon
  <2> HIDE DEF kept, last2, first2, mid2
  <2>8. HistoryOf(memory'.tracker.history, seen'.last, seen'.first, seen'.mid, now')
    BY <1>1, <1>5, <2>4, <2>5, <2>7, Zenon
  <2> QED  BY <1>5, <2>7, <2>8, Zenon DEF Remembered, HistoryOf, Sorted, LastOfItsSecond
<1>8. CASE ~(Watching /\ TwoSided(touch))
  <2>1. m.tracker = memory.tracker  BY <1>2, <1>8
  <2>2. seen' = seen  BY <1>1, <1>8
  <2>3. memory'.tracker = memory.tracker /\ memory'.tracker \in TrackerSet
    BY <1>5, <2>1, Zenon DEF Remembered
  <2>4. Watching => HistoryOf(memory'.tracker.history, seen'.last, seen'.first, seen'.mid, now')
    BY <1>1, <2>2, <2>3, Zenon DEF Remembered
  <2> QED  BY <1>5, <1>6, <2>3, <2>4, Zenon
           DEF Remembered, HistoryOf, Sorted, LastOfItsSecond
<1> QED  BY <1>7, <1>8

LEMMA NextRemembers == Quoted /\ Remembered /\ [Next]_vars => Remembered'
<1> SUFFICES ASSUME Quoted, Remembered, [Next]_vars  PROVE Remembered'  OBVIOUS
<1>1. ASSUME NEW e \in Estimates, Update(e)  PROVE Remembered'  BY <1>1, UpdateRemembers
<1>2. CASE UNCHANGED <<stack, memory, seen, now>>
  <2>1. Watching' <=> Watching  BY <1>2 DEF Watching
  <2> QED  BY <1>2, <2>1, Zenon DEF Remembered, HistoryOf, Sorted, LastOfItsSecond
<1>3. CASE Tick
  <2>1. UNCHANGED <<stack, memory, seen>> /\ now' = now + 1 /\ now < MaxNow
    BY <1>3 DEF Tick
  <2>2. now \in 0..MaxNow /\ MaxNow \in Nat
    BY QuotingAssumption DEF Quoted, Typed, SessionTyped
  <2> DEFINE p == now + 1
  <2>3. p \in 0..MaxNow /\ now <= p  BY <2>1, <2>2
  <2> HIDE DEF p
  <2>4. Watching => HistoryOf(memory.tracker.history, seen.last, seen.first, seen.mid, p)
    BY <2>2, <2>3, HistoryAges DEF Remembered
  <2>5. now' = p  BY <2>1 DEF p
  <2>6. Watching' <=> Watching  BY <2>1 DEF Watching
  <2> QED  BY <2>1, <2>4, <2>5, <2>6, Zenon DEF Remembered, HistoryOf, Sorted, LastOfItsSecond
<1>4. CASE Place  BY <1>2, <1>4 DEF Place
<1>5. ASSUME NEW o \in orders, Fill(o) \/ Report(o)  PROVE Remembered'
  BY <1>2, <1>5 DEF Fill, Report
<1>6. ASSUME NEW a \in {"buy", "sell"}, ReportLate(a)  PROVE Remembered'
  BY <1>2, <1>6 DEF ReportLate
<1>7. ASSUME NEW t \in Touches, MarketMoves(t)  PROVE Remembered'
  BY <1>2, <1>7 DEF MarketMoves
<1>8. CASE UNCHANGED vars  BY <1>2, <1>8 DEF vars
<1> QED  BY <1>1, <1>3, <1>4, <1>5, <1>6, <1>7, <1>8 DEF Next

LEMMA RememberedThroughout == Spec => [](Quoted /\ Remembered)
<1>1. Init => Quoted /\ Remembered  BY InitQuoted, InitRemembered
<1>2. Quoted /\ Remembered /\ [Next]_vars => (Quoted /\ Remembered)'
  BY NextQuoted, NextRemembers
<1> QED  BY <1>1, <1>2, PTL DEF Spec

-----------------------------------------------------------------------------
LEMMA SignalOf ==
  ASSUME NEW t, NEW x, NEW y, t = [history |-> x, signal |-> y]
  PROVE  t.signal = y
OBVIOUS

LEMMA TrackedExactly == Quoted /\ Remembered => TrackerIsExact
<1> SUFFICES ASSUME Quoted, Remembered, Watching, TwoSided(touch)  PROVE TrackerIsExact
  BY Zenon DEF TrackerIsExact
<1> DEFINE before == {s \in 0..MaxNow : s < now - Lookback /\ seen.last[s] # NoPrice}
           stood  == IF before = {} THEN seen.mid ELSE seen.last[Highest(before)]
           since  == IF before = {} THEN seen.first ELSE Highest(before)
           mid    == Mid(touch)
           move   == mid - stood
           h      == memory.tracker.history
           all    == Append(h, [at |-> now, mid |-> mid])
           kept   == SubSeq(all, FirstKept(all, now - Lookback), Len(all))
           moved  == mid - kept[1].mid
           old    == memory.tracker.signal
           new    == [up |-> moved > 0, at |-> now, move |-> Magnitude(moved)]
           raised == /\ Len(kept) >= 2 /\ ~InForce(memory.tracker, now)
                     /\ now - kept[1].at >= Lookback /\ Magnitude(moved) >= TriggerTicks
<1>1. touch \in TouchSet /\ now \in 0..MaxNow /\ now \in Int
      /\ TriggerTicks \in Nat \ {0} /\ SignalSeconds \in Nat \ {0}
  BY SecondsAreNumbers, GatesAssumption DEF Quoted, Typed, SessionTyped
<1>2. mid \in Nat  BY <1>1, MidIsNat
<1>3. HistoryOf(h, seen.last, seen.first, seen.mid, now)  BY DEF Remembered
<1>4. old \in SignalSet  BY DEF Remembered, TrackerSet
<1>5. Observed.tracker = [history |-> kept, signal |-> IF raised THEN new ELSE old]
  <2>1. Observed.tracker = Observe(memory.tracker, mid, now)  BY ObservedIs
  <2> QED  BY <2>1, ObserveIs, Zenon
<1>6. Observed.tracker.signal = IF raised THEN new ELSE old
  <2> DEFINE sig == IF raised THEN new ELSE old
  <2>1. Observed.tracker = [history |-> kept, signal |-> sig]  BY <1>5
  <2> HIDE DEF kept, sig
  <2>2. Observed.tracker.signal = sig  BY <2>1, SignalOf, Zenon
  <2> QED  BY <2>2 DEF sig
<1> HIDE DEF h, mid
<1>7. /\ Len(kept) \in Nat /\ kept[1] \in SampleSet
      /\ seen.first = None => Len(kept) = 1
      /\ seen.first # None => Len(kept) >= 2 /\ kept[1].at = since /\ kept[1].mid = stood
  <2> DEFINE last  == seen.last
             first == seen.first
             m0    == seen.mid
  <2>1. HistoryOf(h, last, first, m0, now)  BY <1>3
  <2> HIDE DEF last, first, m0
  <2> DEFINE b == {s \in 0..MaxNow : s < now - Lookback /\ last[s] # NoPrice}
  <2>2. Recalls(kept, last, first, m0, now)
    BY <1>1, <1>2, <2>1, ObservedHistory
  <2> HIDE DEF kept
  <2>3. /\ Len(kept) \in Nat /\ kept[1] \in SampleSet
        /\ first = None => Len(kept) = 1
        /\ first # None =>
              /\ Len(kept) >= 2
              /\ kept[1].at = IF b = {} THEN first ELSE Highest(b)
              /\ kept[1].mid = IF b = {} THEN m0 ELSE last[Highest(b)]
    BY <2>2, Zenon DEF Recalls
  <2> QED  BY <2>3, Zenon DEF last, first, m0
<1> HIDE DEF kept, before
<1>8. kept[1].mid \in Nat /\ kept[1].at \in Int  BY <1>7 DEF SampleSet
<1>9. moved \in Int /\ Magnitude(moved) \in Int
  BY <1>2, <1>8, MagnitudeOf
<1>10. seen.first = None => ~(Len(kept) >= 2)
  <2> DEFINE K == Len(kept)
  <2>1. seen.first = None => K = 1  BY <1>7
  <2> HIDE DEF K
  <2>2. K = 1 => ~(K >= 2)  OBVIOUS
  <2> QED  BY <2>1, <2>2 DEF K
<1>11. seen.first # None => moved = move  BY <1>7
<1>12. raised <=> /\ seen.first # None /\ ~InForce(memory.tracker, now)
                  /\ now - since >= Lookback /\ Magnitude(move) >= TriggerTicks
  <2>1. CASE seen.first = None
    <3>1. ~(Len(kept) >= 2)  BY <1>10, <2>1
    <3> QED  BY <2>1, <3>1
  <2>2. CASE seen.first # None
    <3>1. Len(kept) >= 2 /\ kept[1].at = since /\ moved = move  BY <1>7, <1>11, <2>2
    <3> HIDE DEF moved, move, since
    <3> QED  BY <2>2, <3>1, Zenon
  <2> QED  BY <2>1, <2>2
<1> HIDE DEF moved, move
<1>13. raised => new # old
  <2> SUFFICES ASSUME raised, new = old  PROVE FALSE  OBVIOUS
  <2>1. old.at = now /\ old.move = Magnitude(moved)
    <3>1. new.at = now /\ new.move = Magnitude(moved)  OBVIOUS
    <3> HIDE DEF new, old
    <3> QED  BY <3>1
  <2>2. Magnitude(moved) >= TriggerTicks /\ ~InForce(memory.tracker, now)  OBVIOUS
  <2>3. old # NoSignal
    <3>1. NoSignal.move = 0  BY DEF NoSignal
    <3> HIDE DEF new, old
    <3>2. old.move # 0  BY <1>1, <1>9, <2>1, <2>2
    <3> QED  BY <3>1, <3>2
  <2>4. ~(now < old.at + SignalSeconds)  BY <2>2, <2>3 DEF InForce
  <2> HIDE DEF new, old
  <2> QED  BY <1>1, <2>1, <2>4
<1>14. Signals(Observed) <=> raised
  <2>1. Signals(Observed) <=> Observed.tracker.signal # old  BY DEF Signals
  <2> HIDE DEF raised, new, old
  <2> QED  BY <1>6, <1>13, <2>1
<1>15. Signals(Observed) => /\ Observed.tracker.signal.up <=> move > 0
                            /\ Observed.tracker.signal.move = Magnitude(move)
  <2> SUFFICES ASSUME Signals(Observed)
               PROVE  /\ Observed.tracker.signal.up <=> move > 0
                      /\ Observed.tracker.signal.move = Magnitude(move)
    OBVIOUS
  <2>1. raised /\ Observed.tracker.signal = new  BY <1>6, <1>14
  <2>2. moved = move  BY <1>11, <1>12, <2>1
  <2>3. new.up = (moved > 0) /\ new.move = Magnitude(moved)  OBVIOUS
  <2> HIDE DEF new, raised
  <2> QED  BY <2>1, <2>2, <2>3, Zenon
<1> HIDE DEF raised
<1> QED  BY <1>12, <1>14, <1>15, Zenon DEF TrackerIsExact, before, stood, since, move, mid

(* What the momentum tracker forgets never changes a signal: one is raised  *)
(* for exactly the moves of trigger size since the mid that stood before    *)
(* the lookback began, whenever none is in force.                          *)
THEOREM TrackerStaysExact == Spec => []TrackerIsExact
BY RememberedThroughout, TrackedExactly, PTL
=============================================================================
