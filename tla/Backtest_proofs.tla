---------------------------- MODULE Backtest_proofs ----------------------------
(***************************************************************************)
(* The replay of a recording, for every grid of prices, fill model, fee    *)
(* schedule, latency and balance: the book it trades on, its account, what *)
(* it fills and what its purchases may cost.                               *)
(***************************************************************************)
EXTENDS Backtest, FiniteSetTheorems, WellFoundedInduction, TLAPS

-----------------------------------------------------------------------------
(* Part 1.  The book.                                                      *)
LEMMA PricesAreNumbers == \A p \in Prices : p \in Int /\ 0 <= p /\ p <= OneDollar
BY GridAssumption DEF Prices

(* A set of numbers that is not empty has a first element.                 *)
LEMMA FirstNumber ==
  ASSUME NEW S \in SUBSET Nat, S # {}
  PROVE  \E p \in S : \A q \in S : p <= q
<1>1. PICK p \in S : \A q \in S : <<q, p>> \notin OpToRel(<, Nat)
  BY NatLessThanWellFounded, WFMin
<1>2. ASSUME NEW q \in S, q < p  PROVE <<q, p>> \in OpToRel(<, Nat)
  BY <1>2 DEF OpToRel
<1>3. \A q \in S : ~ (q < p)  BY <1>1, <1>2
<1>4. p \in Nat /\ \A q \in S : q \in Nat  OBVIOUS
<1>5. \A q \in S : p <= q  BY <1>3, <1>4
<1> QED  BY <1>5

(* The first price of a set, and no other.                                 *)
LEMMA LowestIsFirst ==
  ASSUME NEW S \in SUBSET Prices, S # {}
  PROVE  Lowest(S) \in S /\ \A q \in S : Lowest(S) <= q
<1>1. S \in SUBSET Nat  BY GridAssumption DEF Prices
<1>2. \E p \in S : \A q \in S : p <= q  BY <1>1, FirstNumber
<1> QED  BY <1>2 DEF Lowest

LEMMA HighestIsLast ==
  ASSUME NEW S \in SUBSET Prices, S # {}
  PROVE  Highest(S) \in S /\ \A q \in S : q <= Highest(S)
<1> DEFINE Room == {OneDollar - p : p \in S}
<1>0. \A q \in S : q \in 0..OneDollar  BY DEF Prices
<1>1. Room \in SUBSET Nat /\ Room # {}
  BY <1>0, GridAssumption DEF Room
<1>2. PICK x \in Room : \A y \in Room : x <= y  BY <1>1, FirstNumber
<1>3. PICK p \in S : x = OneDollar - p  BY DEF Room
<1>4. ASSUME NEW q \in S  PROVE q <= p
  <2>1. OneDollar - q \in Room  BY DEF Room
  <2>2. x <= OneDollar - q  BY <1>2, <2>1
  <2> QED  BY <1>3, <2>2, GridAssumption DEF Prices
<1> QED  BY <1>4 DEF Highest

LEMMA LowestIsUnique ==
  ASSUME NEW S \in SUBSET Prices, NEW p \in S, \A q \in S : p <= q
  PROVE  Lowest(S) = p
<1>1. Lowest(S) \in S /\ Lowest(S) <= p  BY LowestIsFirst
<1>2. p <= Lowest(S)  BY <1>1
<1>3. \A q \in S : q \in Int  BY PricesAreNumbers
<1>4. p \in Int /\ Lowest(S) \in Int  BY <1>1, <1>3
<1> QED  BY <1>1, <1>2, <1>4

LEMMA HighestIsUnique ==
  ASSUME NEW S \in SUBSET Prices, NEW p \in S, \A q \in S : q <= p
  PROVE  Highest(S) = p
<1>1. Highest(S) \in S /\ p <= Highest(S)  BY HighestIsLast
<1>2. Highest(S) <= p  BY <1>1
<1>3. \A q \in S : q \in Int  BY PricesAreNumbers
<1>4. p \in Int /\ Highest(S) \in Int  BY <1>1, <1>3
<1> QED  BY <1>1, <1>2, <1>4

-----------------------------------------------------------------------------
(* The best price moved for one delta is that of the levels after it.      *)
LEMMA BidFollows ==
  ASSUME NEW bids \in Levels, OnGrid(bids), NEW price \in Grid, NEW size \in 0..MaxSize
  PROVE  UpdateBestBid(Highest(Offered(bids)), [bids EXCEPT ![price] = size], price, size)
           = Highest(Offered([bids EXCEPT ![price] = size]))
<1> DEFINE new == [bids EXCEPT ![price] = size]
           best == Highest(Offered(bids))
<1>1. price \in Prices  BY GridAssumption
<1>0. \A p \in Offered(bids) \cup {price} : p \in Int
  BY <1>1, PricesAreNumbers DEF Offered
<1>2. /\ Offered(bids) \in SUBSET Prices
      /\ Offered(new) \in SUBSET Prices
      /\ Offered(new) = IF size > 0 THEN Offered(bids) \cup {price}
                        ELSE Offered(bids) \ {price}
  BY <1>1, GridAssumption DEF Offered, Levels, Prices
<1> HIDE DEF best
<1>3. CASE size > 0
  <2>1. CASE Offered(bids) = {}
    <3>1. best = NoPrice  BY <2>1 DEF best, Highest
    <3>2. Offered(new) = {price}  BY <1>2, <1>3, <2>1
    <3>3. price \in Offered(new) /\ \A q \in Offered(new) : q <= price
      <4>1. price \in Int  BY <1>0
      <4>2. \A q \in {price} : q <= price  BY <4>1
      <4> HIDE DEF new
      <4> QED  BY <3>2, <4>2
    <3>4. Highest(Offered(new)) = price
      BY <1>2, <3>3, HighestIsUnique
    <3> QED  BY <1>3, <3>1, <3>4 DEF UpdateBestBid, best
  <2>2. CASE Offered(bids) # {}
    <3>1. best \in Offered(bids) /\ \A q \in Offered(bids) : q <= best
      BY <1>2, <2>2, HighestIsLast DEF best
    <3>2. best # NoPrice  BY <1>2, <3>1 DEF Prices, NoPrice
    <3> DEFINE top == IF price > best THEN price ELSE best
    <3>3. top \in Offered(new) /\ \A q \in Offered(new) : q <= top
      <4>1. Offered(new) = Offered(bids) \cup {price}  BY <1>2, <1>3
      <4>2. price \in Int /\ best \in Int /\ \A q \in Offered(bids) : q \in Int
        BY <1>0, <3>1
      <4>3. top \in Offered(bids) \cup {price} /\ price <= top /\ best <= top
        BY <3>1, <4>2
      <4>4. top \in Int  BY <4>2
      <4> HIDE DEF top
      <4>5. \A q \in Offered(bids) : q <= top  BY <3>1, <4>2, <4>3, <4>4
      <4> QED  BY <4>1, <4>3, <4>5
    <3> HIDE DEF top
    <3>5. Highest(Offered(new)) = top  BY <1>2, <3>3, HighestIsUnique
    <3> QED  BY <1>3, <3>2, <3>5 DEF UpdateBestBid, top, best
  <2> QED  BY <2>1, <2>2
<1>4. CASE size = 0
  <2>1. UpdateBestBid(best, new, price, size)
          = IF price = best THEN FindNextBid(new, price) ELSE best
    BY <1>4 DEF UpdateBestBid
  <2>2. CASE price = best
    <3>1. Offered(bids) # {}
      BY <1>1, <2>2, GridAssumption DEF best, Highest, NoPrice, Prices
    <3>2. best \in Offered(bids) /\ \A q \in Offered(bids) : q <= best
      BY <1>2, <3>1, HighestIsLast DEF best
    <3>3. \A q \in Offered(new) : q < price
      <4>1. ~ (size > 0)  BY <1>4
      <4>2. Offered(new) = Offered(bids) \ {price}  BY <1>2, <4>1
      <4>3. \A q \in Offered(bids) : q \in Int  BY <1>0
      <4> QED  BY <2>2, <3>2, <4>2, <4>3
    <3>4. Offered(new) \subseteq Grid  BY <1>2, <1>4 DEF OnGrid
    <3>5. Offered(new) = {p \in Grid : p < price /\ new[p] > 0}
      BY <3>3, <3>4, GridAssumption DEF Offered
    <3> QED  BY <2>1, <2>2, <3>5 DEF FindNextBid, best
  <2>3. CASE price # best
    <3>1. CASE Offered(bids) = {}
      <4>1. ~ (size > 0)  BY <1>4
      <4>2. Offered(new) = Offered(bids)  BY <1>2, <3>1, <4>1
      <4> QED  BY <2>1, <2>3, <4>2 DEF best
    <3>2. CASE Offered(bids) # {}
      <4>1. best \in Offered(bids) /\ \A q \in Offered(bids) : q <= best
        BY <1>2, <3>2, HighestIsLast DEF best
      <4>2. best \in Offered(new) /\ \A q \in Offered(new) : q <= best
        <5>1. ~ (size > 0)  BY <1>4
        <5>2. Offered(new) = Offered(bids) \ {price}  BY <1>2, <5>1
        <5> QED  BY <2>3, <4>1, <5>2
      <4>4. Highest(Offered(new)) = best  BY <1>2, <4>2, HighestIsUnique
      <4> QED  BY <2>1, <2>3, <4>4 DEF best
    <3> QED  BY <3>1, <3>2
  <2> QED  BY <2>2, <2>3 DEF best
<1>5. size > 0 \/ size = 0  BY GridAssumption
<1> QED  BY <1>3, <1>4, <1>5

LEMMA AskFollows ==
  ASSUME NEW asks \in Levels, OnGrid(asks), NEW price \in Grid, NEW size \in 0..MaxSize
  PROVE  UpdateBestAsk(Lowest(Offered(asks)), [asks EXCEPT ![price] = size], price, size)
           = Lowest(Offered([asks EXCEPT ![price] = size]))
<1> DEFINE new == [asks EXCEPT ![price] = size]
           best == Lowest(Offered(asks))
<1>1. price \in Prices  BY GridAssumption
<1>0. \A p \in Offered(asks) \cup {price} : p \in Int
  BY <1>1, PricesAreNumbers DEF Offered
<1>2. /\ Offered(asks) \in SUBSET Prices
      /\ Offered(new) \in SUBSET Prices
      /\ Offered(new) = IF size > 0 THEN Offered(asks) \cup {price}
                        ELSE Offered(asks) \ {price}
  BY <1>1, GridAssumption DEF Offered, Levels, Prices
<1> HIDE DEF best
<1>3. CASE size > 0
  <2>0. Offered(new) = Offered(asks) \cup {price}  BY <1>2, <1>3
  <2>1. CASE Offered(asks) = {}
    <3>1. best = NoPrice  BY <2>1 DEF best, Lowest
    <3>2. Offered(new) = {price}  BY <2>0, <2>1
    <3>3. \A q \in {price} : price <= q  BY <1>0
    <3>4. price \in Offered(new) /\ \A q \in Offered(new) : price <= q
      <4> HIDE DEF new
      <4> QED  BY <3>2, <3>3
    <3>5. Lowest(Offered(new)) = price  BY <1>2, <3>4, LowestIsUnique
    <3> QED  BY <1>3, <3>1, <3>5 DEF UpdateBestAsk, best
  <2>2. CASE Offered(asks) # {}
    <3>1. best \in Offered(asks) /\ \A q \in Offered(asks) : best <= q
      BY <1>2, <2>2, LowestIsFirst DEF best
    <3>2. best # NoPrice  BY <1>2, <3>1 DEF Prices, NoPrice
    <3> DEFINE top == IF price < best THEN price ELSE best
    <3>3. top \in Offered(new) /\ \A q \in Offered(new) : top <= q
      <4>2. price \in Int /\ best \in Int /\ \A q \in Offered(asks) : q \in Int
        BY <1>0, <3>1
      <4>3. top \in Offered(asks) \cup {price} /\ top <= price /\ top <= best
        BY <3>1, <4>2
      <4>4. top \in Int  BY <4>2
      <4> HIDE DEF top
      <4>5. \A q \in Offered(asks) : top <= q  BY <3>1, <4>2, <4>3, <4>4
      <4> QED  BY <2>0, <4>3, <4>5
    <3> HIDE DEF top
    <3>5. Lowest(Offered(new)) = top  BY <1>2, <3>3, LowestIsUnique
    <3> QED  BY <1>3, <3>2, <3>5 DEF UpdateBestAsk, top, best
  <2> QED  BY <2>1, <2>2
<1>4. CASE size = 0
  <2>0. ~ (size > 0)  BY <1>4
  <2>1. Offered(new) = Offered(asks) \ {price}  BY <1>2, <2>0
  <2>2. UpdateBestAsk(best, new, price, size)
          = IF price = best THEN FindNextAsk(new, price) ELSE best
    BY <1>4 DEF UpdateBestAsk
  <2>3. CASE price = best
    <3>1. Offered(asks) # {}
      BY <1>1, <2>3, GridAssumption DEF best, Lowest, NoPrice, Prices
    <3>2. best \in Offered(asks) /\ \A q \in Offered(asks) : best <= q
      BY <1>2, <3>1, LowestIsFirst DEF best
    <3>3. \A q \in Offered(asks) : q \in Int  BY <1>0
    <3>4. \A q \in Offered(new) : price < q  BY <2>1, <2>3, <3>2, <3>3
    <3>5. Offered(new) \subseteq Grid  BY <2>1 DEF OnGrid
    <3>6. Offered(new) = {p \in Grid : price < p /\ new[p] > 0}
      BY <3>4, <3>5, GridAssumption DEF Offered
    <3> QED  BY <2>2, <2>3, <3>6 DEF FindNextAsk, best
  <2>4. CASE price # best
    <3>1. CASE Offered(asks) = {}
      <4>1. Offered(new) = Offered(asks)  BY <2>1, <3>1
      <4> QED  BY <2>2, <2>4, <4>1 DEF best
    <3>2. CASE Offered(asks) # {}
      <4>1. best \in Offered(asks) /\ \A q \in Offered(asks) : best <= q
        BY <1>2, <3>2, LowestIsFirst DEF best
      <4>2. best \in Offered(new) /\ \A q \in Offered(new) : best <= q
        BY <2>1, <2>4, <4>1
      <4>3. Lowest(Offered(new)) = best  BY <1>2, <4>2, LowestIsUnique
      <4> QED  BY <2>2, <2>4, <4>3 DEF best
    <3> QED  BY <3>1, <3>2
  <2> QED  BY <2>3, <2>4 DEF best
<1>5. size > 0 \/ size = 0  BY GridAssumption
<1> QED  BY <1>3, <1>4, <1>5

-----------------------------------------------------------------------------
(* The sizes of a level stay in bounds and on the grid.                    *)
LEMMA LevelsKept ==
  ASSUME NEW levels \in Levels, OnGrid(levels), NEW price \in Grid, NEW size \in 0..MaxSize
  PROVE  /\ [levels EXCEPT ![price] = size] \in Levels
         /\ OnGrid([levels EXCEPT ![price] = size])
BY GridAssumption DEF Levels, OnGrid, Offered

LEMMA BestIsPrice ==
  ASSUME NEW levels \in Levels
  PROVE  /\ Highest(Offered(levels)) \in Prices \cup {NoPrice}
         /\ Lowest(Offered(levels)) \in Prices \cup {NoPrice}
<1>1. Offered(levels) \in SUBSET Prices  BY DEF Offered
<1>2. CASE Offered(levels) = {}  BY <1>2 DEF Highest, Lowest
<1>3. CASE Offered(levels) # {}  BY <1>1, <1>3, HighestIsLast, LowestIsFirst
<1> QED  BY <1>2, <1>3

-----------------------------------------------------------------------------
(* The operators of Orderbook are those of BookLevels on the same constants.*)
LEMMA SameNoPrice == Books!NoPrice = NoPrice /\ Books!Prices = Prices
BY DEF Books!NoPrice, NoPrice, Books!Prices, Prices

LEMMA SameExtremes == \A S : Books!Highest(S) = Highest(S) /\ Books!Lowest(S) = Lowest(S)
<1> TAKE S
<1>1. Books!Highest(S) = Highest(S)  BY SameNoPrice DEF Books!Highest, Highest
<1>2. Books!Lowest(S) = Lowest(S)  BY SameNoPrice DEF Books!Lowest, Lowest
<1> QED  BY <1>1, <1>2

LEMMA SameOffered == \A f : Books!Offered(f) = Offered(f)
BY Zenon, SameNoPrice DEF Books!Offered, Offered

LEMMA SameNext ==
  \A f, p : /\ Books!FindNextBid(f, p) = FindNextBid(f, p)
            /\ Books!FindNextAsk(f, p) = FindNextAsk(f, p)
BY Zenon, SameExtremes DEF Books!FindNextBid, FindNextBid, Books!FindNextAsk, FindNextAsk

LEMMA SameUpdates ==
  \A x, f, p, s : /\ Books!UpdateBestBid(x, f, p, s) = UpdateBestBid(x, f, p, s)
                  /\ Books!UpdateBestAsk(x, f, p, s) = UpdateBestAsk(x, f, p, s)
BY Zenon, SameNoPrice, SameNext
   DEF Books!UpdateBestBid, UpdateBestBid, Books!UpdateBestAsk, UpdateBestAsk

LEMMA SameDelta == \A b, s, p, d : Books!ApplyDelta(b, s, p, d) = ApplyDelta(b, s, p, d)
<1> TAKE b, s, p, d
<1>1. CASE s = "bid"  BY <1>1, SameUpdates DEF Books!ApplyDelta, ApplyDelta
<1>2. CASE s # "bid"  BY <1>2, SameUpdates DEF Books!ApplyDelta, ApplyDelta
<1> QED  BY <1>1, <1>2

LEMMA SameSize == \A b, s, p, d : Books!SizeAfter(b, s, p, d) = SizeAfter(b, s, p, d)
BY Zenon DEF Books!SizeAfter, SizeAfter

LEMMA SameLevels == Books!Levels = Levels /\ \A f : Books!OnGrid(f) <=> OnGrid(f)
BY Zenon, SameNoPrice, SameOffered DEF Books!Levels, Levels, Books!OnGrid, OnGrid

LEMMA SameSnapshot == \A f, g : Books!FromSnapshot(f, g) = FromSnapshot(f, g)
BY Zenon, SameExtremes, SameOffered DEF Books!FromSnapshot, FromSnapshot

(* The book is at every moment the one a snapshot of its levels would give.*)
BookInv ==
  /\ book.bids \in Levels /\ OnGrid(book.bids)
  /\ book.asks \in Levels /\ OnGrid(book.asks)
  /\ book = FromSnapshot(book.bids, book.asks)

LEMMA FirstBook ==
  ASSUME NEW bids \in Levels, NEW asks \in Levels, OnGrid(bids), OnGrid(asks),
         book = FromSnapshot(bids, asks)
  PROVE  BookInv
<1>1. book.bids = bids /\ book.asks = asks  BY DEF FromSnapshot
<1> QED  BY Zenon, <1>1 DEF BookInv

LEMMA DeltaKeepsBook ==
  ASSUME BookInv, NEW side \in {"bid", "ask"}, NEW price \in Grid, NEW delta \in Int,
         SizeAfter(book, side, price, delta) \in 0..MaxSize,
         book' = ApplyDelta(book, side, price, delta)
  PROVE  BookInv'
<1> DEFINE size == SizeAfter(book, side, price, delta)
<1>1. size \in 0..MaxSize  OBVIOUS
<1>2. CASE side = "bid"
  <2> DEFINE bids == [book.bids EXCEPT ![price] = size]
  <2>1. size = book.bids[price] + delta  BY <1>2 DEF SizeAfter
  <2>2. book' = [book EXCEPT !.bids = bids,
                   !.bestBid = UpdateBestBid(book.bestBid, bids, price, size)]
    BY <1>2, <2>1 DEF ApplyDelta
  <2> HIDE DEF size
  <2>3. bids \in Levels /\ OnGrid(bids)  BY <1>1, LevelsKept DEF BookInv
  <2>4. book.bestBid = Highest(Offered(book.bids)) /\ book.bestAsk = Lowest(Offered(book.asks))
    BY DEF BookInv, FromSnapshot
  <2>5. UpdateBestBid(book.bestBid, bids, price, size) = Highest(Offered(bids))
    BY <1>1, <2>4, BidFollows DEF BookInv
  <2> HIDE DEF bids
  <2>6. book' = FromSnapshot(bids, book.asks)
    BY <2>2, <2>4, <2>5 DEF BookInv, FromSnapshot
  <2>7. book'.bids = bids /\ book'.asks = book.asks  BY <2>6 DEF FromSnapshot
  <2> QED  BY <2>3, <2>6, <2>7 DEF BookInv
<1>3. CASE side = "ask"
  <2> DEFINE asks == [book.asks EXCEPT ![price] = size]
  <2>1. size = book.asks[price] + delta  BY <1>3 DEF SizeAfter
  <2>2. book' = [book EXCEPT !.asks = asks,
                   !.bestAsk = UpdateBestAsk(book.bestAsk, asks, price, size)]
    BY <1>3, <2>1 DEF ApplyDelta
  <2> HIDE DEF size
  <2>3. asks \in Levels /\ OnGrid(asks)  BY <1>1, LevelsKept DEF BookInv
  <2>4. book.bestBid = Highest(Offered(book.bids)) /\ book.bestAsk = Lowest(Offered(book.asks))
    BY DEF BookInv, FromSnapshot
  <2>5. UpdateBestAsk(book.bestAsk, asks, price, size) = Lowest(Offered(asks))
    BY <1>1, <2>4, AskFollows DEF BookInv
  <2> HIDE DEF asks
  <2>6. book' = FromSnapshot(book.bids, asks)
    BY <2>2, <2>4, <2>5 DEF BookInv, FromSnapshot
  <2>7. book'.bids = book.bids /\ book'.asks = asks  BY <2>6 DEF FromSnapshot
  <2> QED  BY <2>3, <2>6, <2>7 DEF BookInv
<1> QED  BY <1>2, <1>3

LEMMA FirstBookHolds == Books!Init => BookInv
BY Zenon, SameLevels, SameSnapshot, FirstBook DEF Books!Init

THEOREM BookInvariance == Books!Spec => []BookInv
<1>2. BookInv /\ [Books!Next]_book => BookInv'
  <2> SUFFICES ASSUME BookInv, [Books!Next]_book  PROVE BookInv'
    OBVIOUS
  <2>1. CASE UNCHANGED book  BY <2>1 DEF BookInv
  <2>2. CASE Books!Next
    <3>1. PICK side \in {"bid", "ask"}, price \in Grid, delta \in (-MaxSize)..MaxSize :
            Books!Delta(side, price, delta)
      BY <2>2 DEF Books!Next
    <3>2. delta \in Int  BY GridAssumption
    <3>3. /\ SizeAfter(book, side, price, delta) \in 0..MaxSize
          /\ book' = ApplyDelta(book, side, price, delta)
      BY Zenon, <3>1, SameSize, SameDelta DEF Books!Delta
    <3> QED  BY <3>2, <3>3, DeltaKeepsBook
  <2> QED  BY <2>1, <2>2
<1> QED  BY <1>2, FirstBookHolds, PTL DEF Books!Spec

(* Whatever deltas a book has followed, its best bid and ask are those a   *)
(* snapshot would set, on every grid of price levels: the scan of the grid *)
(* for the next best price finds it.                                       *)
LEMMA BookIsSnapshot == BookInv => BookAgrees
BY Zenon, SameSnapshot DEF BookInv, BookAgrees, Books!DeltasAgreeWithSnapshot

THEOREM DeltasEqualSnapshot == Books!Spec => []Books!DeltasAgreeWithSnapshot
<1>1. BookInv => Books!DeltasAgreeWithSnapshot  BY BookIsSnapshot DEF BookAgrees
<1> QED  BY <1>1, BookInvariance, PTL

(* The best prices are prices or None, and no level leaves the grid.       *)
LEMMA BookIsTyped == BookInv => Books!TypeOK
<1> SUFFICES ASSUME BookInv  PROVE Books!TypeOK
  OBVIOUS
<1>1. book \in [bids : Levels, asks : Levels,
                bestBid : Prices \cup {NoPrice}, bestAsk : Prices \cup {NoPrice}]
  BY BestIsPrice DEF BookInv, FromSnapshot
<1> QED  BY Zenon, <1>1, SameLevels, SameNoPrice DEF Books!TypeOK, BookInv

THEOREM BookTypes == Books!Spec => []Books!TypeOK
BY BookIsTyped, BookInvariance, PTL

-----------------------------------------------------------------------------
(* Part 2.  Sums.  The total of h over 0..n is the last of its partial     *)
(* sums; a sum over a set of numbers is the total of what it masks.        *)
IsRun(h, g, n) == g[0] = h[0] /\ \A i \in 1..n : g[i] = g[i - 1] + h[i]

Total(h, n) == (CHOOSE g : g \in [0..n -> Int] /\ IsRun(h, g, n))[n]

Pick(s) == CHOOSE x \in s : TRUE

(* A set with the first number and, with every number, the next.           *)
LEMMA Climb ==
  ASSUME NEW n \in Nat, NEW S, 0 \in S, \A i \in 1..n : i - 1 \in S => i \in S
  PROVE  \A i \in 0..n : i \in S
<1> DEFINE Bad == {i \in 0..n : i \notin S}
<1> SUFFICES Bad = {}
  OBVIOUS
<1> SUFFICES ASSUME Bad # {}  PROVE FALSE
  OBVIOUS
<1>1. Bad \in SUBSET Nat  OBVIOUS
<1>2. PICK m \in Bad : \A q \in Bad : m <= q  BY <1>1, FirstNumber
<1>3. m \in 1..n  OBVIOUS
<1>4. m - 1 \in 0..n /\ ~(m <= m - 1)  BY <1>3
<1>5. m - 1 \in S  BY <1>2, <1>4
<1> QED  BY <1>2, <1>3, <1>5

LEMMA RunExists ==
  ASSUME NEW n \in Nat, NEW h \in [0..n -> Int]
  PROVE  \E g : g \in [0..n -> Int] /\ IsRun(h, g, n)
<1> DEFINE S == {m \in 0..n : \E g : g \in [0..m -> Int] /\ IsRun(h, g, m)}
<1>1. 0 \in S
  <2> DEFINE g == [i \in 0..0 |-> h[0]]
  <2>1. g \in [0..0 -> Int] /\ g[0] = h[0] /\ 1..0 = {}  OBVIOUS
  <2>2. IsRun(h, g, 0)  BY <2>1 DEF IsRun
  <2> QED  BY <2>1, <2>2
<1>2. ASSUME NEW m \in 1..n, m - 1 \in S  PROVE m \in S
  <2>1. PICK f : f \in [0..(m - 1) -> Int] /\ IsRun(h, f, m - 1)  BY <1>2
  <2> DEFINE g == [i \in 0..m |-> IF i = m THEN f[m - 1] + h[m] ELSE f[i]]
  <2>2. g \in [0..m -> Int]  BY <2>1
  <2>3. g[0] = h[0]  BY <2>1 DEF IsRun
  <2>4. ASSUME NEW i \in 1..m  PROVE g[i] = g[i - 1] + h[i]
    <3>1. CASE i = m  BY <3>1, <2>1
    <3>2. CASE i # m
      <4>1. i \in 1..(m - 1) /\ i - 1 \in 0..(m - 1) /\ i - 1 # m  BY <3>2
      <4>2. f[i] = f[i - 1] + h[i]  BY <2>1, <4>1 DEF IsRun
      <4> QED  BY <3>2, <4>1, <4>2
    <3> QED  BY <3>1, <3>2
  <2> HIDE DEF g
  <2>5. IsRun(h, g, m)  BY <2>3, <2>4 DEF IsRun
  <2> QED  BY <2>2, <2>5
<1> HIDE DEF S
<1>3. n \in S
  <2>1. \A i \in 0..n : i \in S  BY <1>1, <1>2, Climb
  <2> QED  BY <2>1
<1> QED  BY <1>3 DEF S

LEMMA TotalIsRun ==
  ASSUME NEW n \in Nat, NEW h \in [0..n -> Int]
  PROVE  \E g \in [0..n -> Int] : IsRun(h, g, n) /\ Total(h, n) = g[n]
<1>1. \E g : g \in [0..n -> Int] /\ IsRun(h, g, n)  BY RunExists
<1> QED  BY <1>1 DEF Total

LEMMA TotalIsInt ==
  ASSUME NEW n \in Nat, NEW h \in [0..n -> Int]
  PROVE  Total(h, n) \in Int
BY TotalIsRun

LEMMA TotalOfZeros ==
  ASSUME NEW n \in Nat, NEW h \in [0..n -> Int], \A i \in 0..n : h[i] = 0
  PROVE  Total(h, n) = 0
<1>1. PICK g \in [0..n -> Int] : IsRun(h, g, n) /\ Total(h, n) = g[n]  BY TotalIsRun
<1> DEFINE S == {i \in 0..n : g[i] = 0}
<1>2. 0 \in S  BY <1>1 DEF IsRun
<1>3. ASSUME NEW i \in 1..n, i - 1 \in S  PROVE i \in S  BY <1>1, <1>3 DEF IsRun
<1> HIDE DEF S
<1>4. n \in S
  <2>1. \A i \in 0..n : i \in S  BY <1>2, <1>3, Climb
  <2> QED  BY <2>1
<1> QED  BY <1>1, <1>4 DEF S

LEMMA TotalGrows ==
  ASSUME NEW n \in Nat, NEW h \in [0..n -> Int], NEW k \in [0..n -> Int],
         \A i \in 0..n : h[i] <= k[i]
  PROVE  Total(h, n) <= Total(k, n)
<1>1. PICK g \in [0..n -> Int] : IsRun(h, g, n) /\ Total(h, n) = g[n]  BY TotalIsRun
<1>2. PICK f \in [0..n -> Int] : IsRun(k, f, n) /\ Total(k, n) = f[n]  BY TotalIsRun
<1> DEFINE S == {i \in 0..n : g[i] <= f[i]}
<1>3. 0 \in S  BY <1>1, <1>2 DEF IsRun
<1>4. ASSUME NEW i \in 1..n, i - 1 \in S  PROVE i \in S
  BY <1>1, <1>2, <1>4 DEF IsRun
<1> HIDE DEF S
<1>5. n \in S
  <2>1. \A i \in 0..n : i \in S  BY <1>3, <1>4, Climb
  <2> QED  BY <2>1
<1> QED  BY <1>1, <1>2, <1>5 DEF S

LEMMA TotalOfMultiple ==
  ASSUME NEW n \in Nat, NEW c \in Int, NEW h \in [0..n -> Int], NEW k \in [0..n -> Int],
         \A i \in 0..n : k[i] = c * h[i]
  PROVE  Total(k, n) = c * Total(h, n)
<1>1. PICK g \in [0..n -> Int] : IsRun(h, g, n) /\ Total(h, n) = g[n]  BY TotalIsRun
<1>2. PICK f \in [0..n -> Int] : IsRun(k, f, n) /\ Total(k, n) = f[n]  BY TotalIsRun
<1> DEFINE S == {i \in 0..n : f[i] = c * g[i]}
<1>3. 0 \in S  BY <1>1, <1>2 DEF IsRun
<1>4. ASSUME NEW i \in 1..n, i - 1 \in S  PROVE i \in S
  <2>1. g[i] = g[i - 1] + h[i] /\ f[i] = f[i - 1] + k[i]  BY <1>1, <1>2 DEF IsRun
  <2>2. i \in 0..n /\ g[i - 1] \in Int /\ h[i] \in Int  OBVIOUS
  <2>3. \A a, b \in Int : c * (a + b) = c * a + c * b  OBVIOUS
  <2>4. c * g[i] = c * g[i - 1] + c * h[i]  BY <2>1, <2>2, <2>3
  <2> QED  BY <1>4, <2>1, <2>2, <2>4
<1> HIDE DEF S
<1>5. n \in S
  <2>1. \A i \in 0..n : i \in S  BY <1>3, <1>4, Climb
  <2> QED  BY <2>1
<1> QED  BY <1>1, <1>2, <1>5 DEF S

(* Totals of functions that differ in one place differ by that much.       *)
LEMMA TotalChanges ==
  ASSUME NEW n \in Nat, NEW h \in [0..n -> Int], NEW k \in [0..n -> Int], NEW x \in 0..n,
         \A i \in 0..n : i # x => k[i] = h[i]
  PROVE  Total(k, n) = Total(h, n) + k[x] - h[x]
<1>1. PICK g \in [0..n -> Int] : IsRun(h, g, n) /\ Total(h, n) = g[n]  BY TotalIsRun
<1>2. PICK f \in [0..n -> Int] : IsRun(k, f, n) /\ Total(k, n) = f[n]  BY TotalIsRun
<1> DEFINE S == {i \in 0..n : f[i] = IF i < x THEN g[i] ELSE g[i] + k[x] - h[x]}
<1>3. 0 \in S
  <2>1. CASE x = 0  BY <2>1, <1>1, <1>2 DEF IsRun
  <2>2. CASE x # 0  BY <2>2, <1>1, <1>2 DEF IsRun
  <2> QED  BY <2>1, <2>2
<1>4. ASSUME NEW i \in 1..n, i - 1 \in S  PROVE i \in S
  <2>1. g[i] = g[i - 1] + h[i] /\ f[i] = f[i - 1] + k[i]  BY <1>1, <1>2 DEF IsRun
  <2>2. /\ i \in 0..n /\ i - 1 \in 0..n /\ g[i - 1] \in Int /\ h[i] \in Int
        /\ k[x] \in Int /\ h[x] \in Int /\ k[i] \in Int /\ g[i] \in Int
    OBVIOUS
  <2>3. f[i - 1] = IF i - 1 < x THEN g[i - 1] ELSE g[i - 1] + k[x] - h[x]  BY <1>4
  <2>4. i # x => k[i] = h[i]  BY <2>2
  <2>5. f[i] = IF i < x THEN g[i] ELSE g[i] + k[x] - h[x]
    <3> DEFINE gi == g[i]
               gp == g[i - 1]
               fi == f[i]
               fp == f[i - 1]
               hi == h[i]
               ki == k[i]
               hx == h[x]
               kx == k[x]
    <3>1. /\ gi = gp + hi /\ fi = fp + ki
          /\ fp = IF i - 1 < x THEN gp ELSE gp + kx - hx
          /\ i # x => ki = hi
          /\ gi \in Int /\ gp \in Int /\ hi \in Int /\ ki \in Int /\ hx \in Int /\ kx \in Int
      BY <2>1, <2>2, <2>3, <2>4
    <3>2. i = x => ki = kx /\ hi = hx  OBVIOUS
    <3>3. i \in Int /\ x \in Int  OBVIOUS
    <3> HIDE DEF gi, gp, fi, fp, hi, ki, hx, kx
    <3>4. fi = IF i < x THEN gi ELSE gi + kx - hx
      <4>1. CASE i < x  BY <3>1, <3>3, <4>1
      <4>2. CASE i = x  BY <3>1, <3>2, <3>3, <4>2
      <4>3. CASE i > x
        <5>1. ~ (i - 1 < x) /\ ~ (i < x) /\ i # x  BY <3>3, <4>3
        <5>2. fp = gp + kx - hx /\ ki = hi  BY <3>1, <5>1
        <5> QED  BY <3>1, <5>1, <5>2
      <4> QED  BY <3>3, <4>1, <4>2, <4>3
    <3> QED  BY <3>4 DEF fi, gi, kx, hx
  <2> QED  BY <2>2, <2>5
<1> HIDE DEF S
<1>5. n \in S
  <2>1. \A i \in 0..n : i \in S  BY <1>3, <1>4, Climb
  <2> QED  BY <2>1
<1> QED  BY <1>1, <1>2, <1>5 DEF S

-----------------------------------------------------------------------------
Masked(f, S, n) == [i \in 0..n |-> IF i \in S THEN f[i] ELSE 0]

LEMMA MaskedIsTyped ==
  ASSUME NEW n \in Nat, NEW S, NEW f, \A i \in S : f[i] \in Int
  PROVE  Masked(f, S, n) \in [0..n -> Int]
BY DEF Masked

(* One element taken out of the set.                                       *)
LEMMA TotalWithout ==
  ASSUME NEW n \in Nat, NEW S \in SUBSET (0..n), NEW f, \A i \in S : f[i] \in Int,
         NEW x \in S
  PROVE  Total(Masked(f, S, n), n) = f[x] + Total(Masked(f, S \ {x}, n), n)
<1> DEFINE k == Masked(f, S, n)
           h == Masked(f, S \ {x}, n)
<1>1. k \in [0..n -> Int] /\ h \in [0..n -> Int]  BY MaskedIsTyped
<1>2. k[x] = f[x] /\ h[x] = 0 /\ x \in 0..n  BY DEF Masked
<1>3. \A i \in 0..n : i # x => k[i] = h[i]  BY DEF Masked
<1> HIDE DEF k, h
<1>4. Total(k, n) = Total(h, n) + k[x] - h[x]  BY <1>1, <1>2, <1>3, TotalChanges
<1>5. Total(h, n) \in Int /\ f[x] \in Int  BY <1>1, TotalIsInt
<1> QED  BY <1>2, <1>4, <1>5 DEF k, h

(* What the community modules' fold over a set comes to.                   *)
Folds(g, f, S) ==
  \A s \in SUBSET S : g[s] = IF s = {} THEN 0 ELSE f[Pick(s)] + g[s \ {Pick(s)}]

LEMMA FoldIsTotal ==
  ASSUME NEW n \in Nat, NEW S \in SUBSET (0..n), NEW f, \A i \in S : f[i] \in Int,
         NEW g, Folds(g, f, S)
  PROVE  g[S] = Total(Masked(f, S, n), n)
<1> DEFINE Good(s) == g[s] = Total(Masked(f, s, n), n)
           Bad == {s \in SUBSET S : ~Good(s)}
           Ranks == {Cardinality(s) : s \in Bad}
<1>1. \A s \in SUBSET S : IsFiniteSet(s) /\ Cardinality(s) \in Nat
  <2>1. IsFiniteSet(0..n)  BY FS_Interval
  <2> QED  BY <2>1, FS_Subset, FS_CardinalityType
<1> SUFFICES ASSUME Bad # {}  PROVE FALSE
  OBVIOUS
<1>2. Ranks \in SUBSET Nat /\ Ranks # {}  BY <1>1
<1>3. PICK m \in Ranks : \A q \in Ranks : m <= q  BY <1>2, FirstNumber
<1>4. PICK s \in Bad : m = Cardinality(s)  BY <1>3
<1>5. CASE s = {}
  <2>1. Masked(f, s, n) \in [0..n -> Int] /\ \A i \in 0..n : Masked(f, s, n)[i] = 0
    BY <1>5 DEF Masked
  <2>2. Total(Masked(f, s, n), n) = 0  BY <2>1, TotalOfZeros
  <2> QED  BY <1>4, <1>5, <2>2 DEF Folds
<1>6. CASE s # {}
  <2> DEFINE x == Pick(s)
  <2>1. x \in s  BY <1>6 DEF Pick
  <2>2. s \ {x} \in SUBSET S  BY <1>4
  <2>3. Cardinality(s \ {x}) = Cardinality(s) - 1  BY <2>1, <1>1, <1>4, FS_RemoveElement
  <2>4. Good(s \ {x})
    <3> SUFFICES ASSUME ~Good(s \ {x})  PROVE FALSE
      OBVIOUS
    <3>1. Cardinality(s \ {x}) \in Ranks  BY <2>2
    <3>2. m <= m - 1 /\ m \in Nat  BY <3>1, <2>3, <1>3, <1>4, <1>2
    <3> QED  BY <3>2
  <2>5. g[s] = f[x] + g[s \ {x}]  BY <1>4, <1>6 DEF Folds
  <2>6. Total(Masked(f, s, n), n) = f[x] + Total(Masked(f, s \ {x}, n), n)
    <3>1. s \in SUBSET (0..n) /\ \A i \in s : f[i] \in Int  BY <1>4
    <3> QED  BY <2>1, <3>1, TotalWithout
  <2> QED  BY <1>4, <2>4, <2>5, <2>6
<1> QED  BY <1>5, <1>6

(* There is such a fold.                                                   *)
Partial(f, S, n) == [s \in SUBSET S |-> Total(Masked(f, s, n), n)]

LEMMA PartialFolds ==
  ASSUME NEW n \in Nat, NEW S \in SUBSET (0..n), NEW f, \A i \in S : f[i] \in Int
  PROVE  Folds(Partial(f, S, n), f, S)
<1> DEFINE g == Partial(f, S, n)
<1> SUFFICES ASSUME NEW s \in SUBSET S
             PROVE  g[s] = IF s = {} THEN 0 ELSE f[Pick(s)] + g[s \ {Pick(s)}]
  BY Zenon DEF Folds
<1>0. g[s] = Total(Masked(f, s, n), n)  BY DEF Partial
<1>1. CASE s = {}
  <2>1. Masked(f, s, n) \in [0..n -> Int] /\ \A i \in 0..n : Masked(f, s, n)[i] = 0
    BY <1>1 DEF Masked
  <2>2. Total(Masked(f, s, n), n) = 0  BY <2>1, TotalOfZeros
  <2> QED  BY <1>0, <1>1, <2>2
<1>2. CASE s # {}
  <2> DEFINE x == Pick(s)
  <2>1. x \in s  BY <1>2 DEF Pick
  <2>2. s \ {x} \in SUBSET S  OBVIOUS
  <2>3. g[s \ {x}] = Total(Masked(f, s \ {x}, n), n)  BY <2>2 DEF Partial
  <2>4. s \in SUBSET (0..n) /\ \A i \in s : f[i] \in Int  OBVIOUS
  <2>5. Total(Masked(f, s, n), n) = f[x] + Total(Masked(f, s \ {x}, n), n)
    BY <2>1, <2>4, TotalWithout
  <2> HIDE DEF g
  <2> QED  BY <1>0, <1>2, <2>3, <2>5
<1> QED  BY <1>1, <1>2

(* The sum of a function over a set of the numbers up to n.                *)
LEMMA SumIsTotal ==
  ASSUME NEW n \in Nat, NEW S \in SUBSET (0..n), NEW f, \A i \in S : f[i] \in Int
  PROVE  SumFunctionOnSet(f, S) = Total(Masked(f, S, n), n)
<1> DEFINE P(g) == g = [s \in SUBSET S |-> IF s = {} THEN 0
                          ELSE f[CHOOSE y \in s : TRUE] + g[s \ {CHOOSE y \in s : TRUE}]]
           part == Partial(f, S, n)
<1>1. P(part)
  <2>1. Folds(part, f, S)  BY PartialFolds
  <2>2. part = [s \in SUBSET S |-> part[s]]  BY DEF Partial
  <2> HIDE DEF part
  <2>3. \A s \in SUBSET S :
          part[s] = IF s = {} THEN 0
                    ELSE f[CHOOSE y \in s : TRUE] + part[s \ {CHOOSE y \in s : TRUE}]
    BY Zenon, <2>1 DEF Folds, Pick
  <2> QED  BY Zenon, <2>2, <2>3
<1>2. P(CHOOSE g : P(g))  BY <1>1, Zenon
<1>3. SumFunctionOnSet(f, S) = (CHOOSE g : P(g))[S]
  BY Zenon DEF SumFunctionOnSet, FoldFunctionOnSet, MapThenFoldSet
<1> DEFINE g == CHOOSE h : P(h)
<1>4. P(g)  BY <1>2
<1> HIDE DEF g
<1>5. Folds(g, f, S)  BY Zenon, <1>4 DEF Folds, Pick
<1>6. g[S] = Total(Masked(f, S, n), n)  BY <1>5, FoldIsTotal
<1> QED  BY <1>3, <1>6 DEF g

(* Of a function made from a value for every element.                      *)
LEMMA SumOfValues ==
  ASSUME NEW n \in Nat, NEW S \in SUBSET (0..n), NEW f, DOMAIN f = S,
         NEW h \in [0..n -> Int],
         \A i \in S : f[i] = h[i], \A i \in (0..n) \ S : h[i] = 0
  PROVE  SumFunction(f) = Total(h, n)
<1>1. \A i \in S : f[i] \in Int  OBVIOUS
<1>2. SumFunctionOnSet(f, S) = Total(Masked(f, S, n), n)  BY <1>1, SumIsTotal
<1>3. Masked(f, S, n) = h  BY DEF Masked
<1> QED  BY <1>2, <1>3 DEF SumFunction

LEMMA SumOfAllValues ==
  ASSUME NEW n \in Nat, NEW f, DOMAIN f = 0..n, NEW h \in [0..n -> Int],
         \A i \in 0..n : f[i] = h[i]
  PROVE  SumFunction(f) = Total(h, n)
<1> DEFINE S == 0..n
<1>1. /\ S \in SUBSET (0..n) /\ DOMAIN f = S
      /\ \A i \in S : f[i] = h[i]
      /\ \A i \in (0..n) \ S : h[i] = 0
  OBVIOUS
<1> HIDE DEF S
<1> QED  BY <1>1, SumOfValues

-----------------------------------------------------------------------------
(* Part 3.  Arithmetic.                                                    *)
LEMMA Division ==
  ASSUME NEW a \in Int, NEW d \in Nat \ {0}
  PROVE  /\ a \div d \in Int /\ a % d \in 0..(d - 1)
         /\ a = d * (a \div d) + (a % d)
OBVIOUS

LEMMA DivisionIsFloor ==
  ASSUME NEW a \in Int, NEW d \in Nat \ {0}, NEW q \in Int
  PROVE  /\ d * q <= a => q <= a \div d
         /\ a < d * q => a \div d < q
OBVIOUS

LEMMA Distribution ==
  \A a, b, c \in Int : /\ a * b \in Int /\ a * b = b * a /\ a * (b + c) = a * b + a * c
                       /\ a * (b - c) = a * b - a * c
OBVIOUS

LEMMA SignOfProduct ==
  ASSUME NEW a \in Int, NEW b \in Int, a >= 0, b >= 0
  PROVE  a * b >= 0
OBVIOUS

LEMMA ProductsGrow ==
  \A a, b, c \in Int : a >= 0 /\ b <= c => a * b <= a * c
OBVIOUS

LEMMA ProductsGrowStrictly ==
  \A a, b, c \in Int : a > 0 /\ b < c => a * b < a * c
OBVIOUS

-----------------------------------------------------------------------------
(* Part 4.  The fill models.                                               *)
Contracts == {"buy", "sell"}
Statuses  == {"pending_open", "open", "pending_cancel", "canceled", "filled"}

OrderSet ==
  [quote : {i.quote : i \in Intents}, ticker : {i.ticker : i \in Intents},
   contract : Contracts, price : Grid, count : Nat \ {0}, rem : Nat,
   status : Statuses, created : Int, active : Int, canceledAt : Int]

QueueSet == [ahead : Nat, residue : 0..(TradeDen - 1)]

DeltaSet == [side : {"bid", "ask", "none"}, price : Int, change : Int]

BookSet == [bids : Levels, asks : Levels,
            bestBid : Prices \cup {NoPrice}, bestAsk : Prices \cup {NoPrice}]

(* What the level of an order lost.                                        *)
Lost(o, d) == IF SameLevelReduction(o, d) THEN -d.change ELSE 0

LEMMA LostIsNat ==
  ASSUME NEW o, NEW d \in DeltaSet
  PROVE  Lost(o, d) \in Nat
BY DEF Lost, SameLevelReduction, DeltaSet

LEMMA LeastIsLess ==
  \A a, b \in Int : /\ Least(a, b) \in Int /\ Least(a, b) <= a /\ Least(a, b) <= b
                    /\ (Least(a, b) = a \/ Least(a, b) = b)
BY DEF Least

LEMMA FractionIsTyped == TradeDen \in Nat \ {0} /\ TradeNum \in Nat /\ TradeNum <= TradeDen
BY TradeFractionAssumption

(* What is eaten of the queue for n contracts that left, n at the most.    *)
LEMMA EatenIsExact ==
  ASSUME NEW q \in QueueSet, NEW n \in Nat
  PROVE  LET e == ConsumeQueue(q, n)
         IN  /\ e.units \in Nat /\ e.residue \in 0..(TradeDen - 1)
             /\ TradeDen * e.units + e.residue = n * TradeNum + q.residue
             /\ e.units <= n
<1> DEFINE exact == n * TradeNum + q.residue
           e == ConsumeQueue(q, n)
<1>0. TradeDen \in Nat \ {0} /\ TradeNum \in Nat /\ TradeNum <= TradeDen
  BY FractionIsTyped
<1>1. q.residue \in 0..(TradeDen - 1) /\ q.residue \in Nat  BY <1>0 DEF QueueSet
<1>2. n * TradeNum \in Int /\ n * TradeNum >= 0  BY <1>0, SignOfProduct, Distribution
<1>3. exact \in Nat  BY <1>1, <1>2
<1>4. e.units = exact \div TradeDen /\ e.residue = exact % TradeDen  BY DEF ConsumeQueue
<1> HIDE DEF e
<1>5. n * TradeNum <= n * TradeDen  BY <1>0, ProductsGrow
<1>6. n * TradeDen = TradeDen * n /\ TradeDen * (n + 1) = TradeDen * n + TradeDen
  BY <1>0, Distribution
<1>7. exact < TradeDen * (n + 1)
  <2> DEFINE x == n * TradeNum
             y == TradeDen * n
             z == TradeDen * (n + 1)
  <2>1. x \in Int /\ y \in Int /\ x <= y /\ z = y + TradeDen
    BY <1>0, <1>2, <1>5, <1>6, Distribution
  <2>2. exact = x + q.residue  OBVIOUS
  <2> HIDE DEF x, y, z, exact
  <2> QED  BY <1>0, <1>1, <2>1, <2>2 DEF z
<1> HIDE DEF exact
<1>8. exact \div TradeDen < n + 1  BY <1>0, <1>3, <1>7, DivisionIsFloor
<1>9. TradeDen * 0 <= exact  BY <1>0, <1>3
<1>10. 0 <= exact \div TradeDen  BY <1>0, <1>3, <1>9, DivisionIsFloor
<1>11. /\ exact \div TradeDen \in Int /\ exact % TradeDen \in 0..(TradeDen - 1)
       /\ exact = TradeDen * (exact \div TradeDen) + (exact % TradeDen)
  BY <1>0, <1>3, Division
<1>12. TradeDen * e.units + e.residue = exact  BY <1>4, <1>11
<1>13. e.units \in Nat /\ e.units <= n /\ e.residue \in 0..(TradeDen - 1)
  BY <1>4, <1>8, <1>10, <1>11
<1> QED  BY <1>12, <1>13 DEF e, exact

(* The queue after an event and the contracts that trade pay for what the  *)
(* order moved up with what its level lost, unless all of it trades.       *)
Paid(q, r, n, lost) ==
  TradeDen * (q.ahead - r.ahead + n) + r.residue <= TradeNum * lost + q.residue

LEMMA UnmovedIsPaid ==
  ASSUME NEW q \in QueueSet, NEW lost \in Nat
  PROVE  Paid(q, q, 0, lost)
<1>1. q.ahead \in Nat /\ q.residue \in Int /\ TradeDen \in Int  BY FractionIsTyped DEF QueueSet
<1>2. q.ahead - q.ahead + 0 = 0 /\ TradeDen * 0 = 0  BY <1>1
<1>3. TradeNum * lost \in Int /\ TradeNum * lost >= 0
  BY FractionIsTyped, SignOfProduct, Distribution
<1> HIDE DEF Paid
<1>4. TradeDen * (q.ahead - q.ahead + 0) = 0  BY <1>2
<1> QED  BY <1>1, <1>3, <1>4 DEF Paid

LEMMA StepPays ==
  ASSUME NEW o \in OrderSet, NEW q \in QueueSet, NEW b \in BookSet, NEW d \in DeltaSet
  PROVE  LET s == QueueStep(o, q, b, d)
         IN  /\ s.queue \in QueueSet /\ s.count \in Nat /\ s.count <= o.rem
             /\ Paid(q, s.queue, 0, Lost(o, d))
             /\ s.count < o.rem => Paid(q, s.queue, s.count, Lost(o, d))
             /\ s.count > 0 => IsMarketable(o, b, FALSE) \/ AtTouch(o, b)
<1> DEFINE s == QueueStep(o, q, b, d)
           n == -d.change
           e == ConsumeQueue(q, n)
           least == Least(q.ahead, e.units)
           moved == [ahead |-> q.ahead - least, residue |-> e.residue]
           left == e.units - least
           through == WentThrough(o, b, d)
<1>0. o.rem \in Nat  BY DEF OrderSet
<1>1. q.ahead \in Nat /\ q.residue \in Nat  BY FractionIsTyped DEF QueueSet
<1>2. Lost(o, d) \in Nat  BY LostIsNat
<1>3. Paid(q, q, 0, Lost(o, d))  BY <1>2, UnmovedIsPaid
<1>4. through => AtTouch(o, b)
  <2> SUFFICES ASSUME through  PROVE AtTouch(o, b)
    OBVIOUS
  <2>1. o.price \in Int /\ b.bestBid \in Int /\ b.bestAsk \in Int
    BY PricesAreNumbers, GridAssumption DEF OrderSet, BookSet, NoPrice
  <2>2. CASE Buys(o)
    <3>1. b.bestBid = NoPrice \/ b.bestBid < o.price  BY <2>2 DEF WentThrough
    <3> QED  BY <2>1, <2>2, <3>1 DEF AtTouch
  <2>3. CASE ~Buys(o)
    <3>1. b.bestAsk = NoPrice \/ b.bestAsk > o.price  BY <2>3 DEF WentThrough
    <3> QED  BY <2>1, <2>3, <3>1 DEF AtTouch
  <2> QED  BY <2>2, <2>3
<1>5. CASE IsMarketable(o, b, FALSE)
  <2>1. s = [queue |-> q, count |-> o.rem]  BY <1>5 DEF QueueStep
  <2> HIDE DEF s
  <2>2. s.queue = q /\ s.count = o.rem  BY <2>1
  <2>3. /\ s.queue \in QueueSet /\ s.count \in Nat /\ s.count <= o.rem
        /\ Paid(q, s.queue, 0, Lost(o, d)) /\ ~(s.count < o.rem)
    BY <1>0, <1>3, <2>2
  <2> QED  BY <1>5, <2>3 DEF s
<1>6. CASE ~IsMarketable(o, b, FALSE) /\ ~SameLevelReduction(o, d)
  <2>1. s = [queue |-> q, count |-> IF through /\ q.ahead = 0 THEN o.rem ELSE 0]
    BY <1>6 DEF QueueStep
  <2> HIDE DEF s, through
  <2>2. s.queue = q /\ (s.count = 0 \/ (through /\ s.count = o.rem))  BY <2>1
  <2> HIDE DEF Paid
  <2>3. /\ s.queue \in QueueSet /\ s.count \in Nat /\ s.count <= o.rem
        /\ Paid(q, s.queue, 0, Lost(o, d))
    BY <1>0, <1>3, <2>2
  <2>4. s.count < o.rem => Paid(q, s.queue, s.count, Lost(o, d))  BY <1>0, <1>3, <2>2
  <2>5. s.count > 0 => AtTouch(o, b)  BY <1>4, <2>2
  <2> QED  BY <2>3, <2>4, <2>5 DEF s
<1>7. CASE ~IsMarketable(o, b, FALSE) /\ SameLevelReduction(o, d)
  <2>0. n \in Nat /\ Lost(o, d) = n
    BY <1>7 DEF SameLevelReduction, DeltaSet, Lost
  <2> HIDE DEF n
  <2>1. /\ e.units \in Nat /\ e.residue \in 0..(TradeDen - 1)
        /\ TradeDen * e.units + e.residue = n * TradeNum + q.residue
    BY <2>0, EatenIsExact
  <2>2. s = [queue |-> moved,
             count |-> IF ~AtTouch(o, b) THEN 0
                       ELSE IF left > 0 THEN Least(o.rem, left)
                       ELSE IF through /\ moved.ahead = 0 THEN o.rem ELSE 0]
    BY <1>7 DEF QueueStep, n
  <2> HIDE DEF e
  <2>3. least \in Nat /\ least <= q.ahead /\ least <= e.units
    BY <1>1, <2>1 DEF Least
  <2> HIDE DEF least
  <2>4. moved.ahead = q.ahead - least /\ moved.residue = e.residue  OBVIOUS
  <2>5. moved \in QueueSet
    <3>1. q.ahead - least \in Nat  BY <1>1, <2>3
    <3> QED  BY <2>1, <3>1 DEF QueueSet
  <2>6. ASSUME NEW k \in Nat, k <= left  PROVE Paid(q, moved, k, Lost(o, d))
    <3>1. q.ahead - moved.ahead + k = least + k  BY <1>1, <2>3, <2>4
    <3>2. least + k <= e.units  BY <2>1, <2>3, <2>6
    <3>3. TradeDen * (least + k) <= TradeDen * e.units
      <4>1. least + k \in Int /\ e.units \in Int  BY <2>1, <2>3
      <4> QED  BY <3>2, <4>1, FractionIsTyped, ProductsGrow
    <3>4. n * TradeNum = TradeNum * n  BY <2>0, FractionIsTyped, Distribution
    <3>5. /\ TradeDen * (least + k) \in Int /\ TradeDen * e.units \in Int
          /\ TradeNum * n \in Int
      <4>1. least + k \in Int  BY <2>3
      <4> QED  BY <2>0, <2>1, <4>1, FractionIsTyped, Distribution
    <3> DEFINE x == TradeDen * (least + k)
               y == TradeDen * e.units
               z == TradeNum * n
    <3>6. x <= y /\ y + e.residue = z + q.residue /\ x \in Int /\ y \in Int /\ z \in Int
      BY <2>1, <3>3, <3>4, <3>5
    <3> HIDE DEF x, y, z
    <3>7. x + e.residue <= z + q.residue  BY <1>1, <2>1, <3>6
    <3>8. Paid(q, moved, k, Lost(o, d)) <=>
            TradeDen * (q.ahead - moved.ahead + k) + moved.residue
              <= TradeNum * Lost(o, d) + q.residue
      BY DEF Paid
    <3> QED  BY <2>0, <2>4, <3>1, <3>7, <3>8 DEF x, z
  <2>7. left \in Nat  BY <2>1, <2>3
  <2> HIDE DEF s, moved, left, through
  <2>8. s.queue = moved  BY <2>2
  <2>9. /\ s.count = 0 \/ (AtTouch(o, b) /\ s.count = Least(o.rem, left))
                      \/ (AtTouch(o, b) /\ s.count = o.rem)
    BY <2>2
  <2>10. Paid(q, moved, 0, Lost(o, d))  BY <2>6, <2>7
  <2>11. s.count \in Nat /\ s.count <= o.rem /\ (s.count < o.rem => s.count <= left)
    BY <1>0, <2>7, <2>9 DEF Least
  <2>12. s.count < o.rem => Paid(q, moved, s.count, Lost(o, d))  BY <2>6, <2>11
  <2>13. s.count > 0 => AtTouch(o, b)  BY <2>9
  <2> QED  BY <2>5, <2>8, <2>10, <2>11, <2>12, <2>13 DEF s
<1> QED  BY <1>5, <1>6, <1>7

(* The optimistic model gives at least what each of the others gives.      *)
LEMMA ModelsAreBracketed ==
  ASSUME NEW o \in OrderSet, NEW q \in QueueSet, NEW b \in BookSet, NEW d \in DeltaSet
  PROVE  /\ PessimisticFill(o, b, d) <= OptimisticFill(o, b, d)
         /\ QueueStep(o, q, b, d).count <= OptimisticFill(o, b, d)
         /\ PessimisticFill(o, b, d) \in Nat /\ PessimisticFill(o, b, d) <= o.rem
         /\ OptimisticFill(o, b, d) \in Nat /\ OptimisticFill(o, b, d) <= o.rem
<1> DEFINE s == QueueStep(o, q, b, d)
           n == -d.change
           e == ConsumeQueue(q, n)
           least == Least(q.ahead, e.units)
           left == e.units - least
           through == WentThrough(o, b, d)
           most == OptimisticFill(o, b, d)
<1>0. o.rem \in Nat  BY DEF OrderSet
<1>1. IsMarketable(o, b, TRUE) => IsMarketable(o, b, FALSE)
  <2>1. o.price \in Int /\ b.bestBid \in Int /\ b.bestAsk \in Int
    BY PricesAreNumbers, GridAssumption DEF OrderSet, BookSet, NoPrice
  <2> QED  BY <2>1 DEF IsMarketable
<1>2. most \in Nat /\ most <= o.rem
  <2>1. SameLevelReduction(o, d) => n \in Nat  BY DEF SameLevelReduction, DeltaSet
  <2>2. most = o.rem \/ most = 0 \/ (SameLevelReduction(o, d) /\ most = Least(o.rem, n))
    BY DEF OptimisticFill
  <2> HIDE DEF most, n
  <2> QED  BY <1>0, <2>1, <2>2 DEF Least
<1>3. PessimisticFill(o, b, d) <= most /\ PessimisticFill(o, b, d) \in Nat
      /\ PessimisticFill(o, b, d) <= o.rem
  <2>1. CASE IsMarketable(o, b, TRUE) \/ through
    <3>1. most = o.rem  BY <1>1, <2>1 DEF OptimisticFill
    <3>2. PessimisticFill(o, b, d) = o.rem  BY <2>1 DEF PessimisticFill
    <3> HIDE DEF most
    <3> QED  BY <1>0, <3>1, <3>2
  <2>2. CASE ~(IsMarketable(o, b, TRUE) \/ through)
    <3>1. PessimisticFill(o, b, d) = 0  BY <2>2 DEF PessimisticFill
    <3> HIDE DEF most
    <3> QED  BY <1>0, <1>2, <3>1
  <2> QED  BY <2>1, <2>2
<1>4. s.count <= most
  <2>0. s.count \in Nat /\ s.count <= o.rem  BY StepPays
  <2>1. CASE IsMarketable(o, b, FALSE) \/ through
    <3>1. most = o.rem  BY <2>1 DEF OptimisticFill
    <3> QED  BY <2>0, <3>1
  <2>2. CASE ~(IsMarketable(o, b, FALSE) \/ through) /\ ~SameLevelReduction(o, d)
    <3>1. s.count = 0  BY <2>2 DEF QueueStep
    <3> HIDE DEF s, most
    <3> QED  BY <1>2, <3>1
  <2>3. CASE ~(IsMarketable(o, b, FALSE) \/ through) /\ SameLevelReduction(o, d)
    <3>0. n \in Nat /\ most = Least(o.rem, n)
      BY <2>3 DEF SameLevelReduction, DeltaSet, OptimisticFill
    <3>1. e.units \in Nat /\ e.units <= n  BY <3>0, EatenIsExact
    <3>2. q.ahead \in Nat  BY DEF QueueSet
    <3>3. s.count = IF ~AtTouch(o, b) THEN 0
                    ELSE IF left > 0 THEN Least(o.rem, left) ELSE 0
      BY <2>3 DEF QueueStep
    <3> HIDE DEF e, n
    <3>4. left \in Nat /\ left <= n  BY <3>0, <3>1, <3>2 DEF Least
    <3> HIDE DEF left, s, most
    <3> QED  BY <1>0, <3>0, <3>3, <3>4 DEF Least
  <2> QED  BY <2>1, <2>2, <2>3
<1> QED  BY <1>2, <1>3, <1>4

-----------------------------------------------------------------------------
(* Part 5.  The inductive invariant: the types, then what arrives, what    *)
(* is about to trade, and what the queue has paid for.                     *)
HoldsQueue(o) == o.status \in {"open", "pending_cancel"}

GoodOrders ==
  {o \in OrderSet : /\ o.rem <= o.count
                    /\ o.status = "filled" <=> o.rem = 0
                    /\ o.status = "pending_open" => o.rem = o.count}

TypeInv ==
  /\ model \in Models
  /\ events \in 0..MaxEvents /\ now \in Nat /\ nextId \in 1..(MaxOrders + 1)
  /\ lastSync \in Nat \cup {Never}
  /\ orders \in [1..(nextId - 1) -> GoodOrders]
  /\ pc \in {"event", "fills", "fillsOnly", "quotes", "place", "done"}
  /\ wanted \subseteq Intents
  /\ pc = "place" => nextId + Cardinality(wanted) <= MaxOrders + 1

(* An order that rests or is being canceled has arrived.                   *)
ArrivedInv == \A id \in Tracked : HoldsQueue(orders[id]) => orders[id].active <= now

(* Until the quotes are in place no order is due that has not been settled.*)
DueInv ==
  pc \in {"fills", "fillsOnly", "quotes"} =>
    \A id \in Tracked : orders[id].status = "pending_open" => now < orders[id].active

(* What is about to trade can, and its cancel has not arrived.             *)
CandidatesInv ==
  /\ DOMAIN candidates \subseteq Tracked
  /\ pc \notin {"fills", "fillsOnly"} => DOMAIN candidates = {}
  /\ \A id \in DOMAIN candidates :
       /\ candidates[id] \in Nat \ {0} /\ IsFillable(orders[id])
       /\ orders[id].status = "pending_cancel" => now < orders[id].canceledAt

(* What an order at q ahead, of which some traded and n are about to, has  *)
(* moved up is paid for by the reductions of its level since it joined.    *)
PaidFor(first, q, traded, n, lost) ==
  TradeDen * (first - q.ahead + traded + n) + q.residue <= TradeNum * lost

QueueInv ==
  /\ DOMAIN queue = IF model = "queue" THEN {id \in Tracked : HoldsQueue(orders[id])} ELSE {}
  /\ \A id \in DOMAIN queue : queue[id] \in QueueSet
  /\ joined \in [Ids -> Nat] /\ reduced \in [Ids -> Nat]
  /\ \A id \in Ids : (id \in Tracked => orders[id].status = "pending_open") => reduced[id] = 0
  /\ \A id \in DOMAIN queue :
       LET traded == orders[id].count - orders[id].rem
       IN  /\ PaidFor(joined[id], queue[id], traded, 0, reduced[id])
           /\ id \in DOMAIN candidates /\ candidates[id] < orders[id].rem =>
                PaidFor(joined[id], queue[id], traded, candidates[id], reduced[id])

(* What the queue lets trade is crossed or at the touch of its side.       *)
TouchInv ==
  model = "queue" => \A id \in DOMAIN candidates :
    IsMarketable(orders[id], book, FALSE) \/ AtTouch(orders[id], book)

-----------------------------------------------------------------------------
(* What changes the status of an order changes nothing else of it that     *)
(* counts, and wakes none.                                                 *)
Alike(o, s) ==
  /\ s.contract = o.contract /\ s.price = o.price /\ s.count = o.count /\ s.rem = o.rem
  /\ IsLive(s) => IsLive(o)

LEMMA GoodFields ==
  ASSUME NEW o \in GoodOrders
  PROVE  /\ o \in OrderSet
         /\ o.contract \in Contracts /\ o.price \in Grid /\ o.count \in Nat \ {0}
         /\ o.rem \in Nat /\ o.rem <= o.count /\ o.status \in Statuses
         /\ o.active \in Int /\ o.canceledAt \in Int /\ o.created \in Int
         /\ (o.status = "filled" <=> o.rem = 0)
         /\ (o.status = "pending_open" => o.rem = o.count)
BY DEF GoodOrders, OrderSet

LEMMA WithStatus ==
  ASSUME NEW o \in GoodOrders, NEW x \in {"open", "canceled"}, o.status # "filled",
         NEW s, s = [o EXCEPT !.status = x]
  PROVE  /\ s \in GoodOrders /\ s.status = x /\ s.active = o.active
         /\ s.canceledAt = o.canceledAt
         /\ s.contract = o.contract /\ s.price = o.price /\ s.count = o.count
         /\ s.rem = o.rem
BY DEF GoodOrders, OrderSet, Statuses

LEMMA Opened ==
  ASSUME NEW o \in GoodOrders, o.status # "filled", NEW s, s = [o EXCEPT !.status = "open"]
  PROVE  /\ s \in GoodOrders /\ s.status = "open" /\ s.active = o.active
         /\ s.contract = o.contract /\ s.price = o.price /\ s.count = o.count
         /\ s.rem = o.rem
BY WithStatus

LEMMA CanceledLate ==
  ASSUME NEW o \in GoodOrders, o.status # "filled", NEW s, s = [o EXCEPT !.status = "canceled"]
  PROVE  /\ s \in GoodOrders /\ s.status = "canceled" /\ s.active = o.active
         /\ s.contract = o.contract /\ s.price = o.price /\ s.count = o.count
         /\ s.rem = o.rem
BY WithStatus

Settle(o, t) ==
  IF IsDue(o, t) THEN [o EXCEPT !.status = "open"]
  ELSE IF EndsBy(o, t) THEN [o EXCEPT !.status = "canceled"]
  ELSE o

LEMMA SettleIsGood ==
  ASSUME NEW o \in GoodOrders, NEW t \in Nat
  PROVE  LET s == Settle(o, t)
         IN  /\ s \in GoodOrders /\ Alike(o, s) /\ s.active = o.active
             /\ s.status = "pending_open" => o.status = "pending_open" /\ t < s.active
             /\ s.status = "pending_cancel" => o.status = "pending_cancel" /\ t < s.canceledAt
             /\ s.status = "open" => o.status = "open" \/ s.active <= t
             /\ HoldsQueue(o) => s.status # "pending_open"
             /\ HoldsQueue(s) => HoldsQueue(o) \/ o.status = "pending_open"
<1> DEFINE s == Settle(o, t)
<1>0. o.active \in Int /\ o.canceledAt \in Int  BY GoodFields
<1>1. CASE IsDue(o, t)
  <2>1. s = [o EXCEPT !.status = "open"]  BY <1>1 DEF Settle
  <2>2. o.status = "pending_open" /\ o.active <= t  BY <1>1 DEF IsDue
  <2>3. /\ s \in GoodOrders /\ s.status = "open" /\ s.active = o.active
        /\ s.contract = o.contract /\ s.price = o.price /\ s.count = o.count
        /\ s.rem = o.rem
    <3>1. o.status # "filled"  BY <2>2
    <3> HIDE DEF s
    <3> QED  BY Zenon, <2>1, <3>1, Opened
  <2> HIDE DEF s
  <2>4. Alike(o, s)  BY <2>2, <2>3 DEF Alike, IsLive
  <2> QED  BY <2>2, <2>3, <2>4 DEF s, HoldsQueue
<1>2. CASE ~IsDue(o, t) /\ EndsBy(o, t)
  <2>1. s = [o EXCEPT !.status = "canceled"]  BY <1>2 DEF Settle
  <2>2. o.status = "pending_cancel"  BY <1>2 DEF EndsBy
  <2>3. /\ s \in GoodOrders /\ s.status = "canceled" /\ s.active = o.active
        /\ s.contract = o.contract /\ s.price = o.price /\ s.count = o.count
        /\ s.rem = o.rem
    <3>1. o.status # "filled"  BY <2>2
    <3> HIDE DEF s
    <3> QED  BY Zenon, <2>1, <3>1, CanceledLate
  <2> HIDE DEF s
  <2>4. Alike(o, s)  BY <2>2, <2>3 DEF Alike, IsLive
  <2> QED  BY <2>2, <2>3, <2>4 DEF s, HoldsQueue
<1>3. CASE ~IsDue(o, t) /\ ~EndsBy(o, t)
  <2>1. s = o  BY <1>3 DEF Settle
  <2> HIDE DEF s
  <2>2. s.status = "pending_cancel" => t < s.canceledAt
    BY <1>0, <1>3, <2>1 DEF EndsBy
  <2>3. Alike(o, s)  BY <2>1 DEF Alike
  <2>4. s.status = "pending_open" => t < s.active  BY <1>0, <1>3, <2>1 DEF IsDue
  <2> QED  BY <2>1, <2>2, <2>3, <2>4 DEF s, HoldsQueue
<1> QED  BY <1>1, <1>2, <1>3

LEMMA CanceledIsGood ==
  ASSUME NEW o \in GoodOrders, IsLive(o), now \in Nat
  PROVE  LET s == Canceled(o)
         IN  /\ s \in GoodOrders /\ Alike(o, s) /\ s.active = o.active
             /\ s.status = "canceled" \/ (s.status = "pending_cancel" /\ HoldsQueue(o))
<1> DEFINE s == Canceled(o)
<1>0. o.status # "filled" /\ now \in Int /\ now + Latency \in Int
  BY BacktestAssumption DEF IsLive
<1>1. CASE o.status = "pending_open" \/ Latency = 0
  <2>1. s = [o EXCEPT !.status = "canceled", !.canceledAt = now]  BY <1>1 DEF Canceled
  <2>2. /\ s \in GoodOrders /\ s.status = "canceled" /\ s.active = o.active
        /\ s.contract = o.contract /\ s.price = o.price /\ s.count = o.count
        /\ s.rem = o.rem
    BY <1>0, <2>1 DEF GoodOrders, OrderSet, Statuses
  <2> HIDE DEF s
  <2>3. Alike(o, s)  BY <2>2 DEF Alike, IsLive
  <2> QED  BY <2>2, <2>3 DEF s
<1>2. CASE ~(o.status = "pending_open" \/ Latency = 0)
  <2>1. s = [o EXCEPT !.status = "pending_cancel", !.canceledAt = now + Latency]
    BY <1>2 DEF Canceled
  <2>2. /\ s \in GoodOrders /\ s.status = "pending_cancel" /\ s.active = o.active
        /\ s.contract = o.contract /\ s.price = o.price /\ s.count = o.count
        /\ s.rem = o.rem
    BY <1>0, <2>1 DEF GoodOrders, OrderSet, Statuses
  <2> HIDE DEF s
  <2>3. Alike(o, s)  BY <2>2 DEF Alike, IsLive
  <2>4. HoldsQueue(o)  BY <1>2 DEF IsLive, HoldsQueue
  <2> QED  BY <2>2, <2>3, <2>4 DEF s
<1> QED  BY <1>1, <1>2

LEMMA SettledIsGood ==
  ASSUME TypeInv, NEW t \in Nat
  PROVE  /\ Settled(t) \in [1..(nextId - 1) -> GoodOrders]
         /\ \A id \in Tracked : Settled(t)[id] = Settle(orders[id], t)
         /\ Tracked = 1..(nextId - 1)
<1>1. Tracked = 1..(nextId - 1)  BY DEF TypeInv, Tracked
<1>2. Settled(t) = [id \in Tracked |-> Settle(orders[id], t)]  BY DEF Settled, Settle
<1>3. \A id \in Tracked : Settle(orders[id], t) \in GoodOrders
  BY <1>1, SettleIsGood DEF TypeInv
<1> QED  BY <1>1, <1>2, <1>3

(* The numbers of the orders are ids.                                      *)
LEMMA TrackedAreIds ==
  ASSUME TypeInv
  PROVE  /\ Tracked = 1..(nextId - 1) /\ Tracked \subseteq Ids /\ Tracked \subseteq 0..MaxOrders
         /\ nextId \in Nat /\ MaxOrders \in Nat /\ nextId - 1 \in 0..MaxOrders
         /\ \A id \in Tracked : orders[id] \in GoodOrders
<1>1. MaxOrders \in Nat  BY BacktestAssumption
<1>2. nextId \in 1..(MaxOrders + 1)  BY DEF TypeInv
<1>3. Tracked = 1..(nextId - 1)  BY DEF TypeInv, Tracked
<1> QED  BY <1>1, <1>2, <1>3 DEF Ids, TypeInv

-----------------------------------------------------------------------------
(* Part 6.  One event: the due orders are settled, the queue moves, the    *)
(* fill model answers.                                                     *)
LEMMA BookIsRecord == BookInv => book \in BookSet
<1> SUFFICES ASSUME BookInv  PROVE book \in BookSet
  OBVIOUS
<1>1. book = [bids |-> book.bids, asks |-> book.asks,
              bestBid |-> Highest(Offered(book.bids)), bestAsk |-> Lowest(Offered(book.asks))]
  BY DEF BookInv, FromSnapshot
<1>2. book.bids \in Levels /\ book.asks \in Levels  BY DEF BookInv
<1>3. /\ Highest(Offered(book.bids)) \in Prices \cup {NoPrice}
      /\ Lowest(Offered(book.asks)) \in Prices \cup {NoPrice}
  BY <1>2, BestIsPrice
<1> QED  BY <1>1, <1>2, <1>3 DEF BookSet

LEMMA SizeIsNat ==
  ASSUME NEW b \in BookSet, NEW o \in OrderSet
  PROVE  SizeAt(b, o) \in Nat
<1>1. o.price \in Prices  BY GridAssumption DEF OrderSet
<1>2. b.bids[o.price] \in 0..MaxSize /\ b.asks[o.price] \in 0..MaxSize
  BY <1>1 DEF BookSet, Levels
<1> QED  BY <1>2, GridAssumption DEF SizeAt

LEMMA JoinedIsTyped ==
  ASSUME NEW n \in Nat
  PROVE  Joined(n) \in QueueSet /\ Joined(n).ahead = n /\ Joined(n).residue = 0
BY FractionIsTyped DEF Joined, QueueSet

(* The queue of the orders os on the book b.                               *)
LEMMA QueueAfterIs ==
  ASSUME TypeInv, QueueInv, NEW S \in SUBSET Ids, NEW os \in [S -> GoodOrders],
         NEW b \in BookSet
  PROVE  LET q == QueueAfter(os, b)
         IN  /\ model = "queue" => DOMAIN q = {id \in S : HoldsQueue(os[id])}
             /\ model # "queue" => q = queue /\ DOMAIN q = {}
             /\ \A id \in DOMAIN q : q[id] \in QueueSet
             /\ \A id \in DOMAIN q \cap DOMAIN queue : q[id] = queue[id]
             /\ \A id \in DOMAIN q \ DOMAIN queue : q[id].residue = 0
<1> DEFINE q == QueueAfter(os, b)
<1>1. CASE model = "queue"
  <2> DEFINE holding == {id \in DOMAIN os : os[id].status \in {"open", "pending_cancel"}}
  <2>1. q = [id \in holding |-> IF id \in DOMAIN queue THEN queue[id]
                                ELSE Joined(SizeAt(b, os[id]))]
    BY <1>1 DEF QueueAfter
  <2>2. holding = {id \in S : HoldsQueue(os[id])}  BY DEF HoldsQueue
  <2>3. \A id \in holding : os[id] \in OrderSet  BY GoodFields
  <2>4. \A id \in holding : /\ Joined(SizeAt(b, os[id])) \in QueueSet
                            /\ Joined(SizeAt(b, os[id])).residue = 0
    BY <2>3, SizeIsNat, JoinedIsTyped
  <2>5. \A id \in DOMAIN queue : queue[id] \in QueueSet  BY DEF QueueInv
  <2> HIDE DEF q, holding
  <2>6. DOMAIN q = holding  BY <2>1
  <2>7. \A id \in holding : id \in DOMAIN queue => q[id] = queue[id]  BY <2>1
  <2>8. \A id \in holding : id \notin DOMAIN queue => q[id] = Joined(SizeAt(b, os[id]))
    BY <2>1
  <2>9. \A id \in DOMAIN q : q[id] \in QueueSet  BY <2>4, <2>5, <2>6, <2>7, <2>8
  <2>10. \A id \in DOMAIN q \cap DOMAIN queue : q[id] = queue[id]  BY <2>6, <2>7
  <2>11. \A id \in DOMAIN q \ DOMAIN queue : q[id].residue = 0  BY <2>4, <2>6, <2>8
  <2> QED  BY <1>1, <2>2, <2>6, <2>9, <2>10, <2>11 DEF q
<1>2. CASE model # "queue"
  <2>1. q = queue  BY <1>2 DEF QueueAfter
  <2>2. DOMAIN queue = {}  BY <1>2 DEF QueueInv
  <2> QED  BY <1>2, <2>1, <2>2
<1> QED  BY <1>1, <1>2

(* What the fill model answers.                                            *)
LEMMA FillIsTyped ==
  ASSUME TypeInv, NEW o \in OrderSet, NEW q \in QueueSet, NEW b \in BookSet,
         NEW d \in DeltaSet
  PROVE  FillOf(o, q, b, d) \in Nat /\ FillOf(o, q, b, d) <= o.rem
<1>1. QueueStep(o, q, b, d).count \in Nat /\ QueueStep(o, q, b, d).count <= o.rem
  BY StepPays
<1>2. /\ PessimisticFill(o, b, d) \in Nat /\ PessimisticFill(o, b, d) <= o.rem
      /\ OptimisticFill(o, b, d) \in Nat /\ OptimisticFill(o, b, d) <= o.rem
  BY ModelsAreBracketed
<1>3. \/ FillOf(o, q, b, d) = QueueStep(o, q, b, d).count
      \/ FillOf(o, q, b, d) = PessimisticFill(o, b, d)
      \/ FillOf(o, q, b, d) = OptimisticFill(o, b, d)
  <2>1. CASE model = "optimistic"  BY <2>1 DEF FillOf
  <2>2. CASE model = "pessimistic"  BY <2>2 DEF FillOf
  <2>3. CASE model # "optimistic" /\ model # "pessimistic"  BY <2>3 DEF FillOf
  <2> QED  BY <2>1, <2>2, <2>3
<1> QED  BY <1>1, <1>2, <1>3

LEMMA PaidAdds ==
  ASSUME NEW first \in Nat, NEW q \in QueueSet, NEW r \in QueueSet, NEW traded \in Nat,
         NEW n \in Nat, NEW lost \in Nat, NEW more \in Nat,
         PaidFor(first, q, traded, 0, lost), Paid(q, r, n, more)
  PROVE  PaidFor(first, r, traded, n, lost + more)
<1>0. TradeDen \in Int /\ TradeNum \in Int  BY FractionIsTyped
<1>1. /\ q.ahead \in Int /\ r.ahead \in Int /\ q.residue \in Int /\ r.residue \in Int
  BY <1>0 DEF QueueSet
<1> DEFINE a == first - q.ahead + traded + 0
           c == q.ahead - r.ahead + n
           x == TradeDen * a
           y == TradeDen * c
           z == TradeNum * lost
           w == TradeNum * more
<1>2. a \in Int /\ c \in Int /\ a + c = first - r.ahead + traded + n  BY <1>1
<1>3. x + q.residue <= z  BY DEF PaidFor
<1>4. y + r.residue <= w + q.residue  BY DEF Paid
<1> HIDE DEF a, c
<1>5. x \in Int /\ y \in Int /\ z \in Int /\ w \in Int  BY <1>0, <1>2, Distribution
<1>6. TradeDen * (a + c) = x + y  BY <1>0, <1>2, Distribution
<1>7. TradeNum * (lost + more) = z + w  BY <1>0, Distribution
<1> HIDE DEF x, y, z, w
<1>8. x + y + r.residue <= z + w  BY <1>1, <1>3, <1>4, <1>5
<1>9. TradeDen * (first - r.ahead + traded + n) = x + y  BY <1>2, <1>6
<1>10. TradeDen * (first - r.ahead + traded + n) + r.residue <= TradeNum * (lost + more)
  BY <1>7, <1>8, <1>9
<1> QED  BY <1>10 DEF PaidFor

LEMMA JoiningIsPaid ==
  ASSUME NEW q \in QueueSet, q.residue = 0
  PROVE  PaidFor(q.ahead, q, 0, 0, 0)
<1>1. q.ahead \in Int /\ TradeDen \in Int /\ TradeNum \in Int  BY FractionIsTyped DEF QueueSet
<1>2. q.ahead - q.ahead + 0 + 0 = 0  BY <1>1
<1>3. TradeDen * 0 = 0 /\ TradeNum * 0 = 0  BY <1>1
<1> QED  BY <1>2, <1>3 DEF PaidFor

LEMMA ProcessKeeps ==
  ASSUME TypeInv, CandidatesInv, QueueInv, ArrivedInv,
         NEW b \in BookSet, NEW d \in DeltaSet, NEW time \in Nat, now <= time,
         events < MaxEvents, Process(b, d, time), pc = "event", pc' \in {"fills", "fillsOnly"},
         model' = model, nextId' = nextId, lastSync' = lastSync, wanted' = wanted
  PROVE  TypeInv' /\ CandidatesInv' /\ QueueInv' /\ ArrivedInv' /\ DueInv' /\ TouchInv'
<1> DEFINE settled == Settled(time)
           q == QueueAfter(settled, b)
           fillable == {id \in Tracked : IsFillable(settled[id])}
           count(id) == FillOf(settled[id], QueueOf(q, id), b, d)
<1>1. /\ settled \in [Tracked -> GoodOrders]
      /\ \A id \in Tracked : settled[id] = Settle(orders[id], time)
  BY SettledIsGood
<1>2. /\ Tracked = 1..(nextId - 1) /\ Tracked \subseteq Ids
      /\ \A id \in Tracked : orders[id] \in GoodOrders
  BY TrackedAreIds
<1>3. /\ model = "queue" => DOMAIN q = {id \in Tracked : HoldsQueue(settled[id])}
      /\ model # "queue" => q = queue /\ DOMAIN q = {}
      /\ \A id \in DOMAIN q : q[id] \in QueueSet
      /\ \A id \in DOMAIN q \cap DOMAIN queue : q[id] = queue[id]
      /\ \A id \in DOMAIN q \ DOMAIN queue : q[id].residue = 0
  BY <1>1, <1>2, QueueAfterIs
<1>4. /\ events' = events + 1 /\ now' = time /\ book' = b /\ orders' = settled
      /\ queue' = [id \in DOMAIN q |-> Advanced(q[id], settled[id], b, d)]
      /\ candidates' = [id \in {k \in fillable : count(k) > 0} |-> count(id)]
      /\ joined' = [id \in Ids |-> IF id \in DOMAIN q \ DOMAIN queue THEN q[id].ahead
                                   ELSE joined[id]]
      /\ reduced' = [id \in Ids |->
            reduced[id] + IF id \in fillable /\ SameLevelReduction(settled[id], d)
                          THEN -d.change ELSE 0]
  BY DEF Process
<1>5. \A id \in Tracked :
        /\ settled[id] \in GoodOrders /\ settled[id] \in OrderSet
        /\ settled[id].active = orders[id].active
        /\ settled[id].rem = orders[id].rem /\ settled[id].count = orders[id].count
        /\ settled[id].status = "pending_open" =>
             orders[id].status = "pending_open" /\ time < settled[id].active
        /\ settled[id].status = "pending_cancel" =>
             orders[id].status = "pending_cancel" /\ time < settled[id].canceledAt
        /\ settled[id].status = "open" => orders[id].status = "open" \/ settled[id].active <= time
        /\ HoldsQueue(settled[id]) => HoldsQueue(orders[id]) \/ orders[id].status = "pending_open"
  <2> SUFFICES ASSUME NEW id \in Tracked
      PROVE  /\ settled[id] \in GoodOrders /\ settled[id] \in OrderSet
             /\ settled[id].active = orders[id].active
             /\ settled[id].rem = orders[id].rem /\ settled[id].count = orders[id].count
             /\ settled[id].status = "pending_open" =>
                  orders[id].status = "pending_open" /\ time < settled[id].active
             /\ settled[id].status = "pending_cancel" =>
                  orders[id].status = "pending_cancel" /\ time < settled[id].canceledAt
             /\ settled[id].status = "open" => orders[id].status = "open" \/ settled[id].active <= time
             /\ HoldsQueue(settled[id]) => HoldsQueue(orders[id]) \/ orders[id].status = "pending_open"
    OBVIOUS
  <2> DEFINE s == Settle(orders[id], time)
  <2>1. settled[id] = s /\ orders[id] \in GoodOrders  BY <1>1, <1>2
  <2> HIDE DEF settled
  <2>2. /\ s \in GoodOrders /\ Alike(orders[id], s) /\ s.active = orders[id].active
        /\ s.status = "pending_open" => orders[id].status = "pending_open" /\ time < s.active
        /\ s.status = "pending_cancel" => orders[id].status = "pending_cancel" /\ time < s.canceledAt
        /\ s.status = "open" => orders[id].status = "open" \/ s.active <= time
        /\ HoldsQueue(s) => HoldsQueue(orders[id]) \/ orders[id].status = "pending_open"
    BY <2>1, SettleIsGood
  <2> HIDE DEF s
  <2>3. s \in OrderSet  BY <2>2, GoodFields
  <2> QED  BY <2>1, <2>2, <2>3 DEF Alike
<1>6. \A id \in Tracked : QueueOf(q, id) \in QueueSet
  <2>1. Unqueued \in QueueSet  BY JoinedIsTyped DEF Unqueued
  <2> HIDE DEF q
  <2> QED  BY <1>3, <2>1 DEF QueueOf
<1>7. \A id \in Tracked : count(id) \in Nat /\ count(id) <= settled[id].rem
  BY <1>5, <1>6, FillIsTyped
<1>8. \A id \in Tracked : IsFillable(settled[id]) <=> HoldsQueue(settled[id])
  <2> SUFFICES ASSUME NEW id \in Tracked
               PROVE  IsFillable(settled[id]) <=> HoldsQueue(settled[id])
    OBVIOUS
  <2>1. settled[id] \in GoodOrders  BY <1>5
  <2> HIDE DEF settled
  <2>2. settled[id].rem \in Nat /\ (settled[id].status = "filled" <=> settled[id].rem = 0)
    BY <2>1, GoodFields
  <2> QED  BY <2>2 DEF IsFillable, HoldsQueue
<1> HIDE DEF settled, q, count
<1>9. Tracked' = Tracked  BY <1>1, <1>4 DEF Tracked
<1>10. TypeInv'
  <2>1. orders' \in [1..(nextId' - 1) -> GoodOrders]  BY <1>1, <1>2, <1>4
  <2>2. events' \in 0..MaxEvents  BY <1>4, BacktestAssumption DEF TypeInv
  <2>3. now' \in Nat  BY <1>4
  <2>4. pc' # "place" /\ pc' \in {"event", "fills", "fillsOnly", "quotes", "place", "done"}
    OBVIOUS
  <2> QED  BY <2>1, <2>2, <2>3, <2>4 DEF TypeInv
<1>11. ArrivedInv'
  <2> SUFFICES ASSUME NEW id \in Tracked, HoldsQueue(settled[id])
               PROVE  settled[id].active <= time
    BY <1>4, <1>9 DEF ArrivedInv
  <2>1. settled[id].active \in Int /\ now \in Nat  BY <1>5, GoodFields DEF TypeInv
  <2>2. CASE orders[id].status = "pending_open"
    <3>1. settled[id].status = "open"  BY <1>5, <2>2 DEF HoldsQueue
    <3> QED  BY <1>5, <2>2, <3>1
  <2>3. CASE HoldsQueue(orders[id])
    <3>1. orders[id].active <= now  BY <2>3 DEF ArrivedInv
    <3> QED  BY <1>5, <2>1, <3>1
  <2> QED  BY <1>5, <2>2, <2>3
<1>12. /\ DOMAIN candidates' = {id \in fillable : count(id) > 0}
       /\ \A id \in DOMAIN candidates' : candidates'[id] = count(id)
  BY <1>4
<1>13. CandidatesInv'
  <2>1. DOMAIN candidates' \subseteq Tracked'  BY <1>9, <1>12
  <2>2. ASSUME NEW id \in DOMAIN candidates'
        PROVE  /\ candidates'[id] \in Nat \ {0} /\ IsFillable(orders'[id])
               /\ orders'[id].status = "pending_cancel" => now' < orders'[id].canceledAt
    <3>1. id \in Tracked /\ IsFillable(settled[id]) /\ count(id) > 0  BY <1>12
    <3>2. count(id) \in Nat  BY <1>7, <3>1
    <3>3. candidates'[id] \in Nat \ {0}  BY <1>12, <3>1, <3>2
    <3>4. settled[id].status = "pending_cancel" => time < settled[id].canceledAt
      BY <1>5, <3>1
    <3> QED  BY <1>4, <3>1, <3>3, <3>4
  <2> QED  BY <2>1, <2>2 DEF CandidatesInv
<1>14. DOMAIN queue' = DOMAIN q
       /\ \A id \in DOMAIN q : queue'[id] = Advanced(q[id], settled[id], b, d)
  BY <1>4
<1>15. DOMAIN q \subseteq Tracked /\ (DOMAIN q # {} => model = "queue")
       /\ \A id \in DOMAIN q : HoldsQueue(settled[id])
  BY <1>3
<1>16. \A id \in Ids : reduced'[id] = reduced[id] + IF id \in fillable THEN Lost(settled[id], d) ELSE 0
  BY <1>4 DEF Lost
<1>17. \A id \in Tracked : Lost(settled[id], d) \in Nat  BY LostIsNat
<1>18. joined \in [Ids -> Nat] /\ reduced \in [Ids -> Nat]  BY DEF QueueInv
<1>19. joined' \in [Ids -> Nat]
  <2>1. \A id \in DOMAIN q : q[id].ahead \in Nat  BY <1>3 DEF QueueSet
  <2> QED  BY <1>4, <1>18, <2>1
<1>20. reduced' \in [Ids -> Nat]
  <2>1. \A id \in Ids : reduced'[id] \in Nat  BY <1>16, <1>17, <1>18
  <2> QED  BY <1>4, <2>1
<1>21. ASSUME NEW id \in DOMAIN q
       PROVE  LET r == QueueStep(settled[id], q[id], b, d)
                  traded == settled[id].count - settled[id].rem
              IN  /\ queue'[id] = r.queue /\ count(id) = r.count /\ r.queue \in QueueSet
                  /\ PaidFor(joined'[id], r.queue, traded, 0, reduced'[id])
                  /\ r.count < settled[id].rem =>
                       PaidFor(joined'[id], r.queue, traded, r.count, reduced'[id])
                  /\ r.count > 0 => IsMarketable(settled[id], b, FALSE) \/ AtTouch(settled[id], b)
  <2> DEFINE r == QueueStep(settled[id], q[id], b, d)
             traded == settled[id].count - settled[id].rem
             lost == Lost(settled[id], d)
  <2>1. id \in Tracked /\ id \in Ids /\ model = "queue" /\ HoldsQueue(settled[id])
    BY <1>2, <1>15
  <2>2. q[id] \in QueueSet /\ settled[id] \in OrderSet  BY <1>3, <1>5, <2>1
  <2>3. /\ r.queue \in QueueSet /\ r.count \in Nat
        /\ Paid(q[id], r.queue, 0, lost)
        /\ r.count < settled[id].rem => Paid(q[id], r.queue, r.count, lost)
        /\ r.count > 0 => IsMarketable(settled[id], b, FALSE) \/ AtTouch(settled[id], b)
    BY <2>2, StepPays
  <2>4. queue'[id] = r.queue  BY <1>14, <2>1 DEF Advanced
  <2>5. count(id) = r.count
    <3>1. QueueOf(q, id) = q[id]  BY DEF QueueOf
    <3>2. model # "optimistic" /\ model # "pessimistic"  BY <2>1
    <3> QED  BY <3>1, <3>2 DEF count, FillOf
  <2>6. id \in fillable  BY <1>8, <2>1
  <2>7. reduced'[id] = reduced[id] + lost  BY <1>16, <2>1, <2>6
  <2>8. traded \in Nat
    <3>1. settled[id] \in GoodOrders  BY <1>5, <2>1
    <3> QED  BY <3>1, GoodFields
  <2>9. PaidFor(joined'[id], q[id], traded, 0, reduced[id]) /\ joined'[id] \in Nat
    <3>1. CASE id \in DOMAIN queue
      <4>1. q[id] = queue[id]  BY <1>3, <3>1
      <4>2. joined'[id] = joined[id] /\ joined[id] \in Nat  BY <1>4, <1>18, <2>1, <3>1
      <4>3. PaidFor(joined[id], queue[id], orders[id].count - orders[id].rem, 0, reduced[id])
        BY <3>1 DEF QueueInv
      <4>4. traded = orders[id].count - orders[id].rem  BY <1>5, <2>1
      <4> QED  BY <4>1, <4>2, <4>3, <4>4
    <3>2. CASE id \notin DOMAIN queue
      <4>1. ~HoldsQueue(orders[id])  BY <2>1, <3>2 DEF QueueInv
      <4>2. orders[id].status = "pending_open"  BY <1>5, <2>1, <4>1
      <4>3. reduced[id] = 0  BY <2>1, <4>2 DEF QueueInv
      <4>4. orders[id].rem = orders[id].count /\ orders[id].count \in Nat
        BY <1>2, <2>1, <4>2, GoodFields
      <4>5. traded = 0  BY <1>5, <2>1, <4>4
      <4>6. joined'[id] = q[id].ahead  BY <1>4, <2>1, <3>2
      <4>7. q[id].residue = 0  BY <1>3, <3>2
      <4>8. PaidFor(q[id].ahead, q[id], 0, 0, 0)  BY <2>2, <4>7, JoiningIsPaid
      <4>9. q[id].ahead \in Nat  BY <2>2 DEF QueueSet
      <4> HIDE DEF traded
      <4> QED  BY <4>3, <4>5, <4>6, <4>8, <4>9
    <3> QED  BY <3>1, <3>2
  <2>10. reduced[id] \in Nat /\ lost \in Nat  BY <1>17, <1>18, <2>1
  <2> HIDE DEF r, traded, lost
  <2>11. PaidFor(joined'[id], r.queue, traded, 0, reduced'[id])
    <3>1. PaidFor(joined'[id], r.queue, traded, 0, reduced[id] + lost)
      BY <2>2, <2>3, <2>8, <2>9, <2>10, PaidAdds
    <3> QED  BY <2>7, <3>1
  <2>12. r.count < settled[id].rem => PaidFor(joined'[id], r.queue, traded, r.count, reduced'[id])
    <3> SUFFICES ASSUME r.count < settled[id].rem
                 PROVE  PaidFor(joined'[id], r.queue, traded, r.count, reduced'[id])
      OBVIOUS
    <3>1. PaidFor(joined'[id], r.queue, traded, r.count, reduced[id] + lost)
      BY <2>2, <2>3, <2>8, <2>9, <2>10, PaidAdds
    <3> QED  BY <2>7, <3>1
  <2> QED  BY <2>3, <2>4, <2>5, <2>11, <2>12 DEF r, traded
<1>22. QueueInv'
  <2>1. DOMAIN queue' = IF model' = "queue" THEN {id \in Tracked' : HoldsQueue(orders'[id])} ELSE {}
    BY <1>3, <1>4, <1>9, <1>14
  <2>2. \A id \in DOMAIN queue' : queue'[id] \in QueueSet  BY <1>14, <1>21
  <2>3. ASSUME NEW id \in Ids, id \in Tracked' => orders'[id].status = "pending_open"
        PROVE  reduced'[id] = 0
    <3>1. id \notin fillable
      <4>1. CASE id \in Tracked
        <5>1. settled[id].status = "pending_open"  BY <1>4, <1>9, <2>3, <4>1
        <5> QED  BY <5>1 DEF IsFillable
      <4>2. CASE id \notin Tracked  BY <4>2
      <4> QED  BY <4>1, <4>2
    <3>2. id \in Tracked => orders[id].status = "pending_open"
      BY <1>4, <1>5, <1>9, <2>3
    <3>3. reduced[id] = 0  BY <3>2 DEF QueueInv
    <3> QED  BY <1>16, <3>1, <3>3
  <2>4. ASSUME NEW id \in DOMAIN queue'
        PROVE  LET traded == orders'[id].count - orders'[id].rem
               IN  /\ PaidFor(joined'[id], queue'[id], traded, 0, reduced'[id])
                   /\ id \in DOMAIN candidates' /\ candidates'[id] < orders'[id].rem =>
                        PaidFor(joined'[id], queue'[id], traded, candidates'[id], reduced'[id])
    <3>1. id \in DOMAIN q  BY <1>14
    <3>2. id \in DOMAIN candidates' => candidates'[id] = count(id)  BY <1>12
    <3> HIDE DEF PaidFor
    <3> QED  BY <1>4, <1>21, <3>1, <3>2
  <2> QED  BY <1>19, <1>20, <2>1, <2>2, <2>3, <2>4 DEF QueueInv
<1>23. TouchInv'
  <2> SUFFICES ASSUME model = "queue", NEW id \in DOMAIN candidates'
               PROVE  IsMarketable(settled[id], b, FALSE) \/ AtTouch(settled[id], b)
    BY <1>4 DEF TouchInv
  <2>1. id \in Tracked /\ IsFillable(settled[id]) /\ count(id) > 0  BY <1>12
  <2>2. id \in DOMAIN q  BY <1>3, <1>8, <2>1
  <2> QED  BY <1>21, <2>1, <2>2
<1>24. DueInv'
  <2> SUFFICES ASSUME NEW id \in Tracked, settled[id].status = "pending_open"
               PROVE  time < settled[id].active
    BY <1>4, <1>9 DEF DueInv
  <2> QED  BY <1>5
<1> QED  BY <1>10, <1>11, <1>13, <1>22, <1>23, <1>24

-----------------------------------------------------------------------------
(* Part 7.  The other steps.                                               *)
LEMMA TradedIsGood ==
  ASSUME NEW o \in GoodOrders, IsFillable(o), NEW n \in Nat \ {0}, n <= o.rem
  PROVE  LET s == Traded(o, n)
         IN  /\ s \in GoodOrders
             /\ s.contract = o.contract /\ s.price = o.price /\ s.count = o.count
             /\ s.rem = o.rem - n /\ s.active = o.active /\ s.canceledAt = o.canceledAt
             /\ s.status = IF o.rem = n THEN "filled" ELSE o.status
<1> DEFINE s == Traded(o, n)
<1>1. o \in OrderSet /\ o.rem \in Nat /\ o.count \in Nat /\ o.rem <= o.count
  BY GoodFields
<1>2. s = [o EXCEPT !.rem = o.rem - n, !.status = IF o.rem = n THEN "filled" ELSE o.status]
  BY DEF Traded
<1>3. o.rem - n \in Nat /\ (o.rem - n = 0 <=> o.rem = n)  BY <1>1
<1>4. o.status \in {"open", "pending_cancel"}  BY DEF IsFillable
<1>5. /\ s.contract = o.contract /\ s.price = o.price /\ s.count = o.count
      /\ s.rem = o.rem - n /\ s.active = o.active /\ s.canceledAt = o.canceledAt
      /\ s.status = IF o.rem = n THEN "filled" ELSE o.status
  BY <1>1, <1>2 DEF OrderSet
<1>6. s \in OrderSet  BY <1>1, <1>2, <1>3, <1>4 DEF OrderSet, Statuses
<1> HIDE DEF s
<1>7. s \in GoodOrders  BY <1>1, <1>3, <1>4, <1>5, <1>6 DEF GoodOrders
<1> QED  BY <1>5, <1>7 DEF s

(* What was about to trade has traded.                                     *)
LEMMA TradingIsPaid ==
  ASSUME NEW first \in Nat, NEW q \in QueueSet, NEW traded \in Nat, NEW n \in Nat,
         NEW lost \in Nat, PaidFor(first, q, traded, n, lost)
  PROVE  PaidFor(first, q, traded + n, 0, lost)
<1>1. q.ahead \in Int  BY DEF QueueSet
<1>2. first - q.ahead + (traded + n) + 0 = first - q.ahead + traded + n  BY <1>1
<1> QED  BY <1>2 DEF PaidFor

LEMMA FillKeeps ==
  ASSUME TypeInv, CandidatesInv, QueueInv, ArrivedInv, DueInv, TouchInv, BookInv,
         NEW id \in DOMAIN candidates, Fill(id), model' = model
  PROVE  TypeInv' /\ CandidatesInv' /\ QueueInv' /\ ArrivedInv' /\ DueInv' /\ TouchInv'
<1> DEFINE o == orders[id]
           n == Least(candidates[id], o.rem)
           s == Traded(o, n)
           q == QueueAfter(orders', book)
<1>1. /\ Tracked = 1..(nextId - 1) /\ Tracked \subseteq Ids
      /\ \A k \in Tracked : orders[k] \in GoodOrders
  BY TrackedAreIds
<1>2. id \in Tracked /\ o \in GoodOrders  BY <1>1 DEF CandidatesInv
<1>3. candidates[id] \in Nat \ {0} /\ IsFillable(o)  BY DEF CandidatesInv
<1>4. o.rem \in Nat \ {0} /\ o.count \in Nat /\ o.rem <= o.count
  <2>1. o.rem \in Nat /\ o.count \in Nat /\ o.rem <= o.count  BY <1>2, GoodFields
  <2>2. o.rem > 0  BY <1>3 DEF IsFillable
  <2> QED  BY <2>1, <2>2
<1>5. n \in Nat \ {0} /\ n <= o.rem /\ (n < o.rem => n = candidates[id] /\ candidates[id] < o.rem)
  BY <1>3, <1>4 DEF Least
<1>6. /\ orders' = [orders EXCEPT ![id] = s]
      /\ queue' = q
      /\ candidates' = [k \in DOMAIN candidates \ {id} |-> candidates[k]]
      /\ UNCHANGED <<book, events, now, nextId, lastSync, pc, wanted, joined, reduced>>
      /\ pc \in {"fills", "fillsOnly"}
  BY DEF Fill, history
<1> HIDE DEF n
<1>7. /\ s \in GoodOrders
      /\ s.contract = o.contract /\ s.price = o.price /\ s.count = o.count
      /\ s.rem = o.rem - n /\ s.active = o.active /\ s.canceledAt = o.canceledAt
      /\ s.status = IF o.rem = n THEN "filled" ELSE o.status
  BY <1>2, <1>3, <1>5, TradedIsGood
<1> HIDE DEF s, q
<1>8. orders' \in [Tracked -> GoodOrders] /\ Tracked' = Tracked
      /\ orders'[id] = s /\ \A k \in Tracked : k # id => orders'[k] = orders[k]
  <2>1. orders \in [Tracked -> GoodOrders]  BY <1>1 DEF TypeInv
  <2> QED  BY <1>2, <1>6, <1>7, <2>1 DEF Tracked
<1>9. o.status \in {"open", "pending_cancel"}  BY <1>3 DEF IsFillable
<1>10. HoldsQueue(s) <=> n < o.rem
  BY <1>4, <1>5, <1>7, <1>9 DEF HoldsQueue
<1>11. /\ model = "queue" => DOMAIN q = {k \in Tracked : HoldsQueue(orders'[k])}
       /\ model # "queue" => q = queue /\ DOMAIN q = {}
       /\ \A k \in DOMAIN q : q[k] \in QueueSet
       /\ \A k \in DOMAIN q \cap DOMAIN queue : q[k] = queue[k]
  <2>1. \A os \in [Tracked -> GoodOrders] :
          LET r == QueueAfter(os, book)
          IN  /\ model = "queue" => DOMAIN r = {k \in Tracked : HoldsQueue(os[k])}
              /\ model # "queue" => r = queue /\ DOMAIN r = {}
              /\ \A k \in DOMAIN r : r[k] \in QueueSet
              /\ \A k \in DOMAIN r \cap DOMAIN queue : r[k] = queue[k]
    <3> TAKE os \in [Tracked -> GoodOrders]
    <3>1. book \in BookSet  BY BookIsRecord
    <3>2. Tracked \in SUBSET Ids  BY <1>1
    <3> QED  BY Zenon, <3>1, <3>2, QueueAfterIs
  <2> QED  BY <1>8, <2>1 DEF q
<1>12. DOMAIN q \subseteq DOMAIN queue
  <2> SUFFICES ASSUME NEW k \in DOMAIN q  PROVE k \in DOMAIN queue
    OBVIOUS
  <2>1. model = "queue" /\ k \in Tracked /\ HoldsQueue(orders'[k])  BY <1>11
  <2>2. HoldsQueue(orders[k])
    <3>1. CASE k = id  BY <1>9, <3>1 DEF HoldsQueue
    <3>2. CASE k # id  BY <1>8, <2>1, <3>2
    <3> QED  BY <3>1, <3>2
  <2> QED  BY <2>1, <2>2 DEF QueueInv
<1>13. /\ DOMAIN candidates' = DOMAIN candidates \ {id}
       /\ \A k \in DOMAIN candidates' : candidates'[k] = candidates[k] /\ k # id
                                        /\ k \in DOMAIN candidates /\ k \in Tracked
  BY <1>6 DEF CandidatesInv
<1>14. TypeInv'
  <2>1. orders' \in [1..(nextId' - 1) -> GoodOrders]  BY <1>1, <1>6, <1>8
  <2> QED  BY <1>6, <2>1 DEF TypeInv
<1>15. ArrivedInv'
  <2> SUFFICES ASSUME NEW k \in Tracked, HoldsQueue(orders'[k])
               PROVE  orders'[k].active <= now
    BY <1>6, <1>8 DEF ArrivedInv
  <2>1. CASE k = id
    <3>1. HoldsQueue(o)  BY <1>9 DEF HoldsQueue
    <3> QED  BY <1>2, <1>7, <1>8, <2>1, <3>1 DEF ArrivedInv
  <2>2. CASE k # id  BY <1>8, <2>2 DEF ArrivedInv
  <2> QED  BY <2>1, <2>2
<1>16. \A k \in Tracked : orders'[k].status = "pending_open" => k # id /\ orders[k].status = "pending_open"
  BY <1>7, <1>8, <1>9
<1>17. DueInv'
  <2> SUFFICES ASSUME NEW k \in Tracked, orders'[k].status = "pending_open"
               PROVE  now < orders'[k].active
    BY <1>6, <1>8 DEF DueInv
  <2>1. k # id /\ orders[k].status = "pending_open"  BY <1>16
  <2> QED  BY <1>6, <1>8, <2>1 DEF DueInv
<1>18. CandidatesInv'
  <2>1. DOMAIN candidates' \subseteq Tracked'  BY <1>8, <1>13
  <2>2. ASSUME NEW k \in DOMAIN candidates'
        PROVE  /\ candidates'[k] \in Nat \ {0} /\ IsFillable(orders'[k])
               /\ orders'[k].status = "pending_cancel" => now' < orders'[k].canceledAt
    <3>1. k \in DOMAIN candidates /\ candidates'[k] = candidates[k] /\ orders'[k] = orders[k]
      BY <1>8, <1>13
    <3> QED  BY <1>6, <3>1 DEF CandidatesInv
  <2> QED  BY <1>6, <2>1, <2>2 DEF CandidatesInv
<1>19. TouchInv'
  <2> SUFFICES ASSUME model = "queue", NEW k \in DOMAIN candidates'
               PROVE  IsMarketable(orders'[k], book, FALSE) \/ AtTouch(orders'[k], book)
    BY <1>6 DEF TouchInv
  <2>1. k \in DOMAIN candidates /\ orders'[k] = orders[k]  BY <1>8, <1>13
  <2> QED  BY <2>1 DEF TouchInv
<1>20. QueueInv'
  <2>1. DOMAIN queue' = IF model' = "queue" THEN {k \in Tracked' : HoldsQueue(orders'[k])} ELSE {}
    BY <1>6, <1>8, <1>11
  <2>2. \A k \in DOMAIN queue' : queue'[k] \in QueueSet  BY <1>6, <1>11
  <2>3. joined' \in [Ids -> Nat] /\ reduced' \in [Ids -> Nat]  BY <1>6 DEF QueueInv
  <2>4. ASSUME NEW k \in Ids, k \in Tracked' => orders'[k].status = "pending_open"
        PROVE  reduced'[k] = 0
    <3>1. k \in Tracked => orders[k].status = "pending_open"  BY <1>8, <1>16, <2>4
    <3> QED  BY <1>6, <3>1 DEF QueueInv
  <2>5. ASSUME NEW k \in DOMAIN queue'
        PROVE  LET traded == orders'[k].count - orders'[k].rem
               IN  /\ PaidFor(joined'[k], queue'[k], traded, 0, reduced'[k])
                   /\ k \in DOMAIN candidates' /\ candidates'[k] < orders'[k].rem =>
                        PaidFor(joined'[k], queue'[k], traded, candidates'[k], reduced'[k])
    <3>1. k \in DOMAIN queue /\ k \in DOMAIN q /\ queue'[k] = queue[k] /\ k \in Tracked
          /\ model = "queue" /\ HoldsQueue(orders'[k])
      BY <1>6, <1>11, <1>12
    <3>2. joined'[k] = joined[k] /\ reduced'[k] = reduced[k]  BY <1>6
    <3>3. CASE k # id
      <4>1. orders'[k] = orders[k]  BY <1>8, <3>1, <3>3
      <4>2. k \in DOMAIN candidates' =>
              k \in DOMAIN candidates /\ candidates'[k] = candidates[k]
        BY <1>13
      <4> HIDE DEF PaidFor
      <4> QED  BY <3>1, <3>2, <4>1, <4>2 DEF QueueInv
    <3>4. CASE k = id
      <4>1. n = candidates[id] /\ candidates[id] < o.rem  BY <1>5, <1>8, <1>10, <3>1, <3>4
      <4>2. PaidFor(joined[id], queue[id], o.count - o.rem, candidates[id], reduced[id])
        BY <3>1, <3>4, <4>1 DEF QueueInv
      <4>3. o.count - o.rem \in Nat /\ n \in Nat  BY <1>4, <1>5
      <4>4. joined[id] \in Nat /\ reduced[id] \in Nat /\ queue[id] \in QueueSet
        BY <1>1, <1>2, <3>1, <3>4 DEF QueueInv
      <4>5. PaidFor(joined[id], queue[id], (o.count - o.rem) + n, 0, reduced[id])
        BY <4>1, <4>2, <4>3, <4>4, TradingIsPaid
      <4>6. orders'[id].count - orders'[id].rem = (o.count - o.rem) + n
        BY <1>4, <1>5, <1>7, <1>8
      <4>7. k \notin DOMAIN candidates'  BY <1>13, <3>4
      <4> HIDE DEF PaidFor, o
      <4> QED  BY <3>1, <3>2, <3>4, <4>5, <4>6, <4>7
    <3> QED  BY <3>3, <3>4
  <2> QED  BY <2>1, <2>2, <2>3, <2>4, <2>5 DEF QueueInv
<1> QED  BY <1>14, <1>15, <1>17, <1>18, <1>19, <1>20

LEMMA QuoteKeeps ==
  ASSUME TypeInv, CandidatesInv, QueueInv, ArrivedInv, DueInv, BookInv,
         NEW ws \in SUBSET Intents, Quote(ws), model' = model
  PROVE  /\ TypeInv' /\ CandidatesInv' /\ QueueInv' /\ ArrivedInv' /\ DueInv' /\ TouchInv'
         /\ orders' \in [Tracked -> GoodOrders]
         /\ \A id \in Tracked : Alike(orders[id], orders'[id])
<1> DEFINE settled == Settled(now)
           live    == {id \in Tracked : IsLive(settled[id])}
           dropped == {id \in live : \A i \in ws : i.quote # settled[id].quote}
           replaced == {id \in live : \E i \in ws : /\ i.quote = settled[id].quote
                          /\ ShouldReplace(settled[id], i, now, settled[id].created)}
           cancel  == dropped \cup IF CanPlace THEN replaced ELSE {}
           q == QueueAfter(orders', book)
<1>1. /\ pc = "quotes" /\ nextId + Cardinality(ws) <= MaxOrders + 1
      /\ orders' = [id \in Tracked |->
                      IF id \in cancel THEN Canceled(settled[id]) ELSE settled[id]]
      /\ queue' = q
      /\ wanted' = IF CanPlace THEN ws ELSE {}
      /\ pc' = IF CanPlace THEN "place" ELSE "event"
      /\ UNCHANGED <<book, events, now, nextId, portfolio, lastSync, candidates, joined, reduced>>
  BY DEF Quote, history
<1>2. /\ Tracked = 1..(nextId - 1) /\ Tracked \subseteq Ids
      /\ \A k \in Tracked : orders[k] \in GoodOrders
  BY TrackedAreIds
<1>3. now \in Nat /\ DOMAIN candidates = {}  BY <1>1 DEF TypeInv, CandidatesInv
<1>4. \A id \in Tracked : settled[id] = Settle(orders[id], now)  BY <1>3, SettledIsGood
<1>5. cancel \subseteq live  OBVIOUS
<1>6. ASSUME NEW id \in Tracked
      PROVE  /\ settled[id] \in GoodOrders /\ Alike(orders[id], settled[id])
             /\ settled[id].active = orders[id].active
             /\ settled[id].status = "pending_open" =>
                  orders[id].status = "pending_open" /\ now < settled[id].active
             /\ HoldsQueue(settled[id]) => HoldsQueue(orders[id])
  <2> DEFINE s == Settle(orders[id], now)
  <2>1. settled[id] = s /\ orders[id] \in GoodOrders  BY <1>2, <1>4
  <2> HIDE DEF settled
  <2>2. /\ s \in GoodOrders /\ Alike(orders[id], s) /\ s.active = orders[id].active
        /\ s.status = "pending_open" => orders[id].status = "pending_open" /\ now < s.active
        /\ HoldsQueue(s) => HoldsQueue(orders[id]) \/ orders[id].status = "pending_open"
    BY <1>3, <2>1, SettleIsGood
  <2>3. CASE orders[id].status = "pending_open"
    <3>1. now < orders[id].active  BY <1>1, <2>3 DEF DueInv
    <3>2. orders[id].active \in Int  BY <2>1, GoodFields
    <3>3. ~IsDue(orders[id], now)  BY <1>3, <3>1, <3>2 DEF IsDue
    <3>4. ~EndsBy(orders[id], now)  BY <2>3 DEF EndsBy
    <3>5. s = orders[id]  BY <3>3, <3>4 DEF Settle
    <3>6. ~HoldsQueue(s)  BY <2>3, <3>5 DEF HoldsQueue
    <3> HIDE DEF s
    <3> QED  BY <2>1, <2>2, <3>6
  <2> HIDE DEF s
  <2> QED  BY <2>1, <2>2, <2>3
<1> HIDE DEF settled
<1>7. ASSUME NEW id \in Tracked
      PROVE  /\ orders'[id] \in GoodOrders /\ Alike(orders[id], orders'[id])
             /\ orders'[id].active = orders[id].active
             /\ orders'[id].status = "pending_open" =>
                  orders[id].status = "pending_open" /\ now < orders'[id].active
             /\ HoldsQueue(orders'[id]) => HoldsQueue(orders[id])
  <2>1. CASE id \in cancel
    <3> DEFINE s == Canceled(settled[id])
    <3>1. orders'[id] = s  BY <1>1, <2>1
    <3>2. IsLive(settled[id]) /\ settled[id] \in GoodOrders  BY <1>5, <1>6, <2>1
    <3>3. /\ s \in GoodOrders /\ Alike(settled[id], s) /\ s.active = settled[id].active
          /\ s.status = "canceled" \/ (s.status = "pending_cancel" /\ HoldsQueue(settled[id]))
      BY <1>3, <3>2, CanceledIsGood
    <3> HIDE DEF s
    <3>4. Alike(orders[id], s)  BY <1>6, <3>3 DEF Alike
    <3>5. s.status # "pending_open" /\ (HoldsQueue(s) => HoldsQueue(settled[id]))
      BY <3>3 DEF HoldsQueue
    <3> QED  BY <1>6, <3>1, <3>3, <3>4, <3>5
  <2>2. CASE id \notin cancel
    <3>1. orders'[id] = settled[id]  BY <1>1, <2>2
    <3> QED  BY <1>6, <3>1
  <2> QED  BY <2>1, <2>2
<1> HIDE DEF cancel
<1>8. orders' \in [Tracked -> GoodOrders] /\ Tracked' = Tracked
  BY <1>1, <1>7 DEF Tracked
<1> HIDE DEF q
<1>9. /\ model = "queue" => DOMAIN q = {k \in Tracked : HoldsQueue(orders'[k])}
      /\ model # "queue" => q = queue /\ DOMAIN q = {}
      /\ \A k \in DOMAIN q : q[k] \in QueueSet
      /\ \A k \in DOMAIN q \cap DOMAIN queue : q[k] = queue[k]
  <2>1. \A os \in [Tracked -> GoodOrders] :
          LET r == QueueAfter(os, book)
          IN  /\ model = "queue" => DOMAIN r = {k \in Tracked : HoldsQueue(os[k])}
              /\ model # "queue" => r = queue /\ DOMAIN r = {}
              /\ \A k \in DOMAIN r : r[k] \in QueueSet
              /\ \A k \in DOMAIN r \cap DOMAIN queue : r[k] = queue[k]
    <3> TAKE os \in [Tracked -> GoodOrders]
    <3>1. book \in BookSet  BY BookIsRecord
    <3>2. Tracked \in SUBSET Ids  BY <1>2
    <3> QED  BY Zenon, <3>1, <3>2, QueueAfterIs
  <2> QED  BY <1>8, <2>1 DEF q
<1>10. \A k \in DOMAIN q : k \in Tracked /\ k \in DOMAIN queue /\ model = "queue"
                           /\ HoldsQueue(orders'[k])
  <2> SUFFICES ASSUME NEW k \in DOMAIN q
               PROVE  k \in Tracked /\ k \in DOMAIN queue /\ model = "queue"
                      /\ HoldsQueue(orders'[k])
    OBVIOUS
  <2>1. model = "queue" /\ k \in Tracked /\ HoldsQueue(orders'[k])  BY <1>9
  <2>2. HoldsQueue(orders[k])  BY <1>7, <2>1
  <2> QED  BY <2>1, <2>2 DEF QueueInv
<1>11. TypeInv'
  <2>1. orders' \in [1..(nextId' - 1) -> GoodOrders]  BY <1>1, <1>2, <1>8
  <2>2. wanted' \subseteq Intents /\ pc' \in {"place", "event"}
        /\ (pc' = "place" => wanted' = ws)
    BY <1>1
  <2>3. pc' = "place" => nextId' + Cardinality(wanted') <= MaxOrders + 1  BY <1>1, <2>2
  <2> QED  BY <1>1, <2>1, <2>2, <2>3 DEF TypeInv
<1>12. ArrivedInv'
  <2> SUFFICES ASSUME NEW k \in Tracked, HoldsQueue(orders'[k])
               PROVE  orders'[k].active <= now
    BY <1>1, <1>8 DEF ArrivedInv
  <2> QED  BY <1>7 DEF ArrivedInv
<1>13. DueInv'
  <2>1. pc' \notin {"fills", "fillsOnly", "quotes"}  BY <1>1
  <2> QED  BY <2>1 DEF DueInv
<1>14. CandidatesInv' /\ TouchInv'
  <2>1. DOMAIN candidates' = {}  BY <1>1, <1>3
  <2> QED  BY <2>1 DEF CandidatesInv, TouchInv
<1>15. QueueInv'
  <2>1. DOMAIN queue' = IF model' = "queue" THEN {k \in Tracked' : HoldsQueue(orders'[k])} ELSE {}
    BY <1>1, <1>8, <1>9
  <2>2. \A k \in DOMAIN queue' : queue'[k] \in QueueSet  BY <1>1, <1>9
  <2>3. joined' \in [Ids -> Nat] /\ reduced' \in [Ids -> Nat]  BY <1>1 DEF QueueInv
  <2>4. ASSUME NEW k \in Ids, k \in Tracked' => orders'[k].status = "pending_open"
        PROVE  reduced'[k] = 0
    <3>1. k \in Tracked => orders[k].status = "pending_open"  BY <1>7, <1>8, <2>4
    <3> QED  BY <1>1, <3>1 DEF QueueInv
  <2>5. ASSUME NEW k \in DOMAIN queue'
        PROVE  LET traded == orders'[k].count - orders'[k].rem
               IN  /\ PaidFor(joined'[k], queue'[k], traded, 0, reduced'[k])
                   /\ k \in DOMAIN candidates' /\ candidates'[k] < orders'[k].rem =>
                        PaidFor(joined'[k], queue'[k], traded, candidates'[k], reduced'[k])
    <3>1. k \in DOMAIN queue /\ queue'[k] = queue[k] /\ k \in Tracked
      BY <1>1, <1>9, <1>10
    <3>2. joined'[k] = joined[k] /\ reduced'[k] = reduced[k] /\ k \notin DOMAIN candidates'
      BY <1>1, <1>3
    <3>3. orders'[k].count = orders[k].count /\ orders'[k].rem = orders[k].rem
      BY <1>7, <3>1 DEF Alike
    <3>4. PaidFor(joined[k], queue[k], orders[k].count - orders[k].rem, 0, reduced[k])
      BY <3>1 DEF QueueInv
    <3> HIDE DEF PaidFor
    <3> QED  BY <3>1, <3>2, <3>3, <3>4
  <2> QED  BY <2>1, <2>2, <2>3, <2>4, <2>5 DEF QueueInv
<1> QED  BY <1>7, <1>8, <1>11, <1>12, <1>13, <1>14, <1>15

-----------------------------------------------------------------------------
(* An order that is placed.                                                *)
PlacedOrder(i) ==
  [FromIntent(i) EXCEPT !.status = IF IsDue(FromIntent(i), now) THEN "open" ELSE @]

LEMMA PlacedIsGood ==
  ASSUME NEW i \in Intents, now \in Nat
  PROVE  LET o == PlacedOrder(i)
         IN  /\ o \in GoodOrders /\ o.contract = i.contract /\ o.price = i.price
             /\ o.count = i.count /\ o.rem = i.count
             /\ o.status \in {"open", "pending_open"}
             /\ o.status = "open" => o.active <= now
<1> DEFINE f == FromIntent(i)
           o == PlacedOrder(i)
<1>1. /\ i.contract \in Contracts /\ i.price \in Grid /\ i.count \in Nat \ {0}
      /\ now + Latency \in Int /\ now \in Int /\ Never \in Int
  BY BacktestAssumption DEF Contracts, Never
<1>2. f \in OrderSet
  BY <1>1 DEF FromIntent, OrderSet, Statuses
<1>3. /\ f.contract = i.contract /\ f.price = i.price /\ f.count = i.count /\ f.rem = i.count
      /\ f.status = "pending_open" /\ f.active = now + Latency
  BY DEF FromIntent
<1> HIDE DEF f
<1>4. o = [f EXCEPT !.status = IF IsDue(f, now) THEN "open" ELSE f.status]
  BY DEF PlacedOrder, f
<1>5. IsDue(f, now) => f.active <= now  BY DEF IsDue
<1> HIDE DEF o
<1>6. /\ o.contract = f.contract /\ o.price = f.price /\ o.count = f.count /\ o.rem = f.rem
      /\ o.active = f.active /\ o \in OrderSet
      /\ o.status = IF IsDue(f, now) THEN "open" ELSE "pending_open"
  BY <1>2, <1>3, <1>4 DEF OrderSet, Statuses
<1>7. o.status \in {"open", "pending_open"} /\ (o.status = "open" => o.active <= now)
  BY <1>5, <1>6
<1>8. o \in GoodOrders  BY <1>1, <1>3, <1>6, <1>7 DEF GoodOrders
<1> QED  BY <1>3, <1>6, <1>7, <1>8 DEF o

LEMMA PlaceKeeps ==
  ASSUME TypeInv, CandidatesInv, QueueInv, ArrivedInv, DueInv, BookInv,
         NEW i \in wanted, Place(i), model' = model
  PROVE  TypeInv' /\ CandidatesInv' /\ QueueInv' /\ ArrivedInv' /\ DueInv' /\ TouchInv'
<1>1. /\ pc = "place" /\ wanted' = wanted \ {i} /\ (Send(i) \/ LeaveOut(i))
      /\ UNCHANGED <<book, events, now, portfolio, pc, candidates, reduced>>
  BY DEF Place
<1>2. /\ Tracked = 1..(nextId - 1) /\ Tracked \subseteq Ids /\ nextId \in Nat
      /\ \A k \in Tracked : orders[k] \in GoodOrders
  BY TrackedAreIds
<1>3. now \in Nat /\ DOMAIN candidates = {} /\ wanted \subseteq Intents /\ i \in Intents
  BY <1>1 DEF TypeInv, CandidatesInv
<1>4. nextId \in Ids /\ nextId + 1 + Cardinality(wanted') <= MaxOrders + 1
  <2>1. IsFiniteSet(wanted)  BY <1>3, BacktestAssumption, FS_Subset
  <2>2. Cardinality(wanted') = Cardinality(wanted) - 1 /\ Cardinality(wanted) \in Nat
        /\ Cardinality(wanted') \in Nat
    BY <1>1, <2>1, FS_RemoveElement, FS_CardinalityType, FS_Subset
  <2>3. nextId + Cardinality(wanted) <= MaxOrders + 1 /\ nextId \in 1..(MaxOrders + 1)
    BY <1>1 DEF TypeInv
  <2> QED  BY <1>2, <2>2, <2>3, BacktestAssumption DEF Ids
<1>5. DueInv'
  <2>1. pc' \notin {"fills", "fillsOnly", "quotes"}  BY <1>1
  <2> QED  BY <2>1 DEF DueInv
<1>6. CandidatesInv' /\ TouchInv'
  <2>1. DOMAIN candidates' = {}  BY <1>1, <1>3
  <2> QED  BY <2>1 DEF CandidatesInv, TouchInv
<1>7. CASE LeaveOut(i)
  <2>1. UNCHANGED <<orders, queue, joined, nextId, lastSync>>  BY <1>7 DEF LeaveOut
  <2>2. Tracked' = Tracked  BY <2>1 DEF Tracked
  <2>3. nextId' + Cardinality(wanted') <= MaxOrders + 1
    <3>1. IsFiniteSet(wanted')  BY <1>1, <1>3, BacktestAssumption, FS_Subset
    <3>2. Cardinality(wanted') \in Nat  BY <3>1, FS_CardinalityType
    <3> QED  BY <1>2, <1>4, <2>1, <3>2, BacktestAssumption
  <2>4. TypeInv'  BY <1>1, <2>1, <2>3 DEF TypeInv
  <2>5. ArrivedInv'  BY <1>1, <2>1, <2>2 DEF ArrivedInv
  <2>6. QueueInv'  BY <1>1, <2>1, <2>2 DEF QueueInv
  <2> QED  BY <1>5, <1>6, <2>4, <2>5, <2>6
<1>8. CASE Send(i)
  <2> DEFINE o == PlacedOrder(i)
             S == Tracked \cup {nextId}
             q == QueueAfter(orders', book)
  <2>1. /\ orders' = [id \in S |-> IF id = nextId THEN o ELSE orders[id]]
        /\ queue' = q
        /\ joined' = [joined EXCEPT ![nextId] = IF nextId \in DOMAIN queue'
                                                THEN queue'[nextId].ahead ELSE joined[nextId]]
        /\ nextId' = nextId + 1 /\ lastSync' = now
    BY <1>8 DEF Send, PlacedOrder
  <2>2. /\ o \in GoodOrders /\ o.count = i.count /\ o.rem = i.count
        /\ o.status \in {"open", "pending_open"}
        /\ o.status = "open" => o.active <= now
    BY <1>3, PlacedIsGood
  <2> HIDE DEF o, q
  <2>3. S = 1..nextId /\ S \subseteq Ids /\ nextId \notin Tracked
    <3>1. nextId \in Ids /\ nextId \in Nat /\ Tracked = 1..(nextId - 1) /\ Tracked \subseteq Ids
      BY <1>2, <1>4
    <3>2. nextId >= 1  BY <3>1, BacktestAssumption DEF Ids
    <3> QED  BY <3>1, <3>2
  <2>4. orders' \in [S -> GoodOrders] /\ Tracked' = S /\ orders'[nextId] = o
        /\ \A k \in Tracked : orders'[k] = orders[k]
    BY <1>2, <2>1, <2>2, <2>3 DEF Tracked
  <2>5. /\ model = "queue" => DOMAIN q = {k \in S : HoldsQueue(orders'[k])}
        /\ model # "queue" => q = queue /\ DOMAIN q = {}
        /\ \A k \in DOMAIN q : q[k] \in QueueSet
        /\ \A k \in DOMAIN q \cap DOMAIN queue : q[k] = queue[k]
        /\ \A k \in DOMAIN q \ DOMAIN queue : q[k].residue = 0
    <3>1. \A os \in [S -> GoodOrders] :
            LET r == QueueAfter(os, book)
            IN  /\ model = "queue" => DOMAIN r = {k \in S : HoldsQueue(os[k])}
                /\ model # "queue" => r = queue /\ DOMAIN r = {}
                /\ \A k \in DOMAIN r : r[k] \in QueueSet
                /\ \A k \in DOMAIN r \cap DOMAIN queue : r[k] = queue[k]
                /\ \A k \in DOMAIN r \ DOMAIN queue : r[k].residue = 0
      <4> TAKE os \in [S -> GoodOrders]
      <4>1. book \in BookSet  BY BookIsRecord
      <4>2. S \in SUBSET Ids  BY <2>3
      <4> HIDE DEF S
      <4> QED  BY Zenon, <4>1, <4>2, QueueAfterIs
    <3> QED  BY <2>4, <3>1 DEF q
  <2> HIDE DEF S
  <2>6. DOMAIN queue \subseteq Tracked  BY DEF QueueInv
  <2>7. TypeInv'
    <3>1. orders' \in [1..(nextId' - 1) -> GoodOrders]
      <4>1. nextId' - 1 = nextId  BY <1>2, <2>1
      <4> QED  BY <2>3, <2>4, <4>1
    <3>2. nextId' \in 1..(MaxOrders + 1)  BY <1>4, <2>1, BacktestAssumption DEF Ids
    <3>3. nextId' + Cardinality(wanted') <= MaxOrders + 1  BY <1>4, <2>1
    <3>4. lastSync' \in Nat \cup {Never}  BY <1>3, <2>1
    <3> QED  BY <1>1, <3>1, <3>2, <3>3, <3>4 DEF TypeInv
  <2>8. ArrivedInv'
    <3> SUFFICES ASSUME NEW k \in S, HoldsQueue(orders'[k])
                 PROVE  orders'[k].active <= now
      BY <1>1, <2>4 DEF ArrivedInv
    <3>1. CASE k = nextId
      <4>1. o.status = "open"  BY <2>2, <2>4, <3>1 DEF HoldsQueue
      <4> QED  BY <2>2, <2>4, <3>1, <4>1
    <3>2. CASE k # nextId
      <4>1. k \in Tracked  BY <3>2 DEF S
      <4> QED  BY <2>4, <4>1 DEF ArrivedInv
    <3> QED  BY <3>1, <3>2
  <2>9. QueueInv'
    <3>1. DOMAIN queue' = IF model' = "queue" THEN {k \in Tracked' : HoldsQueue(orders'[k])} ELSE {}
      BY <2>1, <2>4, <2>5
    <3>2. \A k \in DOMAIN queue' : queue'[k] \in QueueSet  BY <2>1, <2>5
    <3>3. joined' \in [Ids -> Nat] /\ reduced' \in [Ids -> Nat]
      <4>1. joined \in [Ids -> Nat] /\ reduced \in [Ids -> Nat]  BY DEF QueueInv
      <4>2. nextId \in DOMAIN queue' => queue'[nextId].ahead \in Nat  BY <3>2 DEF QueueSet
      <4> QED  BY <1>1, <1>4, <2>1, <4>1, <4>2
    <3>4. ASSUME NEW k \in Ids, k \in Tracked' => orders'[k].status = "pending_open"
          PROVE  reduced'[k] = 0
      <4>1. k \in Tracked => orders[k].status = "pending_open"  BY <2>4, <3>4 DEF S
      <4> QED  BY <1>1, <4>1 DEF QueueInv
    <3>5. ASSUME NEW k \in DOMAIN queue'
          PROVE  LET traded == orders'[k].count - orders'[k].rem
                 IN  /\ PaidFor(joined'[k], queue'[k], traded, 0, reduced'[k])
                     /\ k \in DOMAIN candidates' /\ candidates'[k] < orders'[k].rem =>
                          PaidFor(joined'[k], queue'[k], traded, candidates'[k], reduced'[k])
      <4>1. k \in DOMAIN q /\ k \in S /\ k \in Ids /\ model = "queue" /\ HoldsQueue(orders'[k])
            /\ queue'[k] = q[k]
        BY <2>1, <2>3, <2>5
      <4>2. k \notin DOMAIN candidates' /\ reduced'[k] = reduced[k]  BY <1>1, <1>3
      <4>3. CASE k = nextId
        <5>1. joined'[k] = q[k].ahead
          <6>1. joined \in [Ids -> Nat]  BY DEF QueueInv
          <6> QED  BY <1>4, <2>1, <4>1, <4>3, <6>1
        <5>2. k \notin DOMAIN queue  BY <2>3, <2>6, <4>3
        <5>3. q[k].residue = 0 /\ q[k] \in QueueSet  BY <2>5, <4>1, <5>2
        <5>4. reduced[k] = 0
          <6>1. k \notin Tracked  BY <2>3, <4>3
          <6> QED  BY <4>1, <6>1 DEF QueueInv
        <5>5. orders'[k].count - orders'[k].rem = 0
          <6>1. i.count \in Nat  BY <1>3, BacktestAssumption
          <6> QED  BY <2>2, <2>4, <4>3, <6>1
        <5>6. PaidFor(q[k].ahead, q[k], 0, 0, 0)  BY <5>3, JoiningIsPaid
        <5> HIDE DEF PaidFor
        <5> QED  BY <4>1, <4>2, <5>1, <5>4, <5>5, <5>6
      <4>4. CASE k # nextId
        <5>1. k \in Tracked /\ orders'[k] = orders[k]  BY <2>4, <4>1, <4>4 DEF S
        <5>2. k \in DOMAIN queue  BY <4>1, <5>1 DEF QueueInv
        <5>3. q[k] = queue[k]  BY <2>5, <4>1, <5>2
        <5>4. joined'[k] = joined[k]
          <6>1. joined \in [Ids -> Nat]  BY DEF QueueInv
          <6> QED  BY <1>4, <2>1, <4>1, <4>4, <6>1
        <5>5. PaidFor(joined[k], queue[k], orders[k].count - orders[k].rem, 0, reduced[k])
          BY <5>2 DEF QueueInv
        <5> HIDE DEF PaidFor
        <5> QED  BY <4>1, <4>2, <5>1, <5>3, <5>4, <5>5
      <4> QED  BY <4>3, <4>4
    <3> QED  BY <3>1, <3>2, <3>3, <3>4, <3>5 DEF QueueInv
  <2> QED  BY <1>5, <1>6, <2>7, <2>8, <2>9
<1> QED  BY <1>1, <1>7, <1>8

-----------------------------------------------------------------------------
(* Part 8.  The invariant of the specification.                            *)
Inv ==
  /\ TypeInv /\ BookInv /\ ArrivedInv /\ DueInv /\ CandidatesInv /\ QueueInv /\ TouchInv

LEMMA InitHolds == Init => Inv
<1> SUFFICES ASSUME Init  PROVE Inv
  OBVIOUS
<1>1. BookInv
  <2>1. Books!Init  BY DEF Init
  <2> QED  BY Zenon, <2>1, FirstBookHolds
<1>2. /\ model \in Models /\ events = 0 /\ now = 0 /\ orders = [id \in {} |-> 0] /\ nextId = 1
      /\ queue = [id \in {} |-> Joined(0)] /\ lastSync = Never /\ pc = "event"
      /\ candidates = [id \in {} |-> 0] /\ wanted = {}
      /\ joined = [id \in Ids |-> 0] /\ reduced = [id \in Ids |-> 0]
  BY DEF Init
<1>3. Tracked = {} /\ DOMAIN queue = {} /\ DOMAIN candidates = {}  BY <1>2 DEF Tracked
<1>4. TypeInv
  <2>1. orders \in [1..(nextId - 1) -> GoodOrders]
    <3>1. 1..(nextId - 1) = {}  BY <1>2
    <3> QED  BY <1>2, <3>1
  <2>2. events \in 0..MaxEvents /\ now \in Nat /\ nextId \in 1..(MaxOrders + 1)
    BY <1>2, BacktestAssumption
  <2>3. lastSync \in Nat \cup {Never} /\ wanted \subseteq Intents  BY <1>2
  <2>4. pc \in {"event", "fills", "fillsOnly", "quotes", "place", "done"} /\ pc # "place"
    BY <1>2
  <2> QED  BY <1>2, <2>1, <2>2, <2>3, <2>4 DEF TypeInv
<1>5. ArrivedInv /\ DueInv /\ CandidatesInv /\ TouchInv
  BY <1>3 DEF ArrivedInv, DueInv, CandidatesInv, TouchInv
<1>6. QueueInv
  BY <1>2, <1>3 DEF QueueInv
<1> QED  BY <1>1, <1>4, <1>5, <1>6 DEF Inv

LEMMA EventKeeps ==
  ASSUME Inv, NEW side \in {"bid", "ask"}, NEW price \in Grid,
         NEW change \in (-MaxSize)..MaxSize, NEW gap \in 0..MaxGap,
         BookEvent(side, price, change, gap), model' = model
  PROVE  Inv'
<1> DEFINE b == ApplyDelta(book, side, price, change)
           d == [side |-> side, price |-> price, change |-> change]
           time == now + gap
<1>1. /\ pc = "event" /\ events < MaxEvents
      /\ SizeAfter(book, side, price, change) \in 0..MaxSize
      /\ Process(b, d, time) /\ pc' = "fills"
      /\ nextId' = nextId /\ lastSync' = lastSync /\ wanted' = wanted
  BY DEF BookEvent
<1>2. book' = b  BY <1>1 DEF Process
<1>3. change \in Int /\ price \in Int /\ gap \in Nat
  BY GridAssumption, BacktestAssumption, PricesAreNumbers
<1>4. BookInv'  BY <1>1, <1>2, <1>3, DeltaKeepsBook DEF Inv
<1>5. b \in BookSet
  <2>1. BookInv /\ BookInv'  BY <1>4 DEF Inv
  <2>2. book' \in BookSet
    <3>1. book' = [bids |-> book'.bids, asks |-> book'.asks,
                   bestBid |-> Highest(Offered(book'.bids)),
                   bestAsk |-> Lowest(Offered(book'.asks))]
      BY <2>1 DEF BookInv, FromSnapshot
    <3>2. book'.bids \in Levels /\ book'.asks \in Levels  BY <2>1 DEF BookInv
    <3>3. /\ Highest(Offered(book'.bids)) \in Prices \cup {NoPrice}
          /\ Lowest(Offered(book'.asks)) \in Prices \cup {NoPrice}
      BY <3>2, BestIsPrice
    <3> QED  BY <3>1, <3>2, <3>3 DEF BookSet
  <2> QED  BY <1>2, <2>2
<1>6. d \in DeltaSet  BY <1>3 DEF DeltaSet
<1>7. time \in Nat /\ now <= time  BY <1>3 DEF Inv, TypeInv
<1> HIDE DEF b, d, time
<1>8. TypeInv' /\ CandidatesInv' /\ QueueInv' /\ ArrivedInv' /\ DueInv' /\ TouchInv'
  BY <1>1, <1>5, <1>6, <1>7, ProcessKeeps DEF Inv
<1> QED  BY <1>4, <1>8 DEF Inv

LEMMA OtherKeeps ==
  ASSUME Inv, NEW gap \in 0..MaxGap, OtherEvent(gap), model' = model
  PROVE  Inv'
<1> DEFINE time == now + gap
<1>1. /\ pc = "event" /\ events < MaxEvents
      /\ Process(book, NoDelta, time) /\ pc' = "fillsOnly"
      /\ nextId' = nextId /\ lastSync' = lastSync /\ wanted' = wanted
  BY DEF OtherEvent
<1>2. book' = book  BY <1>1 DEF Process
<1>3. BookInv'  BY <1>2 DEF Inv, BookInv
<1>4. book \in BookSet  BY BookIsRecord DEF Inv
<1>5. NoDelta \in DeltaSet  BY DEF NoDelta, DeltaSet
<1>6. time \in Nat /\ now <= time
  <2>1. gap \in Nat  BY BacktestAssumption
  <2> QED  BY <2>1 DEF Inv, TypeInv
<1> HIDE DEF time
<1>7. TypeInv' /\ CandidatesInv' /\ QueueInv' /\ ArrivedInv' /\ DueInv' /\ TouchInv'
  BY <1>1, <1>4, <1>5, <1>6, ProcessKeeps DEF Inv
<1> QED  BY <1>3, <1>7 DEF Inv

(* The steps that only move on.                                            *)
LEMMA MovingOnKeeps ==
  ASSUME Inv, FillsDone \/ PlacingDone \/ EndOfRecording, model' = model
  PROVE  Inv'
<1>1. /\ UNCHANGED <<book, events, now, orders, nextId, queue, lastSync, candidates, wanted,
                     joined, reduced>>
      /\ pc' \in {"event", "quotes", "done"}
      /\ pc' = "quotes" => pc = "fills"
      /\ DOMAIN candidates = {}
  <2>1. CASE FillsDone  BY <2>1 DEF FillsDone, history
  <2>2. CASE PlacingDone
    <3>1. DOMAIN candidates = {}  BY <2>2 DEF PlacingDone, Inv, CandidatesInv
    <3> QED  BY <2>2, <3>1 DEF PlacingDone, history
  <2>3. CASE EndOfRecording
    <3>1. DOMAIN candidates = {}  BY <2>3 DEF EndOfRecording, Inv, CandidatesInv
    <3> QED  BY <2>3, <3>1 DEF EndOfRecording, history
  <2> QED  BY <2>1, <2>2, <2>3
<1>2. Tracked' = Tracked  BY <1>1 DEF Tracked
<1>3. TypeInv'  BY <1>1 DEF Inv, TypeInv
<1>4. BookInv' /\ ArrivedInv'  BY <1>1, <1>2 DEF Inv, BookInv, ArrivedInv
<1>5. DueInv'  BY <1>1, <1>2 DEF Inv, DueInv
<1>6. DOMAIN candidates' = {}  BY <1>1
<1>7. CandidatesInv' /\ TouchInv'  BY <1>6 DEF CandidatesInv, TouchInv
<1>8. QueueInv'  BY <1>1, <1>2 DEF Inv, QueueInv
<1> QED  BY <1>3, <1>4, <1>5, <1>7, <1>8 DEF Inv

LEMMA StepKeeps == Inv /\ [Next]_vars => Inv'
<1> SUFFICES ASSUME Inv, [Next]_vars  PROVE Inv'
  OBVIOUS
<1>1. CASE UNCHANGED vars
  <2>1. UNCHANGED <<model, book, events, now, orders, nextId, queue, lastSync, pc, candidates,
                    wanted, joined, reduced>>
    BY <1>1 DEF vars
  <2>2. Tracked' = Tracked  BY <2>1 DEF Tracked
  <2>3. TypeInv' /\ BookInv' /\ ArrivedInv' /\ DueInv'
    BY <2>1, <2>2 DEF Inv, TypeInv, BookInv, ArrivedInv, DueInv
  <2>4. CandidatesInv' /\ TouchInv'  BY <2>1, <2>2 DEF Inv, CandidatesInv, TouchInv
  <2>5. QueueInv'  BY <2>1, <2>2 DEF Inv, QueueInv
  <2> QED  BY <2>3, <2>4, <2>5 DEF Inv
<1>2. CASE Next
  <2>0. model' = model  BY <1>2 DEF Next
  <2>1. ASSUME NEW gap \in 0..MaxGap, NEW side \in {"bid", "ask"}, NEW price \in Grid,
               NEW change \in (-MaxSize)..MaxSize, BookEvent(side, price, change, gap)
        PROVE  Inv'
    BY <2>0, <2>1, EventKeeps
  <2>2. ASSUME NEW gap \in 0..MaxGap, OtherEvent(gap)  PROVE Inv'
    BY <2>0, <2>2, OtherKeeps
  <2>3. ASSUME NEW id \in DOMAIN candidates, Fill(id)  PROVE Inv'
    <3>1. TypeInv' /\ CandidatesInv' /\ QueueInv' /\ ArrivedInv' /\ DueInv' /\ TouchInv'
      BY <2>0, <2>3, FillKeeps DEF Inv
    <3>2. book' = book  BY <2>3 DEF Fill
    <3> QED  BY <3>1, <3>2 DEF Inv, BookInv
  <2>4. ASSUME NEW ws \in SUBSET Intents, Quote(ws)  PROVE Inv'
    <3>1. TypeInv' /\ CandidatesInv' /\ QueueInv' /\ ArrivedInv' /\ DueInv' /\ TouchInv'
      BY <2>0, <2>4, QuoteKeeps DEF Inv
    <3>2. book' = book  BY <2>4 DEF Quote
    <3> QED  BY <3>1, <3>2 DEF Inv, BookInv
  <2>5. ASSUME NEW i \in wanted, Place(i)  PROVE Inv'
    <3>1. TypeInv' /\ CandidatesInv' /\ QueueInv' /\ ArrivedInv' /\ DueInv' /\ TouchInv'
      BY <2>0, <2>5, PlaceKeeps DEF Inv
    <3>2. book' = book  BY <2>5 DEF Place
    <3> QED  BY <3>1, <3>2 DEF Inv, BookInv
  <2>6. ASSUME FillsDone \/ PlacingDone \/ EndOfRecording  PROVE Inv'
    BY <2>0, <2>6, MovingOnKeeps
  <2> QED  BY Zenon, <1>2, <2>1, <2>2, <2>3, <2>4, <2>5, <2>6 DEF Next, Step
<1> QED  BY <1>1, <1>2

(* The types of a replay, and with them what its other invariants rest on: *)
(* orders settle on time, what is about to trade can, the queue is typed.   *)
THEOREM ReplayInvariance == Spec => []Inv
BY InitHolds, StepKeeps, PTL DEF Spec

-----------------------------------------------------------------------------
(* Part 9.  What the invariant promises.                                   *)
LEMMA TypesFollow == Inv => TypeOK
<1> SUFFICES ASSUME Inv  PROVE TypeOK
  OBVIOUS
<1>1. Books!TypeOK  BY BookIsTyped DEF Inv
<1>2. /\ events \in 0..MaxEvents /\ now \in Nat /\ nextId \in 1..(MaxOrders + 1)
      /\ lastSync \in Nat \cup {Never} /\ wanted \subseteq Intents
      /\ pc \in {"event", "fills", "fillsOnly", "quotes", "place", "done"}
  BY DEF Inv, TypeInv
<1>3. Tracked = 1..(nextId - 1) /\ \A id \in Tracked : orders[id] \in GoodOrders
  BY TrackedAreIds DEF Inv
<1>4. ASSUME NEW id \in Tracked
      PROVE  /\ orders[id].status \in {"pending_open", "open", "pending_cancel", "canceled", "filled"}
             /\ orders[id].rem \in 0..orders[id].count
             /\ orders[id].status = "filled" <=> orders[id].rem = 0
  <2>1. /\ orders[id].status \in Statuses /\ (orders[id].status = "filled" <=> orders[id].rem = 0)
        /\ orders[id].rem \in Nat /\ orders[id].count \in Nat /\ orders[id].rem <= orders[id].count
    BY <1>3, GoodFields
  <2> QED  BY <2>1 DEF Statuses
<1>5. DOMAIN candidates \subseteq Tracked  BY DEF Inv, CandidatesInv
<1> QED  BY <1>1, <1>2, <1>3, <1>4, <1>5 DEF TypeOK

(* The types of a replay: the orders are numbered from one, what is left   *)
(* of an order is no more than it asked for, and it is filled exactly when *)
(* nothing is left.                                                        *)
THEOREM ReplayTypes == Spec => []TypeOK
BY TypesFollow, ReplayInvariance, PTL

(* The book a replay trades on is the snapshot of its levels, whatever     *)
(* deltas moved its best prices.                                           *)
THEOREM ReplayedBookAgrees == Spec => []BookAgrees
<1>1. Inv => BookAgrees  BY BookIsSnapshot DEF Inv
<1> QED  BY <1>1, ReplayInvariance, PTL

LEMMA OnlyDueTrade == Inv => OnlyDueOrdersTrade
<1> SUFFICES ASSUME Inv, NEW id \in DOMAIN candidates
             PROVE  /\ orders[id].active <= now
                    /\ orders[id].status = "pending_cancel" => now < orders[id].canceledAt
  BY DEF OnlyDueOrdersTrade
<1>1. id \in Tracked /\ IsFillable(orders[id])
  BY DEF Inv, CandidatesInv
<1>2. HoldsQueue(orders[id])  BY <1>1 DEF IsFillable, HoldsQueue
<1>3. orders[id].active <= now  BY <1>1, <1>2 DEF Inv, ArrivedInv
<1>4. orders[id].status = "pending_cancel" => now < orders[id].canceledAt
  BY DEF Inv, CandidatesInv
<1> QED  BY <1>3, <1>4

(* At the touch of a book that agrees with its levels nothing is better.   *)
LEMMA TouchIsBest ==
  ASSUME BookInv, NEW o \in OrderSet, AtTouch(o, book)
  PROVE  Better(o) = {}
<1> SUFFICES ASSUME NEW r \in Grid, IF Buys(o) THEN r > o.price /\ book.bids[r] > 0
                                    ELSE r < o.price /\ book.asks[r] > 0
             PROVE  FALSE
  BY DEF Better
<1>1. /\ book.bids \in Levels /\ book.asks \in Levels
      /\ book.bestBid = Highest(Offered(book.bids))
      /\ book.bestAsk = Lowest(Offered(book.asks))
  BY DEF BookInv, FromSnapshot
<1>2. r \in Prices /\ r \in Int /\ o.price \in Int
  BY GridAssumption, PricesAreNumbers DEF OrderSet
<1>3. Offered(book.bids) \in SUBSET Prices /\ Offered(book.asks) \in SUBSET Prices
  BY DEF Offered
<1>4. CASE Buys(o)
  <2>1. r > o.price /\ r \in Offered(book.bids)  BY <1>2, <1>4 DEF Offered
  <2>2. /\ book.bestBid \in Offered(book.bids)
        /\ \A q \in Offered(book.bids) : q <= book.bestBid
    BY <1>1, <1>3, <2>1, HighestIsLast
  <2>3. book.bestBid \in Int /\ book.bestBid # NoPrice
    BY <1>3, <2>2, GridAssumption DEF Prices, NoPrice
  <2>4. o.price >= book.bestBid  BY <1>4, <2>3 DEF AtTouch
  <2>5. r <= book.bestBid  BY <2>1, <2>2
  <2> QED  BY <1>2, <2>1, <2>3, <2>4, <2>5
<1>5. CASE ~Buys(o)
  <2>1. r < o.price /\ r \in Offered(book.asks)  BY <1>2, <1>5 DEF Offered
  <2>2. /\ book.bestAsk \in Offered(book.asks)
        /\ \A q \in Offered(book.asks) : book.bestAsk <= q
    BY <1>1, <1>3, <2>1, LowestIsFirst
  <2>3. book.bestAsk \in Int /\ book.bestAsk # NoPrice
    BY <1>3, <2>2, GridAssumption DEF Prices, NoPrice
  <2>4. o.price <= book.bestAsk  BY <1>5, <2>3 DEF AtTouch
  <2>5. book.bestAsk <= r  BY <2>1, <2>2
  <2> QED  BY <1>2, <2>1, <2>3, <2>4, <2>5
<1> QED  BY <1>4, <1>5

LEMMA QueueHasPaid == Inv => QueuePays
<1> SUFFICES ASSUME Inv  PROVE QueuePays
  OBVIOUS
<1>1. Tracked \subseteq Ids /\ \A id \in Tracked : orders[id] \in GoodOrders
  BY TrackedAreIds DEF Inv
<1>2. ASSUME NEW id \in DOMAIN queue
      PROVE  (joined[id] - queue[id].ahead + Filled(id)) * TradeDen + queue[id].residue
               <= TradeNum * reduced[id]
  <2>1. id \in Tracked /\ id \in Ids  BY <1>1 DEF Inv, QueueInv
  <2>2. Filled(id) = orders[id].count - orders[id].rem  BY <2>1 DEF Filled
  <2>3. PaidFor(joined[id], queue[id], orders[id].count - orders[id].rem, 0, reduced[id])
    BY DEF Inv, QueueInv
  <2>4. joined[id] \in Int /\ queue[id].ahead \in Int /\ Filled(id) \in Int
    <3>1. orders[id].count \in Nat /\ orders[id].rem \in Nat  BY <1>1, <2>1, GoodFields
    <3>2. queue[id] \in QueueSet /\ joined \in [Ids -> Nat]  BY DEF Inv, QueueInv
    <3> QED  BY <2>1, <2>2, <3>1, <3>2 DEF QueueSet
  <2> DEFINE moved == joined[id] - queue[id].ahead + Filled(id)
  <2>5. TradeDen * moved + queue[id].residue <= TradeNum * reduced[id]
    <3>1. joined[id] - queue[id].ahead + Filled(id) + 0 = moved  BY <2>4
    <3> QED  BY <2>2, <2>3, <3>1 DEF PaidFor
  <2>6. moved \in Int  BY <2>4
  <2> HIDE DEF moved
  <2>7. TradeDen * moved = moved * TradeDen  BY <2>6, FractionIsTyped, Distribution
  <2> QED  BY <2>5, <2>7 DEF moved
<1>3. ASSUME model = "queue", NEW id \in DOMAIN candidates
      PROVE  IsMarketable(orders[id], book, FALSE) \/ Better(orders[id]) = {}
  <2>1. id \in Tracked  BY DEF Inv, CandidatesInv
  <2>2. orders[id] \in OrderSet  BY <1>1, <2>1, GoodFields
  <2>3. IsMarketable(orders[id], book, FALSE) \/ AtTouch(orders[id], book)
    BY <1>3 DEF Inv, TouchInv
  <2> QED  BY <2>2, <2>3, TouchIsBest DEF Inv
<1> QED  BY <1>2, <1>3 DEF QueuePays

LEMMA ModelsAlwaysBracket == Inv => ModelsBracket
<1> SUFFICES ASSUME Inv, NEW d \in Reductions, NEW id \in Tracked
             PROVE  Bracketed(orders[id], QueueOf(queue, id), book, d)
  BY DEF ModelsBracket
<1>1. orders[id] \in OrderSet  BY TrackedAreIds, GoodFields DEF Inv
<1>2. QueueOf(queue, id) \in QueueSet
  <2>1. Unqueued \in QueueSet  BY JoinedIsTyped DEF Unqueued
  <2>2. \A k \in DOMAIN queue : queue[k] \in QueueSet  BY DEF Inv, QueueInv
  <2> QED  BY <2>1, <2>2 DEF QueueOf
<1>3. book \in BookSet  BY BookIsRecord DEF Inv
<1>4. d \in DeltaSet
  BY GridAssumption, PricesAreNumbers DEF Reductions, DeltaSet
<1> QED  BY <1>1, <1>2, <1>3, <1>4, ModelsAreBracketed DEF Bracketed

(* No fill is given away, with any latency, any share of a reduction that  *)
(* trades, any intents: only orders that have arrived and whose cancel has *)
(* not trade, an order advances through its queue only by what its level   *)
(* lost, and the optimistic model bounds both others on any book.          *)
THEOREM FillsHonest == Spec => []FillsAreHonest
<1>1. Inv => FillsAreHonest
  BY OnlyDueTrade, QueueHasPaid, ModelsAlwaysBracket DEF FillsAreHonest
<1> QED  BY <1>1, ReplayInvariance, PTL

-----------------------------------------------------------------------------
(* Part 10.  Sums over the orders: V gives every order a number.           *)
Over(V, os) == [id \in 0..MaxOrders |-> IF id \in DOMAIN os THEN V[os[id]] ELSE 0]
Tot(V, os)  == Total(Over(V, os), MaxOrders)

Valuations == [GoodOrders -> Int]

LEMMA OverIsTyped ==
  ASSUME NEW V \in Valuations, NEW S \in SUBSET Ids, NEW os \in [S -> GoodOrders]
  PROVE  /\ Over(V, os) \in [0..MaxOrders -> Int] /\ Tot(V, os) \in Int
         /\ \A id \in S : id \in 0..MaxOrders /\ Over(V, os)[id] = V[os[id]]
<1>0. MaxOrders \in Nat  BY BacktestAssumption
<1>1. Over(V, os) \in [0..MaxOrders -> Int]  BY DEF Over, Valuations
<1>2. Tot(V, os) \in Int  BY <1>0, <1>1, TotalIsInt DEF Tot
<1>3. S \subseteq 0..MaxOrders  BY <1>0 DEF Ids
<1> QED  BY <1>1, <1>2, <1>3 DEF Over

(* What the valuations of the same orders do, their sums do.               *)
LEMMA TotIsSame ==
  ASSUME NEW V \in Valuations, NEW S \in SUBSET Ids,
         NEW os \in [S -> GoodOrders], NEW ps \in [S -> GoodOrders],
         \A id \in S : V[ps[id]] = V[os[id]]
  PROVE  Tot(V, ps) = Tot(V, os)
<1>1. Over(V, ps) = Over(V, os)  BY DEF Over
<1> QED  BY <1>1 DEF Tot

LEMMA TotIsLess ==
  ASSUME NEW V \in Valuations, NEW S \in SUBSET Ids,
         NEW os \in [S -> GoodOrders], NEW ps \in [S -> GoodOrders],
         \A id \in S : V[ps[id]] <= V[os[id]]
  PROVE  Tot(V, ps) <= Tot(V, os)
<1> DEFINE h == Over(V, ps)
           k == Over(V, os)
<1>1. h \in [0..MaxOrders -> Int] /\ k \in [0..MaxOrders -> Int]  BY OverIsTyped
<1>2. \A i \in 0..MaxOrders : h[i] <= k[i]  BY DEF Over
<1> HIDE DEF h, k
<1>3. MaxOrders \in Nat  BY BacktestAssumption
<1>4. Total(h, MaxOrders) <= Total(k, MaxOrders)  BY <1>1, <1>2, <1>3, TotalGrows
<1> QED  BY <1>4 DEF Tot, h, k

LEMMA TotChanges ==
  ASSUME NEW V \in Valuations, NEW S \in SUBSET Ids, NEW x \in S,
         NEW os \in [S -> GoodOrders], NEW ps \in [S -> GoodOrders],
         \A id \in S : id # x => ps[id] = os[id]
  PROVE  Tot(V, ps) = Tot(V, os) + V[ps[x]] - V[os[x]]
<1> DEFINE h == Over(V, os)
           k == Over(V, ps)
<1>1. h \in [0..MaxOrders -> Int] /\ k \in [0..MaxOrders -> Int]  BY OverIsTyped
<1>2. x \in 0..MaxOrders /\ h[x] = V[os[x]] /\ k[x] = V[ps[x]]  BY OverIsTyped
<1>3. \A i \in 0..MaxOrders : i # x => k[i] = h[i]  BY DEF Over
<1> HIDE DEF h, k
<1>4. MaxOrders \in Nat  BY BacktestAssumption
<1>5. Total(k, MaxOrders) = Total(h, MaxOrders) + k[x] - h[x]
  BY <1>1, <1>2, <1>3, <1>4, TotalChanges
<1> QED  BY <1>2, <1>5 DEF Tot, h, k

LEMMA TotAdds ==
  ASSUME NEW V \in Valuations, NEW S \in SUBSET Ids, NEW x \in Ids, x \notin S,
         NEW os \in [S -> GoodOrders], NEW ps \in [S \cup {x} -> GoodOrders],
         \A id \in S : ps[id] = os[id]
  PROVE  Tot(V, ps) = Tot(V, os) + V[ps[x]]
<1> DEFINE h == Over(V, os)
           k == Over(V, ps)
           T == S \cup {x}
<1>1. h \in [0..MaxOrders -> Int]  BY OverIsTyped
<1>2. T \in SUBSET Ids  OBVIOUS
<1>3. /\ k \in [0..MaxOrders -> Int] /\ x \in 0..MaxOrders /\ k[x] = V[ps[x]]
  <2>1. x \in T /\ ps \in [T -> GoodOrders]  OBVIOUS
  <2> HIDE DEF T, k
  <2>2. /\ Over(V, ps) \in [0..MaxOrders -> Int]
        /\ \A id \in T : id \in 0..MaxOrders /\ Over(V, ps)[id] = V[ps[id]]
    BY <1>2, <2>1, OverIsTyped
  <2> QED  BY Zenon, <2>1, <2>2 DEF k
<1>4. h[x] = 0 /\ \A i \in 0..MaxOrders : i # x => k[i] = h[i]  BY <1>3 DEF Over
<1> HIDE DEF h, k
<1>5. MaxOrders \in Nat  BY BacktestAssumption
<1>6. Total(k, MaxOrders) = Total(h, MaxOrders) + k[x] - h[x]
  <2>1. k \in [0..MaxOrders -> Int] /\ x \in 0..MaxOrders  BY <1>3
  <2>2. \A i \in 0..MaxOrders : i # x => k[i] = h[i]  BY <1>4
  <2> QED  BY <1>1, <1>5, <2>1, <2>2, TotalChanges
<1>7. Total(h, MaxOrders) \in Int /\ k[x] \in Int  BY <1>1, <1>3, <1>5, TotalIsInt
<1>8. Total(k, MaxOrders) = Total(h, MaxOrders) + V[ps[x]]  BY <1>3, <1>4, <1>6, <1>7
<1> QED  BY <1>8 DEF Tot, h, k

LEMMA TotOfNone ==
  ASSUME NEW V \in Valuations, NEW os, DOMAIN os = {}
  PROVE  Tot(V, os) = 0
<1> DEFINE h == Over(V, os)
<1>1. h \in [0..MaxOrders -> Int] /\ \A i \in 0..MaxOrders : h[i] = 0  BY DEF Over
<1> HIDE DEF h
<1>2. MaxOrders \in Nat  BY BacktestAssumption
<1>3. Total(h, MaxOrders) = 0  BY <1>1, <1>2, TotalOfZeros
<1> QED  BY <1>3 DEF Tot, h

LEMMA TotIsNat ==
  ASSUME NEW V \in Valuations, NEW S \in SUBSET Ids, NEW os \in [S -> GoodOrders],
         \A id \in S : V[os[id]] >= 0
  PROVE  Tot(V, os) >= 0
<1> DEFINE z == [i \in 0..MaxOrders |-> 0]
           h == Over(V, os)
<1>1. h \in [0..MaxOrders -> Int]  BY OverIsTyped
<1>2. z \in [0..MaxOrders -> Int] /\ (\A i \in 0..MaxOrders : z[i] = 0)
      /\ \A i \in 0..MaxOrders : z[i] <= h[i]
  BY DEF Over, Valuations
<1> HIDE DEF h, z
<1>3. MaxOrders \in Nat  BY BacktestAssumption
<1>4. Total(z, MaxOrders) = 0  BY <1>2, <1>3, TotalOfZeros
<1>5. Total(z, MaxOrders) <= Total(h, MaxOrders)  BY <1>1, <1>2, <1>3, TotalGrows
<1> QED  BY <1>4, <1>5 DEF Tot, h

(* No more than c times another valuation: no more than c times its sum.   *)
LEMMA TotIsBounded ==
  ASSUME NEW V \in Valuations, NEW W \in Valuations, NEW c \in Int, NEW S \in SUBSET Ids,
         NEW os \in [S -> GoodOrders], \A id \in S : V[os[id]] <= c * W[os[id]]
  PROVE  Tot(V, os) <= c * Tot(W, os)
<1> DEFINE h == Over(V, os)
           w == Over(W, os)
           k == [i \in 0..MaxOrders |-> c * w[i]]
<1>1. h \in [0..MaxOrders -> Int] /\ w \in [0..MaxOrders -> Int]  BY OverIsTyped
<1>2. \A i \in 0..MaxOrders : h[i] <= c * w[i]
  <2> SUFFICES ASSUME NEW i \in 0..MaxOrders  PROVE h[i] <= c * w[i]
    OBVIOUS
  <2>1. CASE i \in S  BY <2>1 DEF Over
  <2>2. CASE i \notin S
    <3>1. h[i] = 0 /\ w[i] = 0  BY <2>2 DEF Over
    <3> QED  BY <3>1
  <2> QED  BY <2>1, <2>2
<1> HIDE DEF h, w
<1>3. k \in [0..MaxOrders -> Int] /\ (\A i \in 0..MaxOrders : k[i] = c * w[i])
      /\ \A i \in 0..MaxOrders : h[i] <= k[i]
  BY <1>1, <1>2, Distribution
<1> HIDE DEF k
<1>4. MaxOrders \in Nat  BY BacktestAssumption
<1>5. Total(h, MaxOrders) <= Total(k, MaxOrders)  BY <1>1, <1>3, <1>4, TotalGrows
<1>6. Total(k, MaxOrders) = c * Total(w, MaxOrders)  BY <1>1, <1>3, <1>4, TotalOfMultiple
<1> QED  BY <1>5, <1>6 DEF Tot, h, w

(* A sum over some of the orders, of a value the others do not have.       *)
LEMMA SumIsTot ==
  ASSUME NEW V \in Valuations, NEW S \in SUBSET Ids, NEW os \in [S -> GoodOrders],
         NEW T \in SUBSET S, NEW f, DOMAIN f = T,
         \A id \in T : f[id] = V[os[id]], \A id \in S \ T : V[os[id]] = 0
  PROVE  SumFunction(f) = Tot(V, os)
<1> DEFINE h == Over(V, os)
<1>1. h \in [0..MaxOrders -> Int] /\ \A id \in S : id \in 0..MaxOrders /\ h[id] = V[os[id]]
  BY OverIsTyped
<1>2. \A i \in (0..MaxOrders) \ S : h[i] = 0  BY DEF Over
<1> HIDE DEF h
<1>3. \A i \in (0..MaxOrders) \ T : h[i] = 0  BY <1>1, <1>2
<1>4. T \in SUBSET (0..MaxOrders) /\ \A i \in T : f[i] = h[i]  BY <1>1
<1>5. MaxOrders \in Nat  BY BacktestAssumption
<1>6. SumFunction(f) = Total(h, MaxOrders)  BY <1>1, <1>3, <1>4, <1>5, SumOfValues
<1> QED  BY <1>6 DEF Tot, h

-----------------------------------------------------------------------------
(* Part 11.  The account.  What an order has traded, and what it still may.*)
Sold(o) == o.count - o.rem

Volume    == [o \in GoodOrders |-> Sold(o)]
Inventory == [o \in GoodOrders |-> Direction(o) * Sold(o)]
Spent     == [o \in GoodOrders |-> Direction(o) * o.price * Sold(o)]
Held      == [o \in GoodOrders |-> IF IsLive(o) /\ Buys(o) THEN o.price * o.rem ELSE 0]
Risk      == [o \in GoodOrders |-> IF IsLive(o) THEN RequiredCents(o.contract, o.price, o.rem)
                                   ELSE 0]

(* Money set aside covers what it is for.                                  *)
LEMMA CeilingCovers ==
  ASSUME NEW a \in Int, NEW d \in Nat \ {0}
  PROVE  CeilDiv(a, d) \in Int /\ a <= d * CeilDiv(a, d) /\ d * CeilDiv(a, d) <= a + d - 1
<1> DEFINE x == a + d - 1
<1>1. x \in Int  OBVIOUS
<1> HIDE DEF x
<1>2. x \div d \in Int /\ x % d \in 0..(d - 1) /\ x = d * (x \div d) + (x % d)
  BY <1>1, Division
<1>3. CeilDiv(a, d) = x \div d  BY DEF CeilDiv, x
<1> DEFINE q == x \div d
           p == d * q
<1>4. q \in Int /\ p \in Int /\ x = p + (x % d)  BY <1>2, Distribution
<1> HIDE DEF q, p
<1>5. a <= p /\ p <= a + d - 1  BY <1>2, <1>4 DEF x
<1> QED  BY <1>3, <1>4, <1>5 DEF p, q

LEMMA RequiredCovers ==
  ASSUME NEW contract \in Contracts, NEW price \in Grid, NEW n \in Nat
  PROVE  /\ RequiredCents(contract, price, n) \in Int
         /\ RequiredCents(contract, price, n) >= 0
         /\ contract = "buy" => price * n <= Cent * RequiredCents(contract, price, n)
<1> DEFINE each == IF contract = "buy" THEN price ELSE OneDollar - price
           a == each * n
           c == CeilDiv(a, Cent)
<1>1. price \in Nat /\ OneDollar - price \in Nat /\ each \in Nat
  BY GridAssumption, PricesAreNumbers DEF Prices
<1>2. a \in Int /\ a >= 0
  <2> HIDE DEF each
  <2> QED  BY <1>1, SignOfProduct, Distribution
<1>3. RequiredCents(contract, price, n) = c  BY DEF RequiredCents
<1>4. contract = "buy" => a = price * n  OBVIOUS
<1> HIDE DEF a
<1>5. c \in Int /\ a <= Cent * c  BY <1>2, BacktestAssumption, CeilingCovers
<1> HIDE DEF c
<1>6. c >= 0
  <2> SUFFICES ASSUME c < 0  PROVE FALSE
    BY <1>5
  <2>1. Cent \in Int /\ Cent > 0 /\ 0 \in Int  BY BacktestAssumption
  <2>2. Cent * c < Cent * 0  BY <1>5, <2>1, ProductsGrowStrictly
  <2>3. Cent * 0 = 0  BY <2>1
  <2>4. Cent * c \in Int  BY <1>5, <2>1, Distribution
  <2> QED  BY <1>2, <1>5, <2>2, <2>3, <2>4
<1> QED  BY <1>3, <1>4, <1>5, <1>6

LEMMA ValuesAreNumbers ==
  ASSUME NEW o \in GoodOrders
  PROVE  /\ Sold(o) \in Nat /\ o.price \in Nat /\ Direction(o) \in {1, -1}
         /\ Direction(o) * Sold(o) \in Int /\ Direction(o) * o.price * Sold(o) \in Int
         /\ o.price * o.rem \in Nat
         /\ RequiredCents(o.contract, o.price, o.rem) \in Int
         /\ RequiredCents(o.contract, o.price, o.rem) >= 0
         /\ Buys(o) => o.price * o.rem <= Cent * RequiredCents(o.contract, o.price, o.rem)
<1>1. o.contract \in Contracts /\ o.price \in Grid /\ o.rem \in Nat /\ o.count \in Nat
      /\ o.rem <= o.count
  BY GoodFields
<1>2. Sold(o) \in Nat  BY <1>1 DEF Sold
<1>3. o.price \in Nat
  <2>1. o.price \in Prices  BY <1>1, GridAssumption
  <2> QED  BY <2>1, GridAssumption DEF Prices
<1>4. Direction(o) \in {1, -1}  BY DEF Direction
<1>5. Direction(o) * Sold(o) \in Int /\ Direction(o) * o.price * Sold(o) \in Int
  BY <1>2, <1>3, <1>4
<1>6. o.price * o.rem \in Nat  BY <1>1, <1>3, SignOfProduct, Distribution
<1>7. /\ RequiredCents(o.contract, o.price, o.rem) \in Int
      /\ RequiredCents(o.contract, o.price, o.rem) >= 0
      /\ Buys(o) => o.price * o.rem <= Cent * RequiredCents(o.contract, o.price, o.rem)
  BY <1>1, RequiredCovers DEF Buys
<1> QED  BY <1>2, <1>3, <1>4, <1>5, <1>6, <1>7

LEMMA ValuationsAreTyped ==
  Volume \in Valuations /\ Inventory \in Valuations /\ Spent \in Valuations
  /\ Held \in Valuations /\ Risk \in Valuations
<1>1. \A o \in GoodOrders :
        /\ Sold(o) \in Int /\ Direction(o) * Sold(o) \in Int
        /\ Direction(o) * o.price * Sold(o) \in Int /\ o.price * o.rem \in Int
        /\ RequiredCents(o.contract, o.price, o.rem) \in Int
  BY ValuesAreNumbers
<1> QED  BY <1>1 DEF Volume, Inventory, Spent, Held, Risk, Valuations

(* An order that has only changed its status has traded no more and holds  *)
(* no more.                                                                *)
LEMMA AlikeIsWorthTheSame ==
  ASSUME NEW o \in GoodOrders, NEW s \in GoodOrders, Alike(o, s)
  PROVE  /\ Volume[s] = Volume[o] /\ Inventory[s] = Inventory[o] /\ Spent[s] = Spent[o]
         /\ Held[s] <= Held[o]
<1>1. /\ s.contract = o.contract /\ s.price = o.price /\ s.count = o.count /\ s.rem = o.rem
      /\ IsLive(s) => IsLive(o)
  BY DEF Alike
<1>2. Sold(s) = Sold(o) /\ Direction(s) = Direction(o) /\ (Buys(s) <=> Buys(o))
  BY <1>1 DEF Sold, Direction, Buys
<1>3. o.price * o.rem \in Nat  BY ValuesAreNumbers
<1>4. Volume[s] = Volume[o] /\ Inventory[s] = Inventory[o] /\ Spent[s] = Spent[o]
  BY <1>1, <1>2 DEF Volume, Inventory, Spent
<1>5. Held[s] = (IF IsLive(s) /\ Buys(s) THEN o.price * o.rem ELSE 0)
      /\ Held[o] = (IF IsLive(o) /\ Buys(o) THEN o.price * o.rem ELSE 0)
  BY <1>1 DEF Held
<1>6. Held[s] <= Held[o]
  <2>1. CASE IsLive(s) /\ Buys(s)  BY <1>1, <1>2, <1>3, <1>5, <2>1
  <2>2. CASE ~(IsLive(s) /\ Buys(s))  BY <1>3, <1>5, <2>2
  <2> QED  BY <2>1, <2>2
<1> QED  BY <1>4, <1>6

Accounts == [position : Int, cash : Int, volume : Int, fees : Nat, filled : [Ids -> Nat]]

AccountInv ==
  /\ portfolio \in Accounts
  /\ portfolio.position = Tot(Inventory, orders)
  /\ portfolio.cash + portfolio.fees = -Tot(Spent, orders)
  /\ portfolio.volume = Tot(Volume, orders)
  /\ \A id \in Ids : portfolio.filled[id] = Filled(id)

(* The balance and what was earned pay for the purchases at rest.          *)
PaidInv ==
  StartingBalance * Cent + (portfolio.cash + portfolio.fees) >= Tot(Held, orders)

(* Every order keeps its worth: settling and canceling.                    *)
LEMMA StatusKeepsAccount ==
  ASSUME TypeInv, AccountInv, PaidInv, orders' \in [Tracked -> GoodOrders],
         \A id \in Tracked : Alike(orders[id], orders'[id]), portfolio' = portfolio
  PROVE  AccountInv' /\ PaidInv'
<1>1. Tracked \in SUBSET Ids /\ orders \in [Tracked -> GoodOrders]
  BY TrackedAreIds DEF TypeInv
<1>2. Tracked' = Tracked  BY DEF Tracked
<1>3. ASSUME NEW id \in Tracked
      PROVE  /\ Volume[orders'[id]] = Volume[orders[id]]
             /\ Inventory[orders'[id]] = Inventory[orders[id]]
             /\ Spent[orders'[id]] = Spent[orders[id]]
             /\ Held[orders'[id]] <= Held[orders[id]]
  BY <1>1, AlikeIsWorthTheSame
<1>4. /\ Tot(Volume, orders') = Tot(Volume, orders)
      /\ Tot(Inventory, orders') = Tot(Inventory, orders)
      /\ Tot(Spent, orders') = Tot(Spent, orders)
  BY <1>1, <1>3, ValuationsAreTyped, TotIsSame
<1>5. Tot(Held, orders') <= Tot(Held, orders)
  BY <1>1, <1>3, ValuationsAreTyped, TotIsLess
<1>6. Tot(Held, orders) \in Int /\ Tot(Held, orders') \in Int
  BY <1>1, ValuationsAreTyped, OverIsTyped
<1>7. ASSUME NEW id \in Ids  PROVE portfolio'.filled[id] = Filled(id)'
  <2>1. portfolio.filled[id] = Filled(id)  BY DEF AccountInv
  <2>2. CASE id \in Tracked
    <3>1. orders'[id].count = orders[id].count /\ orders'[id].rem = orders[id].rem
      BY <2>2 DEF Alike
    <3> QED  BY <1>2, <2>1, <2>2, <3>1 DEF Filled
  <2>3. CASE id \notin Tracked  BY <1>2, <2>1, <2>3 DEF Filled
  <2> QED  BY <2>2, <2>3
<1>8. AccountInv'  BY <1>4, <1>7 DEF AccountInv
<1>9. PaidInv'
  <2>1. StartingBalance * Cent \in Int /\ portfolio.cash \in Int /\ portfolio.fees \in Int
    BY BacktestAssumption, Distribution DEF AccountInv, Accounts
  <2> QED  BY <1>5, <1>6, <2>1 DEF PaidInv
<1> QED  BY <1>8, <1>9

(* What a fill is worth.                                                   *)
LEMMA FillIsWorth ==
  ASSUME NEW o \in GoodOrders, IsFillable(o), NEW n \in Nat \ {0}, n <= o.rem
  PROVE  LET s == Traded(o, n)
         IN  /\ s \in GoodOrders /\ s.price = o.price /\ s.contract = o.contract
             /\ Sold(s) = Sold(o) + n /\ Direction(o) * o.price * n \in Int
             /\ Volume[s] = Volume[o] + n /\ Inventory[s] = Inventory[o] + Direction(o) * n
             /\ Spent[s] = Spent[o] + Direction(o) * o.price * n
             /\ Held[s] <= Held[o] - Direction(o) * o.price * n
<1> DEFINE s == Traded(o, n)
           d == Direction(o)
           dp == d * o.price
           t == Sold(o)
<1>1. /\ s \in GoodOrders
      /\ s.contract = o.contract /\ s.price = o.price /\ s.count = o.count
      /\ s.rem = o.rem - n /\ s.status = IF o.rem = n THEN "filled" ELSE o.status
  BY TradedIsGood
<1>2. o.rem \in Nat /\ o.count \in Nat /\ o.price \in Nat /\ d \in {1, -1} /\ t \in Nat
  BY GoodFields, ValuesAreNumbers
<1>3. o.status \in {"open", "pending_cancel"}  BY DEF IsFillable
<1> HIDE DEF s, d
<1>4. Sold(s) = t + n  BY <1>1, <1>2 DEF Sold
<1>5. (Buys(s) <=> Buys(o)) /\ Direction(s) = d  BY <1>1 DEF Buys, Direction, d
<1>6. d = IF Buys(o) THEN 1 ELSE -1  BY DEF d, Direction
<1>7. dp \in Int  BY <1>2
<1>8. /\ Volume[s] = t + n /\ Inventory[s] = d * (t + n) /\ Spent[s] = dp * (t + n)
      /\ Volume[o] = t /\ Inventory[o] = d * t /\ Spent[o] = dp * t
  BY <1>1, <1>4, <1>5 DEF Volume, Inventory, Spent, d
<1> HIDE DEF dp, t
<1>9. d * (t + n) = d * t + d * n /\ dp * (t + n) = dp * t + dp * n
  BY <1>2, <1>7, Distribution
<1>10. Held[s] <= Held[o] - dp * n
  <2> DEFINE whole == o.price * o.rem
             piece == o.price * n
  <2>0. Held[o] = (IF IsLive(o) /\ Buys(o) THEN whole ELSE 0)
    BY DEF Held
  <2>1. /\ o.price * (o.rem - n) = whole - piece /\ whole \in Int /\ piece \in Int
        /\ piece >= 0
    BY <1>2, Distribution, SignOfProduct
  <2>2. Held[s] = IF IsLive(s) /\ Buys(o) THEN whole - piece ELSE 0
    BY <1>1, <1>5, <2>1 DEF Held
  <2>3. IsLive(o)  BY <1>3 DEF IsLive
  <2>4. CASE Buys(o)
    <3>1. dp = o.price /\ dp * n = piece  BY <1>2, <1>6, <2>4 DEF dp
    <3>2. Held[o] = whole  BY <2>0, <2>3, <2>4
    <3>3. Held[s] = whole - piece
      <4>1. CASE IsLive(s)  BY <2>2, <2>4, <4>1
      <4>2. CASE ~IsLive(s)
        <5>1. o.rem = n  BY <1>1, <1>3, <4>2 DEF IsLive
        <5>2. whole - piece = 0  BY <2>1, <5>1
        <5> HIDE DEF whole, piece
        <5> QED  BY <2>2, <4>2, <5>2
      <4> QED  BY <4>1, <4>2
    <3> HIDE DEF whole, piece
    <3> QED  BY <2>1, <3>1, <3>2, <3>3
  <2>5. CASE ~Buys(o)
    <3>1. dp = -o.price  BY <1>2, <1>6, <2>5 DEF dp
    <3>2. dp * n = -piece  BY <1>2, <3>1
    <3>3. Held[o] = 0 /\ Held[s] = 0  BY <2>0, <2>2, <2>5
    <3> HIDE DEF piece
    <3> QED  BY <2>1, <3>2, <3>3
  <2> QED  BY <2>4, <2>5
<1>11. dp * n \in Int  BY <1>2, <1>7, Distribution
<1> QED  BY <1>1, <1>4, <1>8, <1>9, <1>10, <1>11 DEF s, d, dp, t

(* A fee is a number, and never less than nothing.                         *)
LEMMA FeeIsTyped ==
  ASSUME NEW price \in Prices, NEW n \in Int, NEW taker
  PROVE  FeeMicros(price, n, taker) \in Nat
<1>1. CASE n <= 0  BY <1>1 DEF FeeMicros
<1>2. CASE ~(n <= 0)
  <2> DEFINE f == Formula(price, n)
             m == (MakerFee * n) \div CountScale
             raw == IF taker \/ ChargeMakers THEN f ELSE m
  <2>1. n \in Nat /\ price \in Nat /\ OneDollar - price \in Nat
    BY <1>2, FeeAssumption DEF Prices
  <2>2. f \in Nat
    <3> DEFINE a == TradingFeeBps * n
               b == a * price
               c == b * (OneDollar - price)
               d == FeeBpsScale * OneDollar
    <3>1. a \in Nat  BY <2>1, FeeAssumption, SignOfProduct, Distribution
    <3> HIDE DEF a
    <3>2. b \in Nat  BY <2>1, <3>1, SignOfProduct, Distribution
    <3> HIDE DEF b
    <3>3. c \in Nat  BY <2>1, <3>2, SignOfProduct, Distribution
    <3>4. d \in Nat \ {0}  BY FeeAssumption
    <3>5. f = c \div d  BY DEF Formula, a, b
    <3> HIDE DEF c, d, f
    <3> QED  BY <3>3, <3>4, <3>5
  <2>3. m \in Nat
    <3> DEFINE a == MakerFee * n
    <3>1. a \in Nat  BY <2>1, FeeAssumption, SignOfProduct, Distribution
    <3> HIDE DEF a
    <3> QED  BY <3>1, FeeAssumption DEF a
  <2> HIDE DEF f, m
  <2>4. raw \in Nat  BY <2>2, <2>3
  <2> HIDE DEF raw
  <2>5. FeeMicros(price, n, taker) = CeilDiv(raw, FeeTick) * FeeTick
    BY <1>2 DEF FeeMicros, CeilTo, raw, f, m
  <2>6. CeilDiv(raw, FeeTick) \in Nat  BY <2>4, FeeAssumption DEF CeilDiv
  <2> DEFINE c == CeilDiv(raw, FeeTick)
  <2>7. c \in Nat  BY <2>6
  <2> HIDE DEF c
  <2>8. c * FeeTick \in Nat  BY <2>7, FeeAssumption, SignOfProduct, Distribution
  <2> QED  BY <2>5, <2>8 DEF c
<1> QED  BY <1>1, <1>2

LEMMA FillKeepsAccount ==
  ASSUME Inv, AccountInv, PaidInv, NEW id \in DOMAIN candidates, Fill(id), model' = model
  PROVE  AccountInv' /\ PaidInv'
<1> DEFINE o == orders[id]
           n == Least(candidates[id], o.rem)
           s == Traded(o, n)
           taker == IsMarketable(o, book, model = "pessimistic")
           fee == IncrementalFee(portfolio.filled[id], o.price, n, taker)
           worth == Direction(o) * o.price * n
<1>1. /\ Tracked \subseteq Ids /\ orders \in [Tracked -> GoodOrders]
      /\ \A k \in Tracked : orders[k] \in GoodOrders
  BY TrackedAreIds DEF Inv, TypeInv
<1>2. id \in Tracked /\ o \in GoodOrders /\ candidates[id] \in Nat \ {0} /\ IsFillable(o)
  BY <1>1 DEF Inv, CandidatesInv
<1>3. n \in Nat \ {0} /\ n <= o.rem
  <2>1. o.rem \in Nat  BY <1>2, GoodFields
  <2>2. o.rem > 0  BY <1>2 DEF IsFillable
  <2> QED  BY <1>2, <2>1, <2>2 DEF Least
<1>4. orders' = [orders EXCEPT ![id] = s] /\ portfolio' = ApplyFill(portfolio, id, o, n, taker)
  BY DEF Fill
<1> HIDE DEF n
<1>5. /\ s \in GoodOrders /\ Sold(s) = Sold(o) + n /\ worth \in Int
      /\ Volume[s] = Volume[o] + n /\ Inventory[s] = Inventory[o] + Direction(o) * n
      /\ Spent[s] = Spent[o] + worth /\ Held[s] <= Held[o] - worth
  BY <1>2, <1>3, FillIsWorth
<1>6. fee \in Nat
  <2>1. portfolio.filled[id] \in Nat /\ o.price \in Prices
    BY <1>1, <1>2, GoodFields, GridAssumption DEF AccountInv, Accounts
  <2>2. /\ FeeMicros(o.price, portfolio.filled[id] + n, taker) \in Nat
        /\ FeeMicros(o.price, portfolio.filled[id], taker) \in Nat
    BY <1>3, <2>1, FeeIsTyped
  <2> QED  BY <2>2 DEF IncrementalFee
<1>7. /\ portfolio'.position = portfolio.position + Direction(o) * n
      /\ portfolio'.cash = portfolio.cash - worth - fee
      /\ portfolio'.volume = portfolio.volume + n /\ portfolio'.fees = portfolio.fees + fee
      /\ portfolio'.filled = [portfolio.filled EXCEPT ![id] = portfolio.filled[id] + n]
      /\ portfolio' = [position |-> portfolio'.position, cash |-> portfolio'.cash,
                       volume |-> portfolio'.volume, fees |-> portfolio'.fees,
                       filled |-> portfolio'.filled]
  BY <1>4 DEF ApplyFill, AccountInv, Accounts
<1> HIDE DEF s, taker, fee, worth
<1>8. orders' \in [Tracked -> GoodOrders] /\ Tracked' = Tracked
      /\ orders'[id] = s /\ \A k \in Tracked : k # id => orders'[k] = orders[k]
  BY <1>1, <1>2, <1>4, <1>5 DEF Tracked
<1>9. ASSUME NEW V \in Valuations
      PROVE  /\ Tot(V, orders') = Tot(V, orders) + V[s] - V[o]
             /\ Tot(V, orders') \in Int /\ Tot(V, orders) \in Int
             /\ V[s] \in Int /\ V[o] \in Int
  <2>1. Tracked \in SUBSET Ids  BY <1>1
  <2>2. Tot(V, orders') = Tot(V, orders) + V[orders'[id]] - V[orders[id]]
    BY <1>1, <1>2, <1>8, <2>1, TotChanges
  <2>3. Tot(V, orders') \in Int /\ Tot(V, orders) \in Int  BY <1>1, <1>8, <2>1, OverIsTyped
  <2>4. V[s] \in Int /\ V[o] \in Int  BY <1>2, <1>5 DEF Valuations
  <2> QED  BY <1>8, <2>2, <2>3, <2>4
<1>10. Direction(o) * n \in Int  BY <1>2, <1>3, ValuesAreNumbers
<1>11. /\ portfolio.position \in Int /\ portfolio.cash \in Int /\ portfolio.volume \in Int
       /\ portfolio.fees \in Nat /\ portfolio.filled \in [Ids -> Nat]
  BY DEF AccountInv, Accounts
<1> HIDE DEF o
<1>12. portfolio'.position = Tot(Inventory, orders')
  <2>1. Inventory \in Valuations  BY ValuationsAreTyped
  <2>2. /\ Tot(Inventory, orders') = Tot(Inventory, orders) + Inventory[s] - Inventory[o]
        /\ Tot(Inventory, orders) \in Int /\ Inventory[o] \in Int
    BY <1>9, <2>1
  <2>3. portfolio.position = Tot(Inventory, orders)  BY DEF AccountInv
  <2> QED  BY <1>5, <1>7, <1>10, <1>11, <2>2, <2>3
<1>13. portfolio'.volume = Tot(Volume, orders')
  <2>1. Volume \in Valuations  BY ValuationsAreTyped
  <2>2. /\ Tot(Volume, orders') = Tot(Volume, orders) + Volume[s] - Volume[o]
        /\ Tot(Volume, orders) \in Int /\ Volume[o] \in Int
    BY <1>9, <2>1
  <2>3. portfolio.volume = Tot(Volume, orders)  BY DEF AccountInv
  <2> QED  BY <1>3, <1>5, <1>7, <1>11, <2>2, <2>3
<1>14. portfolio'.cash + portfolio'.fees = portfolio.cash + portfolio.fees - worth
  BY <1>5, <1>6, <1>7, <1>11
<1>15. portfolio'.cash + portfolio'.fees = -Tot(Spent, orders')
  <2>1. Spent \in Valuations  BY ValuationsAreTyped
  <2>2. /\ Tot(Spent, orders') = Tot(Spent, orders) + Spent[s] - Spent[o]
        /\ Tot(Spent, orders) \in Int /\ Spent[o] \in Int
    BY <1>9, <2>1
  <2>3. portfolio.cash + portfolio.fees = -Tot(Spent, orders)  BY DEF AccountInv
  <2> DEFINE gross == portfolio.cash + portfolio.fees
             later == portfolio'.cash + portfolio'.fees
  <2>4. later = gross - worth /\ gross = -Tot(Spent, orders) /\ worth \in Int /\ gross \in Int
    BY <1>5, <1>11, <1>14, <2>3
  <2> HIDE DEF gross, later
  <2>5. later = -Tot(Spent, orders')  BY <1>5, <2>2, <2>4
  <2> QED  BY <2>5 DEF later
<1>16. portfolio' \in Accounts
  <2>1. portfolio'.position \in Int  BY <1>7, <1>10, <1>11
  <2>2. portfolio'.cash \in Int /\ portfolio'.volume \in Int /\ portfolio'.fees \in Nat
    BY <1>3, <1>5, <1>6, <1>7, <1>11
  <2>3. portfolio'.filled \in [Ids -> Nat]
    <3>1. portfolio.filled[id] + n \in Nat  BY <1>1, <1>2, <1>3, <1>11
    <3> QED  BY <1>7, <1>11, <3>1
  <2> QED  BY <1>7, <2>1, <2>2, <2>3 DEF Accounts
<1>17. ASSUME NEW k \in Ids  PROVE portfolio'.filled[k] = Filled(k)'
  <2>1. portfolio.filled[k] = Filled(k)  BY DEF AccountInv
  <2>2. CASE k = id
    <3>1. portfolio'.filled[k] = Filled(k) + n  BY <1>7, <1>11, <2>1, <2>2
    <3>2. Filled(k) = Sold(o)  BY <1>2, <2>2 DEF Filled, Sold, o
    <3>3. Filled(k)' = Sold(s)  BY <1>2, <1>8, <2>2 DEF Filled, Sold
    <3> QED  BY <1>5, <3>1, <3>2, <3>3
  <2>3. CASE k # id
    <3>1. portfolio'.filled[k] = Filled(k)  BY <1>7, <1>11, <2>1, <2>3
    <3>2. Filled(k)' = Filled(k)  BY <1>8, <2>3 DEF Filled
    <3> QED  BY <3>1, <3>2
  <2> QED  BY <2>2, <2>3
<1>18. AccountInv'  BY <1>12, <1>13, <1>15, <1>16, <1>17 DEF AccountInv
<1>19. PaidInv'
  <2>1. Held \in Valuations  BY ValuationsAreTyped
  <2>2. /\ Tot(Held, orders') = Tot(Held, orders) + Held[s] - Held[o]
        /\ Tot(Held, orders) \in Int /\ Held[o] \in Int /\ Held[s] \in Int
    BY <1>9, <2>1
  <2> DEFINE start == StartingBalance * Cent
  <2>3. start \in Int  BY BacktestAssumption, Distribution
  <2>4. start + (portfolio.cash + portfolio.fees) >= Tot(Held, orders)  BY DEF PaidInv
  <2> HIDE DEF start
  <2>5. start + (portfolio'.cash + portfolio'.fees) >= Tot(Held, orders')
    BY <1>5, <1>11, <1>14, <2>2, <2>3, <2>4
  <2> QED  BY <2>5 DEF PaidInv, start
<1> QED  BY <1>18, <1>19

(* The reserve a new order is checked against is the sum of the risks.     *)
LEMMA ReserveIsTot == TypeInv => ReservedRisk = Tot(Risk, orders)
<1> SUFFICES ASSUME TypeInv  PROVE ReservedRisk = Tot(Risk, orders)
  OBVIOUS
<1> DEFINE T == {k \in Tracked : IsLive(orders[k])}
           f == [id \in T |-> RequiredCents(orders[id].contract, orders[id].price, orders[id].rem)]
<1>1. /\ Tracked \in SUBSET Ids /\ orders \in [Tracked -> GoodOrders]
      /\ \A k \in Tracked : orders[k] \in GoodOrders
  BY TrackedAreIds DEF TypeInv
<1>2. ReservedRisk = SumFunction(f)  BY DEF ReservedRisk
<1>3. DOMAIN f = T /\ T \in SUBSET Tracked  OBVIOUS
<1>4. \A id \in T : f[id] = Risk[orders[id]]  BY <1>1 DEF Risk
<1>5. \A id \in Tracked \ T : Risk[orders[id]] = 0  BY <1>1 DEF Risk
<1>6. Risk \in Valuations  BY ValuationsAreTyped
<1> HIDE DEF f, T
<1>7. SumFunction(f) = Tot(Risk, orders)  BY <1>1, <1>3, <1>4, <1>5, <1>6, SumIsTot
<1> QED  BY <1>2, <1>7

LEMMA PlaceKeepsAccount ==
  ASSUME Inv, AccountInv, PaidInv, NEW i \in wanted, Place(i), model' = model
  PROVE  AccountInv' /\ PaidInv'
<1>1. (Send(i) \/ LeaveOut(i)) /\ portfolio' = portfolio  BY DEF Place
<1>2. /\ Tracked = 1..(nextId - 1) /\ Tracked \in SUBSET Ids
      /\ orders \in [Tracked -> GoodOrders] /\ nextId \in Nat
  BY TrackedAreIds DEF Inv, TypeInv
<1>3. CASE LeaveOut(i)
  <2>1. orders' = orders  BY <1>3 DEF LeaveOut
  <2> QED  BY <1>1, <2>1 DEF AccountInv, PaidInv, Filled, Tracked
<1>4. CASE Send(i)
  <2> DEFINE o == PlacedOrder(i)
             S == Tracked \cup {nextId}
  <2>1. orders' = [id \in S |-> IF id = nextId THEN o ELSE orders[id]] /\ ~ExceedsBalance(i)
    BY <1>4 DEF Send, PlacedOrder
  <2>2. i \in Intents /\ now \in Nat  BY DEF Inv, TypeInv
  <2>3. /\ o \in GoodOrders /\ o.contract = i.contract /\ o.price = i.price
        /\ o.count = i.count /\ o.rem = i.count /\ o.status \in {"open", "pending_open"}
    BY <2>2, PlacedIsGood
  <2> HIDE DEF o
  <2>4. nextId \in Ids /\ nextId \notin Tracked
    <3>1. TypeInv'
      BY PlaceKeeps DEF Inv
    <3>2. nextId' = nextId + 1 /\ nextId' \in 1..(MaxOrders + 1)
      BY <1>4, <3>1 DEF Send, TypeInv
    <3>3. nextId \in 1..(MaxOrders + 1)  BY DEF Inv, TypeInv
    <3> QED  BY <1>2, <3>2, <3>3, BacktestAssumption DEF Ids
  <2>5. /\ orders' \in [Tracked \cup {nextId} -> GoodOrders] /\ orders'[nextId] = o
        /\ (\A k \in Tracked : orders'[k] = orders[k]) /\ Tracked' = S
    BY <1>2, <2>1, <2>3, <2>4 DEF Tracked
  <2>6. ASSUME NEW V \in Valuations
        PROVE  /\ Tot(V, orders') = Tot(V, orders) + V[o]
               /\ Tot(V, orders) \in Int /\ V[o] \in Int
    <3>1. Tot(V, orders') = Tot(V, orders) + V[orders'[nextId]]
      <4>1. \A os, ps : /\ os \in [Tracked -> GoodOrders]
                        /\ ps \in [Tracked \cup {nextId} -> GoodOrders]
                        /\ \A id \in Tracked : ps[id] = os[id]
                        => Tot(V, ps) = Tot(V, os) + V[ps[nextId]]
        <5>1. Tracked \in SUBSET Ids /\ nextId \in Ids /\ nextId \notin Tracked
          BY <1>2, <2>4
        <5> QED  BY <5>1, TotAdds
      <4> QED  BY Zenon, <1>2, <2>5, <4>1
    <3>2. Tot(V, orders) \in Int /\ V[o] \in Int  BY <1>2, <2>3, OverIsTyped DEF Valuations
    <3> QED  BY <2>5, <3>1, <3>2
  <2>7. Sold(o) = 0
    <3>1. i.count \in Nat  BY <2>2, BacktestAssumption
    <3> QED  BY <2>3, <3>1 DEF Sold
  <2>8. Volume[o] = 0 /\ Inventory[o] = 0 /\ Spent[o] = 0
    <3>1. Direction(o) \in Int /\ Direction(o) * o.price \in Int
      BY <2>3, ValuesAreNumbers
    <3>2. Direction(o) * 0 = 0 /\ Direction(o) * o.price * 0 = 0  BY <3>1
    <3> QED  BY <2>3, <2>7, <3>2 DEF Volume, Inventory, Spent
  <2>9. /\ Tot(Volume, orders') = Tot(Volume, orders)
        /\ Tot(Inventory, orders') = Tot(Inventory, orders)
        /\ Tot(Spent, orders') = Tot(Spent, orders)
    BY <2>6, <2>8, ValuationsAreTyped
  <2>10. ASSUME NEW k \in Ids  PROVE portfolio'.filled[k] = Filled(k)'
    <3>1. portfolio'.filled[k] = Filled(k)  BY <1>1 DEF AccountInv
    <3>2. CASE k = nextId
      <4>1. Filled(k) = 0  BY <2>4, <3>2 DEF Filled
      <4>2. Filled(k)' = Sold(o)  BY <2>5, <3>2 DEF Filled, Sold
      <4> QED  BY <2>7, <3>1, <4>1, <4>2
    <3>3. CASE k # nextId  BY <2>5, <3>1, <3>3 DEF Filled
    <3> QED  BY <3>2, <3>3
  <2>11. AccountInv'  BY <1>1, <2>9, <2>10 DEF AccountInv
  <2>12. PaidInv'
    <3> DEFINE start == StartingBalance * Cent
               gross == portfolio.cash + portfolio.fees
               required == RequiredCents(i.contract, i.price, i.count)
               cents == StartingBalance + (portfolio.cash \div Cent)
               held == Tot(Held, orders)
               risk == Tot(Risk, orders)
    <3>1. start \in Int /\ Cent \in Nat \ {0} /\ StartingBalance \in Int
          /\ start = Cent * StartingBalance
      BY BacktestAssumption, Distribution
    <3>2. portfolio.cash \in Int /\ portfolio.fees \in Nat /\ gross \in Int
      BY DEF AccountInv, Accounts
    <3>3. start + gross >= held  BY DEF PaidInv
    <3>4. held \in Int /\ risk \in Int /\ Tot(Held, orders') = held + Held[o] /\ Held[o] \in Int
      BY <2>6, ValuationsAreTyped
    <3>5. held <= Cent * risk /\ held >= 0 /\ risk >= 0
      <4>1. ASSUME NEW id \in Tracked
            PROVE  /\ Held[orders[id]] <= Cent * Risk[orders[id]]
                   /\ Held[orders[id]] >= 0 /\ Risk[orders[id]] >= 0
        <5> DEFINE p == orders[id]
                   r == RequiredCents(p.contract, p.price, p.rem)
        <5>1. p \in GoodOrders  BY <1>2
        <5> HIDE DEF p
        <5>2. /\ p.price * p.rem \in Nat /\ r \in Int /\ r >= 0
              /\ Buys(p) => p.price * p.rem <= Cent * r
          BY <5>1, ValuesAreNumbers
        <5>3. Held[p] = (IF IsLive(p) /\ Buys(p) THEN p.price * p.rem ELSE 0)
              /\ Risk[p] = (IF IsLive(p) THEN r ELSE 0)
          BY <5>1 DEF Held, Risk
        <5> HIDE DEF r
        <5>4. Cent * r >= 0 /\ Cent * 0 = 0  BY <3>1, <5>2, SignOfProduct
        <5>5. CASE IsLive(p) /\ Buys(p)
          <6>1. Held[p] = p.price * p.rem /\ Risk[p] = r /\ p.price * p.rem <= Cent * r
            BY Zenon, <5>2, <5>3, <5>5
          <6> QED  BY <5>2, <6>1 DEF p
        <5>6. CASE IsLive(p) /\ ~Buys(p)
          <6>1. Held[p] = 0 /\ Risk[p] = r  BY Zenon, <5>3, <5>6
          <6> QED  BY <5>2, <5>4, <6>1 DEF p
        <5>7. CASE ~IsLive(p)
          <6>1. Held[p] = 0 /\ Risk[p] = 0  BY Zenon, <5>3, <5>7
          <6> QED  BY <5>4, <6>1 DEF p
        <5> QED  BY <5>5, <5>6, <5>7 DEF p
      <4>2. Cent \in Int  BY <3>1
      <4>3. held <= Cent * risk  BY <1>2, <4>1, <4>2, ValuationsAreTyped, TotIsBounded
      <4>4. held >= 0 /\ risk >= 0  BY <1>2, <4>1, ValuationsAreTyped, TotIsNat
      <4> QED  BY <4>3, <4>4
    <3>6. /\ required \in Int /\ required >= 0 /\ Held[o] <= Cent * required
          /\ Cent * required \in Int
      <4>1. o.price * o.rem \in Nat  BY <2>3, ValuesAreNumbers
      <4>2. /\ RequiredCents(o.contract, o.price, o.rem) = required
            /\ required \in Int /\ required >= 0
            /\ Buys(o) => o.price * o.rem <= Cent * required
        BY <2>3, ValuesAreNumbers
      <4> HIDE DEF required
      <4>3. Cent * required >= 0 /\ Cent * required \in Int
        BY <3>1, <4>2, SignOfProduct, Distribution
      <4>4. Held[o] = IF IsLive(o) /\ Buys(o) THEN o.price * o.rem ELSE 0
        BY <2>3 DEF Held
      <4> QED  BY <4>2, <4>3, <4>4
    <3>7. risk + required <= AvailableBalance
          /\ AvailableBalance = IF cents > 0 THEN cents ELSE 0
      <4>1. ReservedRisk = risk  BY ReserveIsTot DEF Inv
      <4>2. AvailableBalance = IF cents > 0 THEN cents ELSE 0  BY DEF AvailableBalance
      <4>3. cents \in Int  BY <3>1, <3>2
      <4>4. ~(risk + required > AvailableBalance)  BY <2>1, <4>1 DEF ExceedsBalance
      <4> HIDE DEF risk, required, cents
      <4> QED  BY <3>4, <3>6, <4>2, <4>3, <4>4
    <3> HIDE DEF start, gross, required, held, risk
    <3>8. CASE cents > 0
      <4> DEFINE whole == portfolio.cash \div Cent
      <4>1. whole \in Int /\ Cent * whole <= portfolio.cash
        <5>1. /\ whole \in Int /\ portfolio.cash % Cent \in 0..(Cent - 1)
              /\ portfolio.cash = Cent * whole + (portfolio.cash % Cent)
          BY <3>1, <3>2, Division
        <5> DEFINE x == Cent * whole
        <5>2. x \in Int  BY <3>1, <5>1, Distribution
        <5> HIDE DEF x
        <5> QED  BY <3>1, <5>1, <5>2 DEF x
      <4> HIDE DEF whole
      <4>2. risk + required <= StartingBalance + whole  BY <3>7, <3>8 DEF whole
      <4>3. Cent * (risk + required) <= Cent * (StartingBalance + whole)
        <5>1. risk + required \in Int /\ StartingBalance + whole \in Int /\ Cent \in Int /\ Cent >= 0
          BY <3>1, <3>4, <3>6, <4>1
        <5> QED  BY <4>2, <5>1, ProductsGrow
      <4>4. /\ Cent * (risk + required) = Cent * risk + Cent * required
            /\ Cent * (StartingBalance + whole) = start + Cent * whole
            /\ Cent * risk \in Int /\ Cent * whole \in Int
        BY <3>1, <3>4, <3>6, <4>1, Distribution
      <4>5. held + Held[o] <= start + portfolio.cash
        BY <3>1, <3>2, <3>4, <3>5, <3>6, <4>1, <4>3, <4>4
      <4>6. held + Held[o] <= start + gross
        BY <3>1, <3>2, <3>4, <4>5 DEF gross
      <4> QED  BY <1>1, <3>4, <4>6 DEF PaidInv, start, gross
    <3>9. CASE ~(cents > 0)
      <4>1. risk = 0 /\ required = 0  BY <3>4, <3>5, <3>6, <3>7, <3>9
      <4>2. Cent * 0 = 0  BY <3>1
      <4>3. held = 0 /\ Held[o] <= 0  BY <3>4, <3>5, <3>6, <4>1, <4>2
      <4>4. held + Held[o] <= start + gross  BY <3>1, <3>2, <3>3, <3>4, <4>3
      <4> QED  BY <1>1, <3>4, <4>4 DEF PaidInv, start, gross
    <3> QED  BY <3>8, <3>9
  <2> QED  BY <2>11, <2>12
<1> QED  BY <1>1, <1>3, <1>4

LEMMA AccountStarts == Init => AccountInv /\ PaidInv
<1> SUFFICES ASSUME Init  PROVE AccountInv /\ PaidInv
  OBVIOUS
<1>1. orders = [id \in {} |-> 0] /\ portfolio = EmptyPortfolio(Ids)  BY DEF Init
<1>2. DOMAIN orders = {} /\ Tracked = {}  BY <1>1 DEF Tracked
<1>3. /\ Tot(Inventory, orders) = 0 /\ Tot(Spent, orders) = 0
      /\ Tot(Volume, orders) = 0 /\ Tot(Held, orders) = 0
  BY <1>2, ValuationsAreTyped, TotOfNone
<1>4. portfolio = [position |-> 0, cash |-> 0, volume |-> 0, fees |-> 0,
                   filled |-> [id \in Ids |-> 0]]
  BY <1>1 DEF EmptyPortfolio
<1>5. AccountInv
  <2>1. portfolio \in Accounts  BY <1>4 DEF Accounts
  <2>2. \A id \in Ids : portfolio.filled[id] = Filled(id)  BY <1>2, <1>4 DEF Filled
  <2>3. portfolio.cash + portfolio.fees = -Tot(Spent, orders)
    <3>1. \A n \in Int : n + n = 0 => -n = n  OBVIOUS
    <3>2. portfolio.cash + portfolio.fees = 0  BY <1>4
    <3> QED  BY <1>3, <3>1, <3>2
  <2> QED  BY <1>3, <1>4, <2>1, <2>2, <2>3 DEF AccountInv
<1>6. PaidInv
  <2>1. StartingBalance * Cent \in Int /\ StartingBalance * Cent >= 0
    BY BacktestAssumption, SignOfProduct, Distribution
  <2>2. portfolio.cash + portfolio.fees = 0  BY <1>4
  <2> QED  BY <1>3, <2>1, <2>2 DEF PaidInv
<1> QED  BY <1>5, <1>6

LEMMA SettlingKeepsAccount ==
  ASSUME Inv, AccountInv, PaidInv, NEW time \in Nat, orders' = Settled(time),
         portfolio' = portfolio
  PROVE  AccountInv' /\ PaidInv'
<1>1. /\ Settled(time) \in [1..(nextId - 1) -> GoodOrders] /\ Tracked = 1..(nextId - 1)
      /\ \A id \in Tracked : Settled(time)[id] = Settle(orders[id], time)
  BY SettledIsGood DEF Inv
<1>2. \A id \in Tracked : orders[id] \in GoodOrders  BY TrackedAreIds DEF Inv
<1>3. \A id \in Tracked : Alike(orders[id], orders'[id])
  BY <1>1, <1>2, SettleIsGood
<1>4. orders' \in [Tracked -> GoodOrders]  BY <1>1
<1> QED  BY <1>3, <1>4, StatusKeepsAccount DEF Inv

LEMMA AccountKeeps ==
  Inv /\ AccountInv /\ PaidInv /\ [Next]_vars => AccountInv' /\ PaidInv'
<1> SUFFICES ASSUME Inv, AccountInv, PaidInv, [Next]_vars  PROVE AccountInv' /\ PaidInv'
  OBVIOUS
<1>0. ASSUME orders' = orders, portfolio' = portfolio  PROVE AccountInv' /\ PaidInv'
  BY <1>0 DEF AccountInv, PaidInv, Filled, Tracked
<1>1. CASE UNCHANGED vars
  <2>1. orders' = orders /\ portfolio' = portfolio  BY <1>1 DEF vars
  <2> QED  BY <1>0, <2>1
<1>2. CASE Next
  <2>0. model' = model /\ now \in Nat  BY <1>2 DEF Next, Inv, TypeInv
  <2>1. ASSUME NEW gap \in 0..MaxGap, NEW side \in {"bid", "ask"}, NEW price \in Grid,
               NEW change \in (-MaxSize)..MaxSize, BookEvent(side, price, change, gap)
        PROVE  AccountInv' /\ PaidInv'
    <3>1. orders' = Settled(now + gap) /\ portfolio' = portfolio
      BY <2>1 DEF BookEvent, Process
    <3>2. now + gap \in Nat  BY <2>0, BacktestAssumption
    <3> QED  BY <3>1, <3>2, SettlingKeepsAccount
  <2>2. ASSUME NEW gap \in 0..MaxGap, OtherEvent(gap)  PROVE AccountInv' /\ PaidInv'
    <3>1. orders' = Settled(now + gap) /\ portfolio' = portfolio
      BY <2>2 DEF OtherEvent, Process
    <3>2. now + gap \in Nat  BY <2>0, BacktestAssumption
    <3> QED  BY <3>1, <3>2, SettlingKeepsAccount
  <2>3. ASSUME NEW id \in DOMAIN candidates, Fill(id)  PROVE AccountInv' /\ PaidInv'
    BY <2>0, <2>3, FillKeepsAccount
  <2>4. ASSUME NEW ws \in SUBSET Intents, Quote(ws)  PROVE AccountInv' /\ PaidInv'
    <3>1. /\ orders' \in [Tracked -> GoodOrders]
          /\ \A id \in Tracked : Alike(orders[id], orders'[id])
      BY <2>0, <2>4, QuoteKeeps DEF Inv
    <3>2. portfolio' = portfolio  BY <2>4 DEF Quote
    <3> QED  BY <3>1, <3>2, StatusKeepsAccount DEF Inv
  <2>5. ASSUME NEW i \in wanted, Place(i)  PROVE AccountInv' /\ PaidInv'
    BY <2>0, <2>5, PlaceKeepsAccount
  <2>6. ASSUME FillsDone \/ PlacingDone \/ EndOfRecording  PROVE AccountInv' /\ PaidInv'
    <3>1. orders' = orders /\ portfolio' = portfolio
      BY <2>6 DEF FillsDone, PlacingDone, EndOfRecording
    <3> QED  BY <1>0, <3>1
  <2> QED  BY Zenon, <1>2, <2>1, <2>2, <2>3, <2>4, <2>5, <2>6 DEF Next, Step
<1> QED  BY <1>1, <1>2

LEMMA AccountInvariance == Spec => [](Inv /\ AccountInv /\ PaidInv)
BY InitHolds, AccountStarts, StepKeeps, AccountKeeps, PTL DEF Spec

LEMMA OrdersAreTyped ==
  TypeInv => /\ Tracked \in SUBSET Ids /\ orders \in [Tracked -> GoodOrders]
             /\ \A id \in Tracked : orders[id] \in GoodOrders /\ Filled(id) = Sold(orders[id])
BY TrackedAreIds DEF TypeInv, Filled, Sold

LEMMA HeldIsSummed ==
  TypeInv => SumFunction([id \in {k \in Tracked : IsLive(orders[k]) /\ Buys(orders[k])} |->
                            orders[id].price * orders[id].rem]) = Tot(Held, orders)
<1> SUFFICES ASSUME TypeInv
             PROVE  SumFunction([id \in {k \in Tracked : IsLive(orders[k]) /\ Buys(orders[k])} |->
                                   orders[id].price * orders[id].rem]) = Tot(Held, orders)
  OBVIOUS
<1> DEFINE T == {k \in Tracked : IsLive(orders[k]) /\ Buys(orders[k])}
           f == [id \in T |-> orders[id].price * orders[id].rem]
<1>1. /\ Tracked \in SUBSET Ids /\ orders \in [Tracked -> GoodOrders]
      /\ \A id \in Tracked : orders[id] \in GoodOrders
  BY OrdersAreTyped
<1>2. DOMAIN f = T /\ T \in SUBSET Tracked  OBVIOUS
<1>3. \A id \in T : f[id] = Held[orders[id]]  BY <1>1 DEF Held
<1>4. \A id \in Tracked \ T : Held[orders[id]] = 0  BY <1>1 DEF Held
<1>5. Held \in Valuations  BY ValuationsAreTyped
<1> HIDE DEF f, T
<1>6. SumFunction(f) = Tot(Held, orders)  BY <1>1, <1>2, <1>3, <1>4, <1>5, SumIsTot
<1> QED  BY <1>6 DEF f, T

(* Whatever fills, in whatever pieces, canceled late or not: the balance   *)
(* covers the purchases at rest, because every order is checked against    *)
(* the risk of all that is live, those being canceled included.            *)
THEOREM PurchasesArePaidFor == Spec => []BuysArePaidFor
<1>1. Inv /\ PaidInv => BuysArePaidFor
  BY HeldIsSummed DEF Inv, PaidInv, BuysArePaidFor, GrossCash
<1> QED  BY <1>1, AccountInvariance, PTL

(* A sum over all the orders.                                              *)
LEMMA SumOverAll ==
  ASSUME TypeInv, NEW V \in Valuations, NEW f, DOMAIN f = Tracked,
         \A id \in Tracked : f[id] = V[orders[id]]
  PROVE  SumFunction(f) = Tot(V, orders)
<1>1. Tracked \in SUBSET Ids /\ orders \in [Tracked -> GoodOrders]  BY OrdersAreTyped
<1>2. Tracked \in SUBSET Tracked /\ \A id \in Tracked \ Tracked : V[orders[id]] = 0  OBVIOUS
<1> QED  BY <1>1, <1>2, SumIsTot

LEMMA AccountFollows == Inv /\ AccountInv => FollowsOrders
<1> SUFFICES ASSUME Inv, AccountInv  PROVE FollowsOrders
  OBVIOUS
<1> DEFINE f == [id \in Tracked |-> Direction(orders[id]) * Filled(id)]
           g == [id \in Tracked |-> Direction(orders[id]) * orders[id].price * Filled(id)]
           h == [id \in Tracked |-> Filled(id)]
<1>1. /\ TypeInv
      /\ \A id \in Tracked : orders[id] \in GoodOrders /\ Filled(id) = Sold(orders[id])
  BY OrdersAreTyped DEF Inv
<1>2. /\ \A id \in Tracked : f[id] = Inventory[orders[id]]
      /\ \A id \in Tracked : g[id] = Spent[orders[id]]
      /\ \A id \in Tracked : h[id] = Volume[orders[id]]
  BY <1>1 DEF Inventory, Spent, Volume
<1>3. DOMAIN f = Tracked /\ DOMAIN g = Tracked /\ DOMAIN h = Tracked  OBVIOUS
<1> HIDE DEF f, g, h
<1>4. SumFunction(f) = Tot(Inventory, orders)  BY <1>1, <1>2, <1>3, ValuationsAreTyped, SumOverAll
<1>5. SumFunction(g) = Tot(Spent, orders)  BY <1>1, <1>2, <1>3, ValuationsAreTyped, SumOverAll
<1>6. SumFunction(h) = Tot(Volume, orders)  BY <1>1, <1>2, <1>3, ValuationsAreTyped, SumOverAll
<1> QED  BY <1>4, <1>5, <1>6 DEF AccountInv, FollowsOrders, GrossCash, f, g, h

-----------------------------------------------------------------------------
(* Part 12.  Fees.  A taker's fee grows with the size it is charged for.   *)
LEMMA DivisionGrows ==
  ASSUME NEW a \in Int, NEW b \in Int, NEW d \in Nat \ {0}, a <= b
  PROVE  a \div d <= b \div d
<1> DEFINE q == a \div d
           p == d * q
<1>1. q \in Int /\ a % d \in 0..(d - 1) /\ a = p + (a % d)  BY Division
<1>2. p \in Int  BY <1>1, Distribution
<1> HIDE DEF p
<1>3. p <= a  BY <1>1, <1>2
<1>4. p <= b  BY <1>2, <1>3
<1> HIDE DEF q
<1>5. q <= b \div d  BY <1>1, <1>4, DivisionIsFloor DEF p
<1> QED  BY <1>5 DEF q

LEMMA RoundedUp ==
  ASSUME NEW a \in Int
  PROVE  /\ CeilTo(a, FeeTick) \in Int /\ a <= CeilTo(a, FeeTick)
         /\ CeilTo(a, FeeTick) <= a + FeeTick - 1
         /\ CeilDiv(a, FeeTick) \in Int /\ CeilTo(a, FeeTick) = FeeTick * CeilDiv(a, FeeTick)
<1> DEFINE c == CeilDiv(a, FeeTick)
<1>1. c \in Int /\ a <= FeeTick * c /\ FeeTick * c <= a + FeeTick - 1
  BY FeeAssumption, CeilingCovers
<1>2. CeilTo(a, FeeTick) = c * FeeTick  BY DEF CeilTo
<1> HIDE DEF c
<1>3. c * FeeTick = FeeTick * c /\ FeeTick * c \in Int  BY <1>1, FeeAssumption, Distribution
<1> QED  BY <1>1, <1>2, <1>3 DEF c

LEMMA RoundingGrows ==
  ASSUME NEW a \in Int, NEW b \in Int, a <= b
  PROVE  CeilTo(a, FeeTick) <= CeilTo(b, FeeTick)
<1> DEFINE x == a + FeeTick - 1
           y == b + FeeTick - 1
           c == CeilDiv(a, FeeTick)
           e == CeilDiv(b, FeeTick)
<1>1. x \in Int /\ y \in Int /\ x <= y  BY FeeAssumption
<1>2. x \div FeeTick <= y \div FeeTick
  <2> HIDE DEF x, y
  <2> QED  BY <1>1, FeeAssumption, DivisionGrows
<1>3. c = x \div FeeTick /\ e = y \div FeeTick  BY DEF CeilDiv
<1>4. /\ c \in Int /\ CeilTo(a, FeeTick) = FeeTick * c
      /\ e \in Int /\ CeilTo(b, FeeTick) = FeeTick * e
  BY RoundedUp
<1> HIDE DEF x, y, c, e
<1>5. c <= e  BY <1>2, <1>3
<1>6. FeeTick \in Int /\ FeeTick >= 0  BY FeeAssumption
<1>7. FeeTick * c <= FeeTick * e  BY <1>4, <1>5, <1>6, ProductsGrow
<1> QED  BY <1>4, <1>7

Rate(price) == TradingFeeBps * price * (OneDollar - price)
Scale == FeeBpsScale * OneDollar

LEMMA FormulaIsRate ==
  ASSUME NEW price \in Prices, NEW n \in Nat
  PROVE  /\ Rate(price) \in Nat /\ Scale \in Nat \ {0} /\ Rate(price) * n \in Nat
         /\ Formula(price, n) = (Rate(price) * n) \div Scale /\ Formula(price, n) \in Nat
<1>1. /\ price \in Nat /\ OneDollar - price \in Nat /\ TradingFeeBps \in Nat
      /\ FeeBpsScale \in Nat \ {0} /\ OneDollar \in Nat \ {0}
  BY FeeAssumption DEF Prices
<1>2. Scale \in Nat \ {0}  BY <1>1 DEF Scale
<1>3. Rate(price) \in Nat
  <2> DEFINE a == TradingFeeBps * price
             rest == OneDollar - price
  <2>1. a \in Nat  BY <1>1, SignOfProduct, Distribution
  <2> HIDE DEF a
  <2>2. a * rest \in Nat  BY <1>1, <2>1, SignOfProduct, Distribution
  <2> QED  BY <2>2 DEF Rate, a
<1>4. TradingFeeBps * n * price * (OneDollar - price) = Rate(price) * n
  <2> DEFINE rest == OneDollar - price
  <2>1. \A t, p, r, m \in Int : t * m * p * r = t * p * r * m  OBVIOUS
  <2>2. TradingFeeBps \in Int /\ price \in Int /\ rest \in Int /\ n \in Int  BY <1>1
  <2> HIDE DEF rest
  <2>3. TradingFeeBps * n * price * rest = TradingFeeBps * price * rest * n  BY <2>1, <2>2
  <2> QED  BY <2>3 DEF Rate, rest
<1>5. Rate(price) * n \in Nat  BY <1>3, SignOfProduct, Distribution
<1>6. Formula(price, n) = (Rate(price) * n) \div Scale  BY <1>4 DEF Formula, Scale
<1> DEFINE x == Rate(price) * n
<1>7. x \in Nat  BY <1>5
<1> HIDE DEF x
<1>8. x \div Scale \in Nat  BY <1>2, <1>7
<1> QED  BY <1>2, <1>3, <1>5, <1>6, <1>8 DEF x

LEMMA FormulaGrows ==
  ASSUME NEW price \in Prices, NEW n \in Nat, NEW k \in Nat, n <= k
  PROVE  Formula(price, n) <= Formula(price, k)
<1> DEFINE r == Rate(price)
           x == r * n
           y == r * k
<1>1. /\ r \in Nat /\ Scale \in Nat \ {0} /\ x \in Nat /\ y \in Nat
      /\ Formula(price, n) = x \div Scale /\ Formula(price, k) = y \div Scale
  BY FormulaIsRate
<1> HIDE DEF r
<1>2. x <= y  BY <1>1, ProductsGrow
<1> HIDE DEF x, y
<1>3. x \div Scale <= y \div Scale  BY <1>1, <1>2, DivisionGrows
<1> QED  BY <1>1, <1>3

TakerFees(price, n) == FeeMicros(price, n, TRUE)
MakerFees(price, n) == FeeMicros(price, n, FALSE)

LEMMA FeesAreTyped ==
  ASSUME NEW price \in Prices, NEW n \in Nat
  PROVE  TakerFees(price, n) \in Nat /\ MakerFees(price, n) \in Nat
<1>1. n \in Int  OBVIOUS
<1>2. FeeMicros(price, n, TRUE) \in Nat  BY Zenon, <1>1, FeeIsTyped
<1>3. FeeMicros(price, n, FALSE) \in Nat  BY Zenon, <1>1, FeeIsTyped
<1> QED  BY Zenon, <1>2, <1>3 DEF TakerFees, MakerFees

LEMMA TakerFeeIs ==
  ASSUME NEW price \in Prices, NEW n \in Nat
  PROVE  TakerFees(price, n) = IF n = 0 THEN 0 ELSE CeilTo(Formula(price, n), FeeTick)
BY DEF FeeMicros, TakerFees

LEMMA TakerFeeGrows ==
  ASSUME NEW price \in Prices, NEW n \in Nat, NEW k \in Nat, n <= k
  PROVE  TakerFees(price, n) <= TakerFees(price, k)
<1>1. CASE n = 0
  <2>1. TakerFees(price, n) = 0  BY <1>1, TakerFeeIs
  <2>2. TakerFees(price, k) \in Nat  BY FeesAreTyped
  <2> QED  BY <2>1, <2>2
<1>2. CASE n # 0
  <2>1. k # 0  BY <1>2
  <2>2. Formula(price, n) <= Formula(price, k)  BY FormulaGrows
  <2>3. Formula(price, n) \in Int /\ Formula(price, k) \in Int  BY FormulaIsRate
  <2>4. CeilTo(Formula(price, n), FeeTick) <= CeilTo(Formula(price, k), FeeTick)
    BY <2>2, <2>3, RoundingGrows
  <2> QED  BY <1>2, <2>1, <2>4, TakerFeeIs
<1> QED  BY <1>1, <1>2

(* What the fee schedule has to satisfy: a piece that rests is charged no  *)
(* more than one that takes.                                               *)
MakersPayNoMore ==
  \A price \in Grid, n, k \in Nat :
    FeeMicros(price, n + k, FALSE) - FeeMicros(price, n, FALSE)
      <= FeeMicros(price, n + k, TRUE) - FeeMicros(price, n, TRUE)

(* It does whenever makers pay the taker's rate or nothing, as in the      *)
(* schedule the code defaults to.                                          *)
LEMMA UsualMakersPayNoMore == ChargeMakers \/ MakerFee = 0 => MakersPayNoMore
<1> SUFFICES ASSUME ChargeMakers \/ MakerFee = 0, NEW price \in Grid, NEW n \in Nat, NEW k \in Nat
             PROVE  MakerFees(price, n + k) - MakerFees(price, n)
                      <= TakerFees(price, n + k) - TakerFees(price, n)
  BY Zenon DEF MakersPayNoMore, TakerFees, MakerFees
<1>0. price \in Prices /\ n + k \in Nat /\ n <= n + k  BY GridAssumption
<1>1. /\ TakerFees(price, n + k) \in Nat /\ TakerFees(price, n) \in Nat
      /\ TakerFees(price, n) <= TakerFees(price, n + k)
  BY <1>0, FeesAreTyped, TakerFeeGrows
<1>2. CASE ChargeMakers
  <2>1. /\ MakerFees(price, n + k) = TakerFees(price, n + k)
        /\ MakerFees(price, n) = TakerFees(price, n)
    BY Zenon, <1>2 DEF FeeMicros, TakerFees, MakerFees
  <2> QED  BY <1>1, <2>1
<1>3. CASE ~ChargeMakers /\ MakerFee = 0
  <2>1. ASSUME NEW m \in Nat  PROVE MakerFees(price, m) = 0
    <3>1. CASE m = 0  BY <3>1 DEF FeeMicros, MakerFees
    <3>2. CASE m # 0
      <4>1. (MakerFee * m) \div CountScale = 0
        <5>1. MakerFee * m = 0  BY <1>3
        <5>2. 0 \div CountScale = 0  BY FeeAssumption
        <5> QED  BY <5>1, <5>2
      <4>2. MakerFees(price, m) = CeilTo(0, FeeTick)  BY <1>3, <3>2, <4>1 DEF FeeMicros, MakerFees
      <4>3. CeilTo(0, FeeTick) = 0
        <5>1. (0 + FeeTick - 1) \div FeeTick = 0  BY FeeAssumption
        <5> QED  BY <5>1, FeeAssumption DEF CeilTo, CeilDiv
      <4> QED  BY <4>2, <4>3
    <3> QED  BY <3>1, <3>2
  <2> QED  BY <1>0, <1>1, <2>1
<1> QED  BY <1>2, <1>3

LEMMA PieceIsCovered ==
  ASSUME MakersPayNoMore, NEW price \in Grid, NEW n \in Nat, NEW k \in Nat, NEW taker
  PROVE  IncrementalFee(n, price, k, taker)
           <= TakerFees(price, n + k) - TakerFees(price, n)
<1>0. price \in Prices /\ n + k \in Nat /\ n <= n + k  BY GridAssumption
<1>1. /\ TakerFees(price, n + k) \in Nat /\ TakerFees(price, n) \in Nat
      /\ TakerFees(price, n) <= TakerFees(price, n + k)
  BY <1>0, FeesAreTyped, TakerFeeGrows
<1>2. /\ MakerFees(price, n + k) \in Nat /\ MakerFees(price, n) \in Nat
      /\ MakerFees(price, n + k) - MakerFees(price, n)
           <= TakerFees(price, n + k) - TakerFees(price, n)
  <2>1. \A m, j \in Nat :
          MakerFees(price, m + j) - MakerFees(price, m) <= TakerFees(price, m + j) - TakerFees(price, m)
    BY Zenon DEF MakersPayNoMore, TakerFees, MakerFees
  <2> QED  BY <1>0, <2>1, FeesAreTyped
<1>3. CASE taker
  <2>1. /\ FeeMicros(price, n + k, taker) = TakerFees(price, n + k)
        /\ FeeMicros(price, n, taker) = TakerFees(price, n)
    BY Zenon, <1>3 DEF FeeMicros, TakerFees
  <2> QED  BY <1>1, <2>1 DEF IncrementalFee
<1>4. CASE ~taker
  <2>1. /\ FeeMicros(price, n + k, taker) = MakerFees(price, n + k)
        /\ FeeMicros(price, n, taker) = MakerFees(price, n)
    BY Zenon, <1>4 DEF FeeMicros, MakerFees
  <2> QED  BY <1>1, <1>2, <2>1 DEF IncrementalFee
<1> QED  BY <1>3, <1>4

(* What every order would be charged as one order that took liquidity.     *)
Charged == [o \in GoodOrders |-> TakerFees(o.price, Sold(o))]

FeesInv == portfolio.fees <= Tot(Charged, orders)

LEMMA ChargedIsTyped ==
  /\ Charged \in Valuations
  /\ \A o \in GoodOrders : /\ o.price \in Prices /\ o.price \in Grid /\ Sold(o) \in Nat
                           /\ Charged[o] = TakerFees(o.price, Sold(o))
<1>1. \A o \in GoodOrders : o.price \in Prices /\ o.price \in Grid /\ Sold(o) \in Nat
  BY GoodFields, ValuesAreNumbers, GridAssumption
<1>2. \A o \in GoodOrders : TakerFees(o.price, Sold(o)) \in Int  BY <1>1, FeesAreTyped
<1> QED  BY <1>1, <1>2 DEF Charged, Valuations

LEMMA FeesStart == Init => FeesInv
<1> SUFFICES ASSUME Init  PROVE FeesInv
  OBVIOUS
<1>1. DOMAIN orders = {} /\ portfolio.fees = 0  BY DEF Init, EmptyPortfolio
<1>2. Tot(Charged, orders) = 0  BY <1>1, ChargedIsTyped, TotOfNone
<1> QED  BY <1>1, <1>2 DEF FeesInv

LEMMA StatusKeepsFees ==
  ASSUME TypeInv, FeesInv, orders' \in [Tracked -> GoodOrders],
         \A id \in Tracked : Alike(orders[id], orders'[id]), portfolio' = portfolio
  PROVE  FeesInv'
<1>1. Tracked \in SUBSET Ids /\ orders \in [Tracked -> GoodOrders]  BY OrdersAreTyped
<1>2. \A id \in Tracked : Charged[orders'[id]] = Charged[orders[id]]
  <2> SUFFICES ASSUME NEW id \in Tracked  PROVE Charged[orders'[id]] = Charged[orders[id]]
    OBVIOUS
  <2>1. orders'[id].price = orders[id].price /\ Sold(orders'[id]) = Sold(orders[id])
    BY DEF Alike, Sold
  <2>2. orders'[id] \in GoodOrders /\ orders[id] \in GoodOrders  BY <1>1
  <2> QED  BY <2>1, <2>2, ChargedIsTyped
<1>3. Tot(Charged, orders') = Tot(Charged, orders)
  BY <1>1, <1>2, ChargedIsTyped, TotIsSame
<1> QED  BY <1>3 DEF FeesInv

LEMMA SettlingKeepsFees ==
  ASSUME Inv, FeesInv, NEW time \in Nat, orders' = Settled(time), portfolio' = portfolio
  PROVE  FeesInv'
<1>1. /\ Settled(time) \in [1..(nextId - 1) -> GoodOrders] /\ Tracked = 1..(nextId - 1)
      /\ \A id \in Tracked : Settled(time)[id] = Settle(orders[id], time)
  BY SettledIsGood DEF Inv
<1>2. \A id \in Tracked : orders[id] \in GoodOrders  BY TrackedAreIds DEF Inv
<1>3. \A id \in Tracked : Alike(orders[id], orders'[id])  BY <1>1, <1>2, SettleIsGood
<1>4. orders' \in [Tracked -> GoodOrders]  BY <1>1
<1> QED  BY <1>3, <1>4, StatusKeepsFees DEF Inv

LEMMA FillKeepsFees ==
  ASSUME MakersPayNoMore, Inv, AccountInv, FeesInv, NEW id \in DOMAIN candidates, Fill(id)
  PROVE  FeesInv'
<1> DEFINE o == orders[id]
           n == Least(candidates[id], o.rem)
           s == Traded(o, n)
           t == Sold(o)
           taker == IsMarketable(o, book, model = "pessimistic")
           fee == IncrementalFee(portfolio.filled[id], o.price, n, taker)
<1>1. /\ Tracked \in SUBSET Ids /\ orders \in [Tracked -> GoodOrders]
      /\ \A k \in Tracked : orders[k] \in GoodOrders /\ Filled(k) = Sold(orders[k])
  BY OrdersAreTyped DEF Inv
<1>2. id \in Tracked /\ o \in GoodOrders /\ candidates[id] \in Nat \ {0} /\ IsFillable(o)
  BY <1>1 DEF Inv, CandidatesInv
<1>3. n \in Nat \ {0} /\ n <= o.rem
  <2>1. o.rem \in Nat  BY <1>2, GoodFields
  <2>2. o.rem > 0  BY <1>2 DEF IsFillable
  <2> QED  BY <1>2, <2>1, <2>2 DEF Least
<1>4. orders' = [orders EXCEPT ![id] = s] /\ portfolio' = ApplyFill(portfolio, id, o, n, taker)
  BY DEF Fill
<1> HIDE DEF n
<1>5. s \in GoodOrders /\ s.price = o.price /\ Sold(s) = t + n
  BY <1>2, <1>3, FillIsWorth
<1>6. portfolio'.fees = portfolio.fees + fee /\ portfolio.filled[id] = t
  BY <1>1, <1>2, <1>4 DEF ApplyFill, AccountInv, Accounts
<1> HIDE DEF s, taker
<1>7. orders' \in [Tracked -> GoodOrders] /\ orders'[id] = s
      /\ \A k \in Tracked : k # id => orders'[k] = orders[k]
  BY <1>1, <1>2, <1>4, <1>5
<1>8. fee <= TakerFees(o.price, t + n) - TakerFees(o.price, t)
  <2>1. o.price \in Grid /\ t \in Nat /\ n \in Nat  BY <1>2, <1>3, ChargedIsTyped
  <2>2. IncrementalFee(t, o.price, n, taker) <= TakerFees(o.price, t + n) - TakerFees(o.price, t)
    BY <2>1, PieceIsCovered
  <2> QED  BY <1>6, <2>2
<1>9. Tot(Charged, orders') = Tot(Charged, orders) + Charged[s] - Charged[o]
  BY <1>1, <1>2, <1>7, ChargedIsTyped, TotChanges
<1>10. Charged[s] = TakerFees(o.price, t + n) /\ Charged[o] = TakerFees(o.price, t)
  BY <1>2, <1>5, ChargedIsTyped
<1>11. /\ Tot(Charged, orders) \in Int /\ portfolio.fees \in Int
       /\ TakerFees(o.price, t + n) \in Int /\ TakerFees(o.price, t) \in Int
  <2>1. Tot(Charged, orders) \in Int  BY <1>1, ChargedIsTyped, OverIsTyped
  <2>2. portfolio.fees \in Int  BY DEF AccountInv, Accounts
  <2>3. o.price \in Prices /\ t \in Nat /\ t + n \in Nat  BY <1>2, <1>3, ChargedIsTyped
  <2> QED  BY <2>1, <2>2, <2>3, FeesAreTyped
<1>12. fee \in Int
  <2>1. o.price \in Prices /\ t \in Int /\ t + n \in Int  BY <1>2, <1>3, ChargedIsTyped
  <2>2. FeeMicros(o.price, t + n, taker) \in Nat /\ FeeMicros(o.price, t, taker) \in Nat
    BY <2>1, FeeIsTyped
  <2> QED  BY <1>6, <2>2 DEF IncrementalFee
<1> HIDE DEF fee, t, o
<1>13. portfolio.fees <= Tot(Charged, orders)  BY DEF FeesInv
<1>14. portfolio'.fees <= Tot(Charged, orders')
  BY <1>6, <1>8, <1>9, <1>10, <1>11, <1>12, <1>13
<1> QED  BY <1>14 DEF FeesInv

LEMMA PlaceKeepsFees ==
  ASSUME Inv, AccountInv, FeesInv, NEW i \in wanted, Place(i), model' = model
  PROVE  FeesInv'
<1>1. (Send(i) \/ LeaveOut(i)) /\ portfolio' = portfolio  BY DEF Place
<1>2. CASE LeaveOut(i)
  <2>1. orders' = orders  BY <1>2 DEF LeaveOut
  <2> QED  BY <1>1, <2>1 DEF FeesInv
<1>3. CASE Send(i)
  <2> DEFINE o == PlacedOrder(i)
  <2>1. orders' = [id \in Tracked \cup {nextId} |-> IF id = nextId THEN o ELSE orders[id]]
        /\ nextId' = nextId + 1
    BY <1>3 DEF Send, PlacedOrder
  <2>2. i \in Intents /\ now \in Nat /\ i.count \in Nat
    BY BacktestAssumption DEF Inv, TypeInv
  <2>3. o \in GoodOrders /\ o.count = i.count /\ o.rem = i.count
    BY <2>2, PlacedIsGood
  <2> HIDE DEF o
  <2>4. /\ Tracked = 1..(nextId - 1) /\ Tracked \in SUBSET Ids
        /\ orders \in [Tracked -> GoodOrders] /\ nextId \in Nat
    BY TrackedAreIds DEF Inv, TypeInv
  <2>5. nextId \in Ids /\ nextId \notin Tracked
    <3>1. TypeInv'  BY PlaceKeeps DEF Inv
    <3>2. nextId' \in 1..(MaxOrders + 1)  BY <3>1 DEF TypeInv
    <3>3. nextId \in 1..(MaxOrders + 1)  BY DEF Inv, TypeInv
    <3> QED  BY <2>1, <2>4, <3>2, <3>3, BacktestAssumption DEF Ids
  <2>6. /\ orders' \in [Tracked \cup {nextId} -> GoodOrders] /\ orders'[nextId] = o
        /\ \A k \in Tracked : orders'[k] = orders[k]
    BY <2>1, <2>3, <2>4, <2>5
  <2>7. Tot(Charged, orders') = Tot(Charged, orders) + Charged[orders'[nextId]]
    <3>1. \A V \in Valuations : \A os, ps :
            /\ os \in [Tracked -> GoodOrders]
            /\ ps \in [Tracked \cup {nextId} -> GoodOrders]
            /\ \A id \in Tracked : ps[id] = os[id]
            => Tot(V, ps) = Tot(V, os) + V[ps[nextId]]
      <4>1. Tracked \in SUBSET Ids /\ nextId \in Ids /\ nextId \notin Tracked
        BY <2>4, <2>5
      <4> QED  BY <4>1, TotAdds
    <3>2. Charged \in Valuations  BY ChargedIsTyped
    <3> QED  BY Zenon, <2>4, <2>6, <3>1, <3>2
  <2>8. Charged[o] \in Int /\ Charged[o] >= 0
    <3>1. o.price \in Prices /\ Sold(o) \in Nat /\ Charged[o] = TakerFees(o.price, Sold(o))
      BY <2>3, ChargedIsTyped
    <3> QED  BY <3>1, FeesAreTyped
  <2>9. Tot(Charged, orders) \in Int  BY <2>4, ChargedIsTyped, OverIsTyped
  <2>10. portfolio.fees \in Int  BY DEF AccountInv, Accounts
  <2>11. portfolio.fees <= Tot(Charged, orders)  BY DEF FeesInv
  <2>12. portfolio.fees <= Tot(Charged, orders')
    BY <2>6, <2>7, <2>8, <2>9, <2>10, <2>11
  <2> QED  BY <1>1, <2>12 DEF FeesInv
<1> QED  BY <1>1, <1>2, <1>3

LEMMA FeesKeep ==
  ASSUME MakersPayNoMore, Inv, AccountInv, FeesInv, [Next]_vars
  PROVE  FeesInv'
<1>0. ASSUME orders' = orders, portfolio' = portfolio  PROVE FeesInv'
  BY <1>0 DEF FeesInv
<1>1. CASE UNCHANGED vars
  <2>1. orders' = orders /\ portfolio' = portfolio  BY <1>1 DEF vars
  <2> QED  BY <1>0, <2>1
<1>2. CASE Next
  <2>0. model' = model /\ now \in Nat  BY <1>2 DEF Next, Inv, TypeInv
  <2>1. ASSUME NEW gap \in 0..MaxGap, NEW side \in {"bid", "ask"}, NEW price \in Grid,
               NEW change \in (-MaxSize)..MaxSize, BookEvent(side, price, change, gap)
        PROVE  FeesInv'
    <3>1. orders' = Settled(now + gap) /\ portfolio' = portfolio
      BY <2>1 DEF BookEvent, Process
    <3>2. now + gap \in Nat  BY <2>0, BacktestAssumption
    <3> QED  BY <3>1, <3>2, SettlingKeepsFees
  <2>2. ASSUME NEW gap \in 0..MaxGap, OtherEvent(gap)  PROVE FeesInv'
    <3>1. orders' = Settled(now + gap) /\ portfolio' = portfolio
      BY <2>2 DEF OtherEvent, Process
    <3>2. now + gap \in Nat  BY <2>0, BacktestAssumption
    <3> QED  BY <3>1, <3>2, SettlingKeepsFees
  <2>3. ASSUME NEW id \in DOMAIN candidates, Fill(id)  PROVE FeesInv'
    BY <2>3, FillKeepsFees
  <2>4. ASSUME NEW ws \in SUBSET Intents, Quote(ws)  PROVE FeesInv'
    <3>1. /\ orders' \in [Tracked -> GoodOrders]
          /\ \A id \in Tracked : Alike(orders[id], orders'[id])
      BY <2>0, <2>4, QuoteKeeps DEF Inv
    <3>2. portfolio' = portfolio  BY <2>4 DEF Quote
    <3> QED  BY <3>1, <3>2, StatusKeepsFees DEF Inv
  <2>5. ASSUME NEW i \in wanted, Place(i)  PROVE FeesInv'
    BY <2>0, <2>5, PlaceKeepsFees
  <2>6. ASSUME FillsDone \/ PlacingDone \/ EndOfRecording  PROVE FeesInv'
    <3>1. orders' = orders /\ portfolio' = portfolio
      BY <2>6 DEF FillsDone, PlacingDone, EndOfRecording
    <3> QED  BY <1>0, <3>1
  <2> QED  BY Zenon, <1>2, <2>1, <2>2, <2>3, <2>4, <2>5, <2>6 DEF Next, Step
<1> QED  BY <1>1, <1>2

LEMMA FeesAreSummed ==
  ASSUME Inv, FeesInv
  PROVE  FeesRoundedOnce
<1> DEFINE f == [id \in Tracked |-> FeeMicros(orders[id].price, Filled(id), TRUE)]
<1>1. TypeInv /\ \A id \in Tracked : orders[id] \in GoodOrders /\ Filled(id) = Sold(orders[id])
  BY OrdersAreTyped DEF Inv
<1>2. f = [id \in Tracked |-> TakerFees(orders[id].price, Filled(id))]
  BY Zenon DEF TakerFees
<1>3. \A id \in Tracked : f[id] = Charged[orders[id]]
  <2> HIDE DEF f
  <2> QED  BY <1>1, <1>2, ChargedIsTyped
<1>4. DOMAIN f = Tracked  OBVIOUS
<1> HIDE DEF f
<1>5. SumFunction(f) = Tot(Charged, orders)  BY <1>1, <1>3, <1>4, ChargedIsTyped, SumOverAll
<1>6. portfolio.fees <= SumFunction(f)  BY <1>5 DEF FeesInv
<1> QED  BY Zenon, <1>6 DEF FeesRoundedOnce, f

-----------------------------------------------------------------------------
(* Part 13.  Leaving a position.  What is taken level by level, best price *)
(* first, is never more than the position.                                 *)
LEMMA Telescope ==
  ASSUME NEW n \in Nat, NEW h \in [0..n -> Int], NEW e \in [0..(n + 1) -> Int],
         \A i \in 0..n : h[i] = e[i + 1] - e[i]
  PROVE  Total(h, n) = e[n + 1] - e[0]
<1>1. PICK g \in [0..n -> Int] : IsRun(h, g, n) /\ Total(h, n) = g[n]  BY TotalIsRun
<1> DEFINE S == {i \in 0..n : g[i] = e[i + 1] - e[0]}
<1>2. 0 \in S  BY <1>1 DEF IsRun
<1>3. ASSUME NEW i \in 1..n, i - 1 \in S  PROVE i \in S
  <2>1. g[i] = g[i - 1] + h[i]  BY <1>1 DEF IsRun
  <2>2. i \in 0..n /\ i \in 0..(n + 1) /\ i + 1 \in 0..(n + 1) /\ 0 \in 0..(n + 1) /\ (i - 1) + 1 = i
    OBVIOUS
  <2>3. g[i - 1] = e[i] - e[0]  BY <1>3, <2>2
  <2>4. h[i] = e[i + 1] - e[i]  BY <2>2
  <2>5. e[i] \in Int /\ e[i + 1] \in Int /\ e[0] \in Int  BY <2>2
  <2> QED  BY <2>1, <2>2, <2>3, <2>4, <2>5
<1> HIDE DEF S
<1>4. n \in S
  <2>1. \A i \in 0..n : i \in S  BY <1>2, <1>3, Climb
  <2> QED  BY <2>1
<1> QED  BY <1>1, <1>4 DEF S

(* The size before a price, and from it on.                                *)
Below(side, p)  == Total(Masked(side, {r \in Prices : r < p}, OneDollar), OneDollar)
From(side, p)   == Total(Masked(side, {r \in Prices : r >= p}, OneDollar), OneDollar)

LEMMA SizesAreNat ==
  ASSUME NEW side \in Levels, NEW S \in SUBSET Prices
  PROVE  Total(Masked(side, S, OneDollar), OneDollar) \in Nat
<1> DEFINE h == Masked(side, S, OneDollar)
           z == [i \in 0..OneDollar |-> 0]
<1>0. OneDollar \in Nat /\ MaxSize \in Nat  BY GridAssumption
<1>1. \A r \in Prices : side[r] \in Nat  BY <1>0 DEF Levels
<1>2. h \in [0..OneDollar -> Int] /\ \A i \in 0..OneDollar : h[i] >= 0  BY <1>1 DEF Masked
<1>3. z \in [0..OneDollar -> Int] /\ \A i \in 0..OneDollar : z[i] = 0 /\ z[i] <= h[i]
  BY <1>2
<1> HIDE DEF h, z
<1>4. Total(h, OneDollar) \in Int  BY <1>0, <1>2, TotalIsInt
<1>5. Total(z, OneDollar) = 0  BY <1>0, <1>3, TotalOfZeros
<1>6. Total(z, OneDollar) <= Total(h, OneDollar)  BY <1>0, <1>2, <1>3, TotalGrows
<1> QED  BY <1>4, <1>5, <1>6 DEF h

LEMMA SizesOfNone ==
  ASSUME NEW side
  PROVE  Total(Masked(side, {}, OneDollar), OneDollar) = 0
<1> DEFINE h == Masked(side, {}, OneDollar)
<1>1. h \in [0..OneDollar -> Int] /\ \A i \in 0..OneDollar : h[i] = 0  BY DEF Masked
<1> HIDE DEF h
<1> QED  BY <1>1, GridAssumption, TotalOfZeros DEF h

LEMMA BelowAndFrom ==
  ASSUME NEW side \in Levels
  PROVE  /\ \A p \in 0..(OneDollar + 1) : Below(side, p) \in Nat /\ From(side, p) \in Nat
         /\ Below(side, 0) = 0 /\ From(side, OneDollar + 1) = 0
         /\ \A p \in Prices : /\ side[p] \in Nat
                              /\ Below(side, p + 1) = side[p] + Below(side, p)
                              /\ From(side, p) = side[p] + From(side, p + 1)
<1>0. OneDollar \in Nat /\ MaxSize \in Nat /\ Prices = 0..OneDollar
  BY GridAssumption DEF Prices
<1>1. \A p \in 0..(OneDollar + 1) : Below(side, p) \in Nat /\ From(side, p) \in Nat
  BY SizesAreNat DEF Below, From
<1>2. Below(side, 0) = 0 /\ From(side, OneDollar + 1) = 0
  <2>1. {r \in Prices : r < 0} = {} /\ {r \in Prices : r >= OneDollar + 1} = {}  BY <1>0
  <2> QED  BY <2>1, SizesOfNone DEF Below, From
<1>3. ASSUME NEW p \in Prices
      PROVE  /\ side[p] \in Nat /\ Below(side, p + 1) = side[p] + Below(side, p)
             /\ From(side, p) = side[p] + From(side, p + 1)
  <2>1. \A r \in Prices : side[r] \in Nat  BY <1>0 DEF Levels
  <2> DEFINE lower == {r \in Prices : r < p + 1}
             upper == {r \in Prices : r >= p}
  <2>2. p \in lower /\ lower \in SUBSET (0..OneDollar) /\ p \in upper /\ upper \in SUBSET (0..OneDollar)
        /\ (\A r \in lower : side[r] \in Int) /\ \A r \in upper : side[r] \in Int
    BY <1>0, <2>1
  <2>3. lower \ {p} = {r \in Prices : r < p} /\ upper \ {p} = {r \in Prices : r >= p + 1}
    BY <1>0
  <2> HIDE DEF lower, upper
  <2>4. Total(Masked(side, lower, OneDollar), OneDollar)
          = side[p] + Total(Masked(side, lower \ {p}, OneDollar), OneDollar)
    BY <1>0, <2>2, TotalWithout
  <2>5. Total(Masked(side, upper, OneDollar), OneDollar)
          = side[p] + Total(Masked(side, upper \ {p}, OneDollar), OneDollar)
    BY <1>0, <2>2, TotalWithout
  <2> QED  BY <2>1, <2>3, <2>4, <2>5 DEF Below, From, lower, upper
<1> QED  BY <1>1, <1>2, <1>3

(* The levels that are unwound against.                                    *)
Against(b, position) == IF position > 0 THEN b.bids ELSE b.asks

LEMMA TakenIs ==
  ASSUME NEW b \in BookSet, NEW position \in Int, NEW p \in Prices
  PROVE  LET side == Against(b, position)
             left == Abs(position) - IF position > 0 THEN From(side, p + 1) ELSE Below(side, p)
         IN  TakenAt(b, position, p) = IF left <= 0 THEN 0 ELSE Least(side[p], left)
<1> DEFINE side == Against(b, position)
           better == {r \in DOMAIN side : IF position > 0 THEN r > p ELSE r < p}
           size == SumFunctionOnSet(side, better)
           left == Abs(position) - IF position > 0 THEN From(side, p + 1) ELSE Below(side, p)
<1>0. OneDollar \in Nat /\ MaxSize \in Nat /\ Prices = 0..OneDollar
  BY GridAssumption DEF Prices
<1>1. side \in Levels  BY DEF Against, BookSet
<1>2. DOMAIN side = Prices /\ \A r \in Prices : side[r] \in Nat  BY <1>0, <1>1 DEF Levels
<1>3. TakenAt(b, position, p) = IF Abs(position) - size <= 0 THEN 0
                                ELSE Least(side[p], Abs(position) - size)
  BY DEF TakenAt, Against
<1> HIDE DEF side
<1>4. better \in SUBSET (0..OneDollar) /\ \A r \in better : side[r] \in Int  BY <1>0, <1>2
<1>5. better = IF position > 0 THEN {r \in Prices : r >= p + 1} ELSE {r \in Prices : r < p}
  BY <1>0, <1>2
<1> HIDE DEF better
<1>6. size = Total(Masked(side, better, OneDollar), OneDollar)  BY <1>0, <1>4, SumIsTotal
<1> HIDE DEF size
<1>7. size = IF position > 0 THEN From(side, p + 1) ELSE Below(side, p)
  BY <1>5, <1>6 DEF From, Below
<1> HIDE DEF left
<1>8. left = Abs(position) - size  BY <1>7 DEF left
<1>9. TakenAt(b, position, p) = IF left <= 0 THEN 0 ELSE Least(side[p], left)  BY <1>3, <1>8
<1> QED  BY <1>9 DEF side, left

Taken(b, position) == [r \in Prices |-> TakenAt(b, position, r)]

LEMMA TakenIsPart ==
  ASSUME NEW b \in BookSet, NEW position \in Int
  PROVE  /\ Taken(b, position) \in [0..OneDollar -> Int]
         /\ \A r \in 0..OneDollar :
              /\ Taken(b, position)[r] >= 0
              /\ Taken(b, position)[r] > 0 => Against(b, position)[r] > 0
         /\ Total(Taken(b, position), OneDollar) \in Nat
         /\ Total(Taken(b, position), OneDollar) <= Abs(position)
<1> DEFINE side == Against(b, position)
           taken == Taken(b, position)
           whole == Abs(position)
<1>0. OneDollar \in Nat /\ Prices = 0..OneDollar  BY GridAssumption DEF Prices
<1>1. side \in Levels  BY DEF Against, BookSet
<1>2. whole \in Nat  BY DEF Abs
<1> HIDE DEF side, whole
<1>3. /\ \A p \in 0..(OneDollar + 1) : Below(side, p) \in Nat /\ From(side, p) \in Nat
      /\ Below(side, 0) = 0 /\ From(side, OneDollar + 1) = 0
      /\ \A p \in Prices : /\ side[p] \in Nat
                           /\ Below(side, p + 1) = side[p] + Below(side, p)
                           /\ From(side, p) = side[p] + From(side, p + 1)
  BY <1>1, BelowAndFrom
<1> DEFINE e == [i \in 0..(OneDollar + 1) |-> IF position > 0 THEN -Least(whole, From(side, i))
                                              ELSE Least(whole, Below(side, i))]
<1>4. ASSUME NEW r \in Prices
      PROVE  /\ taken[r] \in Nat /\ (taken[r] > 0 => side[r] > 0)
             /\ taken[r] = e[r + 1] - e[r]
  <2>1. r \in 0..(OneDollar + 1) /\ r + 1 \in 0..(OneDollar + 1)  BY <1>0
  <2>2. taken[r] = TakenAt(b, position, r)  BY DEF Taken
  <2> DEFINE past == IF position > 0 THEN From(side, r + 1) ELSE Below(side, r)
             left == whole - past
  <2>3. taken[r] = IF left <= 0 THEN 0 ELSE Least(side[r], left)
    BY <2>2, TakenIs DEF side, whole
  <2> HIDE DEF taken
  <2>4. past \in Nat /\ side[r] \in Nat  BY <1>3, <2>1
  <2>5. e[r + 1] - e[r] = Least(whole, past + side[r]) - Least(whole, past)
    <3>1. CASE position > 0
      <4>1. e[r + 1] = -Least(whole, past) /\ e[r] = -Least(whole, From(side, r))
        BY <2>1, <3>1
      <4>2. From(side, r) = past + side[r]  BY <1>3, <2>4, <3>1
      <4>3. Least(whole, past) \in Int /\ Least(whole, past + side[r]) \in Int
        BY <1>2, <2>4 DEF Least
      <4> HIDE DEF e, past
      <4> QED  BY <4>1, <4>2, <4>3
    <3>2. CASE ~(position > 0)
      <4>1. e[r + 1] = Least(whole, Below(side, r + 1)) /\ e[r] = Least(whole, past)
        BY <2>1, <3>2
      <4>2. Below(side, r + 1) = past + side[r]  BY <1>3, <2>4, <3>2
      <4> HIDE DEF e, past
      <4> QED  BY <4>1, <4>2
    <3> QED  BY <3>1, <3>2
  <2> HIDE DEF e, past
  <2> QED  BY <1>2, <2>3, <2>4, <2>5 DEF Least
<1>5. e \in [0..(OneDollar + 1) -> Int]
  <2>1. \A i \in 0..(OneDollar + 1) : /\ Least(whole, From(side, i)) \in Int
                                      /\ Least(whole, Below(side, i)) \in Int
    BY <1>2, <1>3 DEF Least
  <2> QED  BY <2>1
<1>6. e[OneDollar + 1] - e[0] \in Int /\ e[OneDollar + 1] - e[0] <= whole
  <2>1. 0 \in 0..(OneDollar + 1) /\ OneDollar + 1 \in 0..(OneDollar + 1)  BY <1>0
  <2>2. From(side, 0) \in Nat /\ Below(side, OneDollar + 1) \in Nat  BY <1>3, <2>1
  <2>3. CASE position > 0
    <3>1. e[OneDollar + 1] = -Least(whole, 0) /\ e[0] = -Least(whole, From(side, 0))
      BY <1>3, <2>1, <2>3
    <3> HIDE DEF e
    <3> QED  BY <1>2, <2>2, <3>1 DEF Least
  <2>4. CASE ~(position > 0)
    <3>1. e[OneDollar + 1] = Least(whole, Below(side, OneDollar + 1)) /\ e[0] = Least(whole, 0)
      BY <1>3, <2>1, <2>4
    <3> HIDE DEF e
    <3> QED  BY <1>2, <2>2, <3>1 DEF Least
  <2> QED  BY <2>3, <2>4
<1>7. taken \in [0..OneDollar -> Int]
  <2>1. taken = [r \in Prices |-> taken[r]]  BY DEF Taken
  <2>2. \A r \in Prices : taken[r] \in Nat  BY <1>4
  <2> HIDE DEF taken
  <2>3. taken \in [Prices -> Nat]  BY <2>1, <2>2
  <2>4. taken \in [Prices -> Int]  BY <2>3
  <2> QED  BY Zenon, <1>0, <2>4
<1> HIDE DEF e, taken
<1>8. \A i \in 0..OneDollar : taken[i] = e[i + 1] - e[i]  BY <1>0, <1>4
<1>9. Total(taken, OneDollar) = e[OneDollar + 1] - e[0]  BY <1>0, <1>5, <1>7, <1>8, Telescope
<1>10. Total(taken, OneDollar) >= 0
  <2> DEFINE z == [i \in 0..OneDollar |-> 0]
  <2>1. z \in [0..OneDollar -> Int] /\ (\A i \in 0..OneDollar : z[i] = 0)
        /\ \A i \in 0..OneDollar : z[i] <= taken[i]
    BY <1>0, <1>4
  <2> HIDE DEF z
  <2>2. Total(z, OneDollar) = 0 /\ Total(z, OneDollar) <= Total(taken, OneDollar)
    BY <1>0, <1>7, <2>1, TotalOfZeros, TotalGrows
  <2> QED  BY <2>2
<1>11. \A r \in 0..OneDollar : taken[r] >= 0 /\ (taken[r] > 0 => side[r] > 0)  BY <1>0, <1>4
<1> QED  BY <1>6, <1>7, <1>9, <1>10, <1>11 DEF taken, side, whole

LEMMA ExitIs ==
  ASSUME NEW b \in BookSet, NEW position \in Int
  PROVE  LET taken  == Taken(b, position)
             paying == [r \in 0..OneDollar |-> r * taken[r]]
             paid   == Total(paying, OneDollar)
         IN  /\ paying \in [0..OneDollar -> Int]
             /\ WalkBookExit(b, position).filled = Total(taken, OneDollar)
             /\ WalkBookExit(b, position).proceeds = IF position > 0 THEN paid ELSE -paid
<1> DEFINE taken == Taken(b, position)
           paying == [r \in 0..OneDollar |-> r * taken[r]]
           prices == DOMAIN b.bids
           f == [r \in prices |-> TakenAt(b, position, r)]
           g == [r \in prices |-> r * TakenAt(b, position, r)]
<1>0. OneDollar \in Nat /\ Prices = 0..OneDollar  BY GridAssumption DEF Prices
<1>1. prices = Prices  BY DEF BookSet, Levels
<1>2. taken \in [0..OneDollar -> Int]  BY TakenIsPart
<1>3. \A r \in Prices : f[r] = taken[r] /\ g[r] = r * taken[r]
  BY <1>1 DEF Taken
<1>4. DOMAIN f = 0..OneDollar /\ DOMAIN g = 0..OneDollar  BY <1>0, <1>1
<1>5. /\ WalkBookExit(b, position).filled = SumFunction(f)
      /\ WalkBookExit(b, position).proceeds =
           IF position > 0 THEN SumFunction(g) ELSE -SumFunction(g)
  BY DEF WalkBookExit
<1> HIDE DEF f, g, taken
<1>6. paying \in [0..OneDollar -> Int] /\ \A r \in 0..OneDollar : paying[r] = r * taken[r]
  <2>1. \A r \in 0..OneDollar : taken[r] \in Int /\ r \in Int  BY <1>0, <1>2
  <2>2. \A r \in 0..OneDollar : r * taken[r] \in Int  BY <2>1, Distribution
  <2> QED  BY <2>2
<1> HIDE DEF paying
<1>7. SumFunction(f) = Total(taken, OneDollar)
  <2>1. \A r \in 0..OneDollar : f[r] = taken[r]  BY <1>0, <1>3
  <2> QED  BY <1>0, <1>2, <1>4, <2>1, SumOfAllValues
<1>8. SumFunction(g) = Total(paying, OneDollar)
  <2>1. \A r \in 0..OneDollar : g[r] = paying[r]  BY <1>0, <1>3, <1>6
  <2> QED  BY <1>0, <1>4, <1>6, <2>1, SumOfAllValues
<1> QED  BY <1>5, <1>6, <1>7, <1>8 DEF taken, paying

(* What is paid lies between the best price and the dollar for a short,    *)
(* between nothing and the best price for a long, per contract.            *)
LEMMA PaidIsBracketed ==
  ASSUME NEW n \in Nat, NEW taken \in [0..n -> Int], NEW low \in Int, NEW high \in Int,
         NEW paying \in [0..n -> Int], \A r \in 0..n : paying[r] = r * taken[r],
         \A r \in 0..n : taken[r] >= 0 /\ (taken[r] > 0 => low <= r /\ r <= high)
  PROVE  low * Total(taken, n) <= Total(paying, n) /\ Total(paying, n) <= high * Total(taken, n)
<1> DEFINE h == [r \in 0..n |-> low * taken[r]]
           k == [r \in 0..n |-> high * taken[r]]
<1>1. ASSUME NEW r \in 0..n
      PROVE  /\ low * taken[r] \in Int /\ high * taken[r] \in Int
             /\ low * taken[r] <= r * taken[r] /\ r * taken[r] <= high * taken[r]
  <2> DEFINE x == taken[r]
  <2>1. x \in Int /\ x >= 0 /\ r \in Int  OBVIOUS
  <2>2. x > 0 => low <= r /\ r <= high  OBVIOUS
  <2> HIDE DEF x
  <2>3. /\ low * x = x * low /\ r * x = x * r /\ high * x = x * high
        /\ low * x \in Int /\ high * x \in Int
    BY <2>1, Distribution
  <2>4. CASE x > 0
    <3>1. x * low <= x * r /\ x * r <= x * high  BY <2>1, <2>2, <2>4, ProductsGrow
    <3> QED  BY <2>3, <3>1 DEF x
  <2>5. CASE ~(x > 0)
    <3>1. x = 0  BY <2>1, <2>5
    <3>2. low * 0 = 0 /\ r * 0 = 0 /\ high * 0 = 0  BY <2>1
    <3>3. low * x <= r * x /\ r * x <= high * x  BY <3>1, <3>2
    <3> QED  BY <2>3, <3>3 DEF x
  <2> QED  BY <2>4, <2>5
<1>2. h \in [0..n -> Int] /\ k \in [0..n -> Int]  BY <1>1
<1>3. /\ \A r \in 0..n : h[r] = low * taken[r]
      /\ \A r \in 0..n : k[r] = high * taken[r]
  OBVIOUS
<1> HIDE DEF h, k
<1>4. \A r \in 0..n : h[r] <= paying[r] /\ paying[r] <= k[r]  BY <1>1, <1>3
<1>5. Total(h, n) <= Total(paying, n) /\ Total(paying, n) <= Total(k, n)
  BY <1>2, <1>4, TotalGrows
<1>6. Total(h, n) = low * Total(taken, n) /\ Total(k, n) = high * Total(taken, n)
  BY <1>2, <1>3, TotalOfMultiple
<1> QED  BY <1>5, <1>6

LEMMA MidIsBetween ==
  ASSUME NEW low \in Int, NEW high \in Int, low < high
  PROVE  /\ (low + high) \div 2 \in Int
         /\ low <= (low + high) \div 2 /\ (low + high) \div 2 <= high
OBVIOUS

(* Neither side of the book is ever crossed.                               *)
LEMMA UncrossedKeeps ==
  ASSUME Uncrossed(book), [Next]_vars
  PROVE  Uncrossed(book)'
<1>0. ASSUME book' = book  PROVE Uncrossed(book)'
  BY <1>0 DEF Uncrossed
<1>1. CASE UNCHANGED vars
  <2>1. book' = book  BY <1>1 DEF vars
  <2> QED  BY <1>0, <2>1
<1>2. CASE Next
  <2>1. ASSUME NEW gap \in 0..MaxGap, NEW side \in {"bid", "ask"}, NEW price \in Grid,
               NEW change \in (-MaxSize)..MaxSize, BookEvent(side, price, change, gap)
        PROVE  Uncrossed(book)'
    <3> DEFINE b == ApplyDelta(book, side, price, change)
    <3>1. Uncrossed(b) /\ book' = b  BY <2>1 DEF BookEvent, Process
    <3> HIDE DEF b
    <3> QED  BY <3>1 DEF Uncrossed
  <2>2. ASSUME NEW gap \in 0..MaxGap, OtherEvent(gap)  PROVE Uncrossed(book)'
    <3>1. book' = book  BY <2>2 DEF OtherEvent, Process
    <3> QED  BY <1>0, <3>1
  <2>3. ASSUME NEW id \in DOMAIN candidates, Fill(id)  PROVE Uncrossed(book)'
    <3>1. book' = book  BY <2>3 DEF Fill
    <3> QED  BY <1>0, <3>1
  <2>4. ASSUME NEW ws \in SUBSET Intents, Quote(ws)  PROVE Uncrossed(book)'
    <3>1. book' = book  BY <2>4 DEF Quote
    <3> QED  BY <1>0, <3>1
  <2>5. ASSUME NEW i \in wanted, Place(i)  PROVE Uncrossed(book)'
    <3>1. book' = book  BY <2>5 DEF Place
    <3> QED  BY <1>0, <3>1
  <2>6. ASSUME FillsDone \/ PlacingDone \/ EndOfRecording  PROVE Uncrossed(book)'
    <3>1. book' = book  BY <2>6 DEF FillsDone, PlacingDone, EndOfRecording
    <3> QED  BY <1>0, <3>1
  <2> QED  BY Zenon, <1>2, <2>1, <2>2, <2>3, <2>4, <2>5, <2>6 DEF Next, Step
<1> QED  BY <1>1, <1>2

LEMMA LeavingIsBelow ==
  ASSUME Inv, AccountInv, Uncrossed(book)
  PROVE  LeavingBelowMark
<1> DEFINE P == portfolio.position
           whole == Abs(P)
           taken == Taken(book, P)
           paying == [r \in 0..OneDollar |-> r * taken[r]]
           filled == Total(taken, OneDollar)
           paid == Total(paying, OneDollar)
           exit == WalkBookExit(book, P)
           fee == IF exit.filled = 0 THEN 0
                  ELSE FeeMicros(Abs(exit.proceeds) \div exit.filled, exit.filled, TRUE)
           mid == Mid(book)
<1>0. P \in Int /\ portfolio.cash \in Int /\ OneDollar \in Nat /\ Prices = 0..OneDollar
  BY GridAssumption DEF AccountInv, Accounts, Prices
<1>1. book \in BookSet  BY BookIsRecord DEF Inv
<1>2. CASE P = 0
  <2>1. LiquidationValue(portfolio, book) = portfolio.cash  BY <1>2 DEF LiquidationValue
  <2>2. MarkToMarket(portfolio, book) = portfolio.cash
    <3>1. HasMid(book) => mid \in Int
      BY <1>1, <1>0 DEF BookSet, HasMid, Mid, Prices
    <3>2. HasMid(book) => P * mid = 0  BY <1>2, <3>1
    <3> QED  BY <1>0, <3>2 DEF MarkToMarket
  <2> QED  BY <1>0, <2>1, <2>2 DEF LeavingBelowMark
<1>3. CASE P # 0
  <2>1. SUFFICES ASSUME HasMid(book)
                 PROVE  LiquidationValue(portfolio, book) <= MarkToMarket(portfolio, book)
    BY <1>3 DEF LeavingBelowMark
  <2>2. /\ taken \in [0..OneDollar -> Int] /\ filled \in Nat /\ filled <= whole
        /\ \A r \in 0..OneDollar : taken[r] >= 0 /\ (taken[r] > 0 => Against(book, P)[r] > 0)
    BY <1>0, <1>1, TakenIsPart
  <2>3. /\ paying \in [0..OneDollar -> Int] /\ exit.filled = filled
        /\ exit.proceeds = IF P > 0 THEN paid ELSE -paid
    BY <1>0, <1>1, ExitIs
  <2>4. \A r \in 0..OneDollar : paying[r] = r * taken[r]  OBVIOUS
  <2>5. whole \in Nat /\ whole = IF P < 0 THEN -P ELSE P  BY <1>0 DEF Abs
  <2>6. LiquidationValue(portfolio, book) =
          portfolio.cash + exit.proceeds + UnfilledValue(P, exit.filled) - fee
    BY <1>3 DEF LiquidationValue
  <2>7. MarkToMarket(portfolio, book) = portfolio.cash + P * mid  BY <2>1 DEF MarkToMarket
  <2>8. UnfilledValue(P, filled) = IF P < 0 THEN -(whole - filled) * OneDollar ELSE 0
    BY DEF UnfilledValue
  <2> HIDE DEF paying, taken, exit, whole, P
  <2>9. paid \in Int  BY <1>0, <2>3, TotalIsInt
  <2> DEFINE bid == book.bestBid
             ask == book.bestAsk
  <2>10. /\ bid \in 0..OneDollar /\ ask \in 0..OneDollar /\ bid < ask
         /\ \A r \in Prices : /\ book.bids[r] > 0 => r <= bid
                              /\ book.asks[r] > 0 => ask <= r
    <3>1. bid # NoPrice /\ ask # NoPrice  BY <2>1 DEF HasMid
    <3>2. /\ book.bids \in Levels /\ book.asks \in Levels
          /\ bid = Highest(Offered(book.bids)) /\ ask = Lowest(Offered(book.asks))
      BY DEF Inv, BookInv, FromSnapshot
    <3>3. bid \in Prices /\ ask \in Prices  BY <1>1, <3>1 DEF BookSet
    <3>4. bid < ask  BY <3>1 DEF Uncrossed
    <3>5. Offered(book.bids) \in SUBSET Prices /\ Offered(book.asks) \in SUBSET Prices
      BY DEF Offered
    <3>6. ASSUME NEW r \in Prices, book.bids[r] > 0  PROVE r <= bid
      <4>1. r \in Offered(book.bids)  BY <3>6 DEF Offered
      <4> QED  BY <3>2, <3>5, <4>1, HighestIsLast
    <3>7. ASSUME NEW r \in Prices, book.asks[r] > 0  PROVE ask <= r
      <4>1. r \in Offered(book.asks)  BY <3>7 DEF Offered
      <4> QED  BY <3>2, <3>5, <4>1, LowestIsFirst
    <3> HIDE DEF bid, ask
    <3> QED  BY <1>0, <3>3, <3>4, <3>6, <3>7 DEF bid, ask
  <2>11. mid \in Int /\ bid <= mid /\ mid <= ask
    <3>1. bid \in Int /\ ask \in Int  BY <1>0, <2>10
    <3> QED  BY <2>10, <3>1, MidIsBetween DEF Mid
  <2>12. paid >= 0 /\ paid <= OneDollar * filled
    <3>1. /\ 0 * Total(taken, OneDollar) <= Total(paying, OneDollar)
          /\ Total(paying, OneDollar) <= OneDollar * Total(taken, OneDollar)
      <4>1. \A r \in 0..OneDollar : 0 <= r /\ r <= OneDollar  BY <1>0
      <4>2. 0 \in Int /\ OneDollar \in Int  BY <1>0
      <4> QED  BY <1>0, <2>2, <2>3, <2>4, <4>1, <4>2, PaidIsBracketed DEF paying
    <3>2. 0 * Total(taken, OneDollar) = 0  BY <2>2
    <3> QED  BY <3>1, <3>2
  <2>13. fee \in Nat
    <3>1. CASE filled = 0  BY <2>3, <3>1
    <3>2. CASE filled # 0
      <4>1. filled \in Nat \ {0}  BY <2>2, <3>2
      <4>2. Abs(exit.proceeds) = paid  BY <2>3, <2>9, <2>12 DEF Abs
      <4> DEFINE each == paid \div filled
      <4> HIDE DEF paid, filled
      <4>3. each \in Int /\ each >= 0  BY <2>9, <2>12, <4>1
      <4>4. each <= OneDollar
        <5>1. filled * (OneDollar + 1) = filled * OneDollar + filled * 1
          BY <1>0, <4>1, Distribution
        <5>2. filled * OneDollar = OneDollar * filled /\ OneDollar * filled \in Int /\ filled * 1 = filled
          BY <1>0, <4>1, Distribution
        <5>3. paid < filled * (OneDollar + 1)
          <6> DEFINE x == OneDollar * filled
          <6>1. x \in Int /\ paid <= x /\ filled * (OneDollar + 1) = x + filled
            BY <2>12, <5>1, <5>2
          <6> HIDE DEF x
          <6> QED  BY <2>9, <4>1, <6>1
        <5>4. OneDollar + 1 \in Int  BY <1>0
        <5>5. each < OneDollar + 1  BY <2>9, <4>1, <5>3, <5>4, DivisionIsFloor
        <5> HIDE DEF each
        <5> QED  BY <1>0, <4>3, <5>5
      <4>5. each \in Prices  BY <1>0, <4>3, <4>4
      <4>6. TakerFees(each, filled) \in Nat  BY <4>1, <4>5, FeesAreTyped
      <4>7. fee = TakerFees(each, filled)
        BY Zenon, <2>3, <3>2, <4>2 DEF TakerFees, filled, paid
      <4> QED  BY <4>6, <4>7
    <3> QED  BY <3>1, <3>2
  <2> HIDE DEF fee
  <2>14. CASE P > 0
    <3>1. paid <= bid * filled
      <4>1. ASSUME NEW r \in 0..OneDollar, taken[r] > 0  PROVE 0 <= r /\ r <= bid
        <5>1. Against(book, P) = book.bids  BY <2>14 DEF Against
        <5>2. r \in Prices /\ r \in Nat  BY <1>0
        <5>3. book.bids[r] > 0  BY <2>2, <4>1, <5>1
        <5> QED  BY <2>10, <5>2, <5>3
      <4>2. bid \in Int /\ 0 \in Int  BY <1>0, <2>10
      <4> QED  BY <1>0, <2>2, <2>3, <2>4, <4>1, <4>2, PaidIsBracketed
    <3> HIDE DEF filled, paid, bid, ask, mid
    <3>2. whole = P /\ UnfilledValue(P, filled) = 0 /\ exit.proceeds = paid
      BY <1>0, <2>3, <2>5, <2>8, <2>14
    <3>3. bid * filled <= P * mid
      <4>1. bid \in Int /\ bid >= 0 /\ mid \in Int /\ filled \in Int /\ P >= 0 /\ filled <= P
        BY <1>0, <2>2, <2>10, <2>11, <2>14, <3>2
      <4>2. bid * filled <= bid * P  BY <1>0, <4>1, ProductsGrow
      <4>3. P * bid <= P * mid  BY <1>0, <2>11, <4>1, ProductsGrow
      <4>4. bid * P = P * bid /\ bid * filled \in Int /\ bid * P \in Int /\ P * mid \in Int
        BY <1>0, <4>1, Distribution
      <4> QED  BY <4>2, <4>3, <4>4
    <3>4. P * mid \in Int /\ bid * filled \in Int
      <4>1. bid \in Int /\ filled \in Int /\ mid \in Int  BY <1>0, <2>2, <2>10, <2>11
      <4> QED  BY <1>0, <4>1, Distribution
    <3>5. portfolio.cash + paid + 0 - fee <= portfolio.cash + P * mid
      <4> DEFINE x == P * mid
                 y == bid * filled
      <4>1. x \in Int /\ y \in Int /\ paid <= y /\ y <= x  BY <3>1, <3>3, <3>4
      <4> HIDE DEF x, y
      <4>2. portfolio.cash + paid + 0 - fee <= portfolio.cash + x
        BY <1>0, <2>9, <2>13, <4>1
      <4> QED  BY <4>2 DEF x
    <3> QED  BY <2>3, <2>6, <2>7, <3>2, <3>5
  <2>15. CASE P < 0
    <3>1. ask * filled <= paid
      <4>1. ASSUME NEW r \in 0..OneDollar, taken[r] > 0  PROVE ask <= r /\ r <= OneDollar
        <5>1. Against(book, P) = book.asks  BY <1>0, <2>15 DEF Against
        <5>2. r \in Prices /\ r \in Nat /\ r <= OneDollar  BY <1>0
        <5>3. book.asks[r] > 0  BY <2>2, <4>1, <5>1
        <5> QED  BY <2>10, <5>2, <5>3
      <4>2. ask \in Int /\ OneDollar \in Int  BY <1>0, <2>10
      <4> QED  BY <1>0, <2>2, <2>3, <2>4, <4>1, <4>2, PaidIsBracketed
    <3> HIDE DEF filled, paid, bid, ask, mid
    <3> DEFINE rest == whole - filled
    <3>2. /\ whole = -P /\ exit.proceeds = -paid /\ rest \in Nat
          /\ UnfilledValue(P, filled) = -rest * OneDollar
      BY <1>0, <2>2, <2>3, <2>5, <2>8, <2>15
    <3>3. /\ ask \in Int /\ mid \in Int /\ filled \in Int /\ filled >= 0 /\ whole \in Int
          /\ mid <= OneDollar /\ mid <= ask
      BY <1>0, <2>2, <2>5, <2>10, <2>11
    <3> HIDE DEF rest
    <3> DEFINE x == filled * mid
               y == rest * mid
               z == rest * OneDollar
               v == ask * filled
    <3>4. filled * mid <= filled * ask /\ rest * mid <= rest * OneDollar
      BY <1>0, <3>2, <3>3, ProductsGrow
    <3>5. x \in Int /\ y \in Int /\ z \in Int /\ v \in Int /\ v = filled * ask
      BY <1>0, <3>2, <3>3, Distribution
    <3>6. P * mid = -(x + y)
      <4>1. mid * (filled + rest) = mid * filled + mid * rest
            /\ mid * filled = x /\ mid * rest = y
        BY <3>2, <3>3, Distribution
      <4>2. filled + rest = -P  BY <1>0, <3>2, <3>3 DEF rest
      <4>3. mid * (-P) = -(P * mid)  BY <1>0, <3>3
      <4>4. P * mid \in Int /\ x + y = -(P * mid)  BY <1>0, <3>3, <4>1, <4>2, <4>3, Distribution
      <4> DEFINE w == P * mid
      <4>5. w \in Int /\ x + y = -w  BY <4>4
      <4> HIDE DEF w, x, y
      <4>6. w = -(x + y)  BY <3>5, <4>5
      <4> QED  BY <4>6 DEF w
    <3>7. -rest * OneDollar = -z  BY <1>0, <3>2
    <3>8. x <= v /\ y <= z /\ v <= paid  BY <3>1, <3>4, <3>5
    <3> HIDE DEF x, y, z, v
    <3>9. portfolio.cash + (-paid) + (-z) - fee <= portfolio.cash + (-(x + y))
      BY <1>0, <2>9, <2>13, <3>5, <3>8
    <3> QED  BY <2>3, <2>6, <2>7, <3>2, <3>6, <3>7, <3>9
  <2> QED  BY <1>0, <1>3, <2>14, <2>15 DEF P
<1> QED  BY <1>2, <1>3

-----------------------------------------------------------------------------
(* Part 14.  The edge a size needs.                                        *)
(* The taker's fee is the rate of the size, rounded down to a tick of      *)
(* money and then up to a tick of fees; the maker's is of the same shape.  *)
MakerRate(price)  == IF ChargeMakers THEN Rate(price) ELSE MakerFee
MakerScale        == IF ChargeMakers THEN Scale ELSE CountScale

(* A division rounded down and then up is within a tick of what it rounds. *)
LEMMA RoundingIsNear ==
  ASSUME NEW rate \in Nat, NEW scale \in Nat \ {0}, NEW n \in Nat, NEW fee,
         fee = CeilTo((rate * n) \div scale, FeeTick)
  PROVE  /\ fee \in Int /\ \E c \in Int : fee = FeeTick * c
         /\ rate * n - scale + 1 <= scale * fee
         /\ scale * fee <= rate * n + scale * (FeeTick - 1)
<1> DEFINE x == rate * n
           w == x \div scale
           y == scale * w
           z == scale * fee
           v == scale * (FeeTick - 1)
<1>1. x \in Int  BY Distribution
<1>2. w \in Int /\ x % scale \in 0..(scale - 1) /\ x = y + (x % scale)
  <2> HIDE DEF x
  <2> QED  BY <1>1, Division
<1>3. fee = CeilTo(w, FeeTick)  OBVIOUS
<1> HIDE DEF x, w
<1>4. y \in Int  BY <1>2, Distribution
<1>5. /\ fee \in Int /\ w <= fee /\ fee <= w + FeeTick - 1
      /\ CeilDiv(w, FeeTick) \in Int /\ fee = FeeTick * CeilDiv(w, FeeTick)
  BY <1>2, <1>3, RoundedUp
<1>6. FeeTick \in Int /\ scale \in Int /\ scale >= 0  BY FeeAssumption
<1>7. y <= z
  <2> QED  BY <1>2, <1>5, <1>6, ProductsGrow
<1>8. z <= y + v
  <2> DEFINE t == FeeTick - 1
  <2>1. t \in Int /\ fee <= w + t  BY <1>5, <1>6
  <2> HIDE DEF t
  <2>2. w + t \in Int  BY <1>2, <2>1
  <2>3. scale * fee <= scale * (w + t)  BY <1>5, <1>6, <2>1, <2>2, ProductsGrow
  <2>4. scale * (w + t) = scale * w + scale * t  BY <1>2, <1>6, <2>1, Distribution
  <2> QED  BY <2>3, <2>4 DEF t
<1>9. z \in Int /\ v \in Int
  <2>1. FeeTick - 1 \in Int  BY <1>6
  <2> QED  BY <1>5, <1>6, <2>1, Distribution
<1> HIDE DEF y, z, v
<1>10. x - scale + 1 <= z /\ z <= x + v  BY <1>1, <1>2, <1>4, <1>7, <1>8, <1>9
<1> QED  BY <1>5, <1>10 DEF x, z, v

LEMMA RoundTripIs ==
  ASSUME NEW price \in Prices, NEW n \in Nat \ {0}
  PROVE  /\ MakerRate(price) \in Nat /\ MakerScale \in Nat \ {0}
         /\ Rate(price) \in Nat /\ Scale \in Nat \ {0}
         /\ TakerFees(price, n) = CeilTo((Rate(price) * n) \div Scale, FeeTick)
         /\ MakerFees(price, n) = CeilTo((MakerRate(price) * n) \div MakerScale, FeeTick)
         /\ RoundTrip(price, n) = MakerFees(price, n) + TakerFees(price, n)
<1>1. /\ Rate(price) \in Nat /\ Scale \in Nat \ {0}
      /\ Formula(price, n) = (Rate(price) * n) \div Scale
  BY FormulaIsRate
<1>2. TakerFees(price, n) = CeilTo((Rate(price) * n) \div Scale, FeeTick)
  BY <1>1, TakerFeeIs
<1>3. RoundTrip(price, n) = MakerFees(price, n) + TakerFees(price, n)
  BY Zenon DEF RoundTrip, MakerFees, TakerFees
<1>4. ~ (n <= 0)  OBVIOUS
<1>5. CASE ChargeMakers
  <2>1. MakerRate(price) = Rate(price) /\ MakerScale = Scale
    BY Zenon, <1>5 DEF MakerRate, MakerScale
  <2>2. MakerFees(price, n) = CeilTo(Formula(price, n), FeeTick)
    BY Zenon, <1>4, <1>5 DEF MakerFees, FeeMicros
  <2> QED  BY Zenon, <1>1, <1>2, <1>3, <2>1, <2>2
<1>6. CASE ~ChargeMakers
  <2>1. MakerRate(price) = MakerFee /\ MakerScale = CountScale
    BY Zenon, <1>6 DEF MakerRate, MakerScale
  <2>2. MakerFees(price, n) = CeilTo((MakerFee * n) \div CountScale, FeeTick)
    BY Zenon, <1>4, <1>6 DEF MakerFees, FeeMicros
  <2>3. MakerFee \in Nat /\ CountScale \in Nat \ {0}  BY FeeAssumption
  <2> QED  BY Zenon, <1>1, <1>2, <1>3, <2>1, <2>2, <2>3
<1> QED  BY <1>5, <1>6

(* One side's fee is under the edge that pays it and one rounding up.      *)
LEMMA EdgePaysOneSide ==
  ASSUME NEW price \in Prices, NEW n \in Nat \ {0}
  PROVE  TakerFees(price, n) < EdgeTicks(price, TRUE) * n + FeeTick
<1> DEFINE r == Rate(price)
           e == EdgeTicks(price, TRUE)
           u == (r * n) \div Scale
<1>1. /\ r \in Nat /\ Scale \in Nat \ {0} /\ r * n \in Nat
      /\ Formula(price, n) = u /\ u \in Nat
  BY FormulaIsRate
<1>2. e \in Int /\ r <= Scale * e
  <2>1. CASE TradingFeeBps = 0
    <3>1. r = 0
      <4>1. 0 * price * (OneDollar - price) = 0  BY FeeAssumption DEF Prices
      <4> QED  BY <2>1, <4>1 DEF Rate
    <3>2. e = 0  BY Zenon, <2>1 DEF EdgeTicks
    <3>3. Scale * 0 = 0  BY <1>1
    <3> HIDE DEF r, e
    <3> QED  BY <3>1, <3>2, <3>3
  <2>2. CASE TradingFeeBps # 0
    <3>1. OneDollar * FeeBpsScale = Scale
      BY FeeAssumption DEF Scale
    <3>2. e = CeilDiv(r, Scale)
      <4>1. e = CeilDiv(TradingFeeBps * price * (OneDollar - price), OneDollar * FeeBpsScale)
        BY Zenon, <2>2 DEF EdgeTicks
      <4> QED  BY Zenon, <3>1, <4>1 DEF Rate
    <3> HIDE DEF r, e
    <3> QED  BY <1>1, <3>2, CeilingCovers
  <2> QED  BY <2>1, <2>2
<1>3. u <= e * n
  <2> HIDE DEF r, e
  <2> DEFINE x == r * n
             y == e * n
  <2>1. x \in Int /\ y \in Int  BY <1>1, <1>2, Distribution
  <2>2. Scale * e \in Int  BY <1>1, <1>2, Distribution
  <2>3. x <= n * (Scale * e)
    <3> DEFINE z == Scale * e
    <3>1. z \in Int /\ r <= z  BY <1>2, <2>2
    <3> HIDE DEF z
    <3>2. n * r <= n * z  BY <1>1, <3>1, ProductsGrow
    <3>3. n * r = r * n  BY <1>1, Distribution
    <3> QED  BY <3>2, <3>3 DEF z
  <2>4. n * (Scale * e) = Scale * y  BY <1>1, <1>2
  <2>5. x <= Scale * y  BY <2>3, <2>4
  <2>6. x \div Scale <= y
    <3>1. x < Scale * (y + 1)
      <4> HIDE DEF x, y
      <4>1. Scale * (y + 1) = Scale * y + Scale * 1 /\ Scale * y \in Int
        BY <1>1, <2>1, Distribution
      <4> QED  BY <1>1, <2>1, <2>5, <4>1
    <3> HIDE DEF x, y
    <3>2. y + 1 \in Int /\ x \div Scale \in Int  BY <1>1, <2>1
    <3>3. x \div Scale < y + 1  BY <1>1, <2>1, <3>1, <3>2, DivisionIsFloor
    <3> QED  BY <2>1, <3>2, <3>3
  <2> QED  BY <2>6
<1>4. TakerFees(price, n) = CeilTo(u, FeeTick)
  BY <1>1, TakerFeeIs
<1> HIDE DEF u, e
<1>5. CeilTo(u, FeeTick) \in Int /\ CeilTo(u, FeeTick) <= u + FeeTick - 1
  BY <1>1, RoundedUp
<1>6. e * n \in Int  BY <1>2, Distribution
<1> DEFINE y == e * n
<1>7. y \in Int /\ u <= y  BY <1>3, <1>6
<1> HIDE DEF y
<1>8. TakerFees(price, n) < y + FeeTick  BY <1>1, <1>4, <1>5, <1>7, FeeAssumption
<1> QED  BY <1>8 DEF y, e

(* A size of whole contracts is worth a whole number of fee ticks, of two  *)
(* money units at least: COUNT_SCALE and FEE_ROUNDING_MICROS are both 100. *)
WholeTicks == FeeTick >= 2 /\ CountScale % FeeTick = 0

LEMMA SizesAreWhole ==
  ASSUME WholeTicks, NEW n \in Nat, n % CountScale = 0
  PROVE  \E c \in Int : n = FeeTick * c
<1> DEFINE p == CountScale \div FeeTick
           q == n \div CountScale
<1>1. /\ p \in Int /\ CountScale = FeeTick * p + (CountScale % FeeTick)
      /\ q \in Int /\ n = CountScale * q + (n % CountScale)
  BY FeeAssumption, Division
<1>2. CountScale % FeeTick = 0  BY DEF WholeTicks
<1>3. FeeTick * p \in Int /\ CountScale * q \in Int  BY <1>1, FeeAssumption, Distribution
<1> HIDE DEF p, q
<1> DEFINE x == FeeTick * p
           y == CountScale * q
<1>4. x \in Int /\ CountScale = x + 0 /\ y \in Int /\ n = y + 0  BY <1>1, <1>2, <1>3
<1> HIDE DEF x, y
<1>5. CountScale = x /\ n = y  BY <1>4
<1>6. \A a, b, c \in Int : (a * b) * c = a * (b * c)  OBVIOUS
<1>7. n = FeeTick * (p * q)
  <2>1. FeeTick \in Int  BY FeeAssumption
  <2>2. (FeeTick * p) * q = FeeTick * (p * q)  BY Zenon, <1>1, <1>6, <2>1
  <2> QED  BY Zenon, <1>5, <2>2 DEF x, y
<1>8. p * q \in Int  BY <1>1, Distribution
<1> QED  BY <1>7, <1>8

(* The arithmetic of two fees within a tick of their rates: what is left   *)
(* of an edge that left a tick over does not fall below zero by a tick.    *)
LEMMA SurplusStays ==
  ASSUME NEW A \in Nat, NEW B \in Nat \ {0}, NEW M \in Nat, NEW C \in Nat \ {0},
         NEW t \in Nat, t >= 2, NEW e \in Int, NEW n \in Nat \ {0}, NEW k \in Nat, n < k,
         NEW X \in Int, NEW Y \in Int, NEW V \in Int, NEW W \in Int,
         A * n - B + 1 <= B * X, M * n - C + 1 <= C * Y,
         B * V <= A * k + B * (t - 1), C * W <= M * k + C * (t - 1),
         t <= e * n - (Y + X)
  PROVE  -t < e * k - (W + V)
<1> DEFINE P == B * C
           D == P * e - C * A - B * M
<1>1. A \in Int /\ B \in Int /\ M \in Int /\ C \in Int /\ t \in Int /\ n \in Int /\ k \in Int
      /\ B >= 1 /\ C >= 1
  OBVIOUS
<1>2. P \in Int /\ P > 0 /\ P >= B /\ P >= C
  <2>1. B * 1 <= B * C /\ C * 1 <= C * B /\ B * C = C * B /\ B * C \in Int
    BY <1>1, ProductsGrow, Distribution
  <2> QED  BY <1>1, <2>1
<1>3. D \in Int
  <2> DEFINE x == P * e
             y == C * A
             z == B * M
  <2>1. x \in Int /\ y \in Int /\ z \in Int  BY <1>1, <1>2, Distribution
  <2> HIDE DEF x, y, z
  <2>2. x - y - z \in Int  BY <2>1
  <2> QED  BY <2>2 DEF x, y, z
<1>4. \A m \in Int : D * m = P * (e * m) - C * (A * m) - B * (M * m)
  <2>1. \A a, b, c, m, d, f, g, h, i \in Int :
           (a * b - c * d - f * g) * m = a * (b * m) - c * (d * m) - f * (g * m)
    OBVIOUS
  <2> HIDE DEF P
  <2> QED  BY <1>1, <1>2, <2>1
<1>5. /\ C * (A * n) - P + C <= P * X
      /\ B * (M * n) - P + B <= P * Y
      /\ P * V <= C * (A * k) + P * (t - 1)
      /\ P * W <= B * (M * k) + P * (t - 1)
  <2>1. /\ A * n \in Int /\ M * n \in Int /\ A * k \in Int /\ M * k \in Int /\ t - 1 \in Int
        /\ B * X \in Int /\ C * Y \in Int /\ B * V \in Int /\ C * W \in Int
        /\ B * (t - 1) \in Int /\ C * (t - 1) \in Int
    <3>1. t - 1 \in Int  BY <1>1
    <3> QED  BY <1>1, <3>1, Distribution
  <2>2. /\ C * (A * n - B + 1) <= C * (B * X)
        /\ B * (M * n - C + 1) <= B * (C * Y)
        /\ C * (B * V) <= C * (A * k + B * (t - 1))
        /\ B * (C * W) <= B * (M * k + C * (t - 1))
    BY <1>1, <2>1, ProductsGrow
  <2>3. \A a, b, c \in Int : c * (a - b + 1) = c * a - c * b + c
    OBVIOUS
  <2>4. \A a, b, c, d \in Int : c * (b * d) = (b * c) * d /\ c * (b * d) = (c * b) * d
    OBVIOUS
  <2>5. \A a, b, c \in Int : c * (a + b) = c * a + c * b  BY Distribution
  <2>6. /\ C * (A * n - B + 1) = C * (A * n) - C * B + C
        /\ B * (M * n - C + 1) = B * (M * n) - B * C + B
    BY <1>1, <2>1, <2>3
  <2>7. /\ C * (A * k + B * (t - 1)) = C * (A * k) + C * (B * (t - 1))
        /\ B * (M * k + C * (t - 1)) = B * (M * k) + B * (C * (t - 1))
    BY <1>1, <2>1, <2>5
  <2>8. /\ C * (B * X) = P * X /\ B * (C * Y) = P * Y /\ C * (B * V) = P * V
        /\ B * (C * W) = P * W /\ C * (B * (t - 1)) = P * (t - 1)
        /\ B * (C * (t - 1)) = P * (t - 1)
    BY <1>1, <2>1, <2>4
  <2>9. C * B = P  BY <1>1, Distribution
  <2> HIDE DEF P
  <2> QED  BY <2>2, <2>6, <2>7, <2>8, <2>9 DEF P
<1> DEFINE dn == D * n
           dk == D * k
           en == e * n
           ek == e * k
           an == C * (A * n)
           mn == B * (M * n)
           ak == C * (A * k)
           mk == B * (M * k)
           pt == P * (t - 1)
<1>6. /\ dn \in Int /\ dk \in Int /\ en \in Int /\ ek \in Int /\ an \in Int /\ mn \in Int
      /\ ak \in Int /\ mk \in Int /\ pt \in Int
  <2>1. A * n \in Int /\ M * n \in Int /\ A * k \in Int /\ M * k \in Int /\ t - 1 \in Int
    <3>1. t - 1 \in Int  BY <1>1
    <3> QED  BY <1>1, <3>1, Distribution
  <2> HIDE DEF P, D
  <2> QED  BY <1>1, <1>2, <1>3, <2>1, Distribution
<1>7. dn = P * en - an - mn /\ dk = P * ek - ak - mk  BY <1>1, <1>4
<1>8. P * (t + (Y + X)) <= P * en
  <2>1. t + (Y + X) \in Int /\ t + (Y + X) <= en /\ P >= 0
    <3> HIDE DEF P, en
    <3>1. en \in Int /\ t <= en - (Y + X)  BY <1>6 DEF en
    <3> QED  BY <1>1, <1>2, <3>1
  <2> HIDE DEF P, en
  <2> QED  BY <1>2, <1>6, <2>1, ProductsGrow
<1>9. P * (t + (Y + X)) = pt + P + (P * Y + P * X) /\ P * X \in Int /\ P * Y \in Int
  <2> HIDE DEF P
  <2>1. \A p, a, b, c \in Int : p * (a + (b + c)) = p * (a - 1) + p + (p * b + p * c)
    OBVIOUS
  <2> QED  BY <1>1, <1>2, <2>1, Distribution
<1>10. pt >= P
  <2>1. 1 \in Int /\ t - 1 \in Int /\ 1 <= t - 1  BY <1>1
  <2> HIDE DEF P
  <2>2. P * 1 <= P * (t - 1)  BY <1>2, <2>1, ProductsGrow
  <2> QED  BY <1>2, <2>2
<1>11. dn > 0 /\ dn > pt - P
  <2> DEFINE pen == P * en
             px == P * X
             py == P * Y
             left == P * (t + (Y + X))
  <2>1. pen \in Int /\ px \in Int /\ py \in Int
    <3> HIDE DEF P, en
    <3> QED  BY <1>2, <1>6, <1>9, Distribution
  <2>2. /\ left = pt + P + (py + px) /\ left <= pen
        /\ an - P + C <= px /\ mn - P + B <= py /\ dn = pen - an - mn
    BY <1>5, <1>7, <1>8, <1>9
  <2> HIDE DEF P, D, dn, dk, en, ek, an, mn, ak, mk, pt, pen, px, py, left
  <2>3. pt + P + (py + px) <= pen  BY <2>2
  <2>4. dn > pt - P  BY <1>1, <1>2, <1>6, <2>1, <2>2, <2>3
  <2> QED  BY <1>2, <1>6, <1>10, <2>4
<1>12. D > 0
  <2>1. D <= 0 => n * D <= n * 0
    <3> HIDE DEF D
    <3> QED  BY <1>1, <1>3, ProductsGrow
  <2>2. n * D = dn /\ n * 0 = 0
    <3> HIDE DEF D
    <3> QED  BY <1>1, <1>3, Distribution
  <2> HIDE DEF D, dn
  <2> QED  BY <1>3, <1>6, <1>11, <2>1, <2>2
<1>13. dn <= dk
  <2> HIDE DEF D
  <2>1. D * n <= D * k  BY <1>1, <1>3, <1>12, ProductsGrow
  <2> QED  BY <2>1
<1>14. P * (ek - (W + V)) > -(P * t)
  <2> DEFINE pek == P * ek
             pw == P * W
             pv == P * V
             p == P * t
  <2>1. pek \in Int /\ pw \in Int /\ pv \in Int /\ p \in Int
    <3> HIDE DEF P, ek
    <3> QED  BY <1>1, <1>2, <1>6, Distribution
  <2>2. P * (ek - (W + V)) = pek - (pw + pv) /\ pt = p - P
    <3> HIDE DEF P, ek
    <3>1. \A q, a, b, c \in Int : q * (a - (b + c)) = q * a - (q * b + q * c)
      OBVIOUS
    <3>2. \A q, a \in Int : q * (a - 1) = q * a - q  OBVIOUS
    <3> QED  BY <1>1, <1>2, <1>6, <3>1, <3>2
  <2>3. pv <= ak + pt /\ pw <= mk + pt /\ dk = pek - ak - mk  BY <1>5, <1>7
  <2> HIDE DEF P, D, dn, dk, en, ek, an, mn, ak, mk, pt, pek, pw, pv, p
  <2>4. pek - (pw + pv) >= dk - pt - pt  BY <1>6, <2>1, <2>3
  <2>5. pek - (pw + pv) > -p
    BY <1>2, <1>6, <1>11, <1>13, <2>1, <2>2, <2>4
  <2> QED  BY <2>2, <2>5 DEF p
<1>15. -t < ek - (W + V)
  <2> DEFINE s == ek - (W + V)
  <2>1. s \in Int
    <3> HIDE DEF ek
    <3> QED  BY <1>6
  <2>2. s <= -t => P * s <= P * (-t)
    <3> HIDE DEF P, s
    <3> QED  BY <1>1, <1>2, <2>1, ProductsGrow
  <2>3. P * (-t) = -(P * t)
    <3> HIDE DEF P
    <3> QED  BY <1>1, <1>2
  <2>4. P * s \in Int /\ P * t \in Int /\ P * s > -(P * t)
    <3>1. P * s > -(P * t)  BY <1>14
    <3> HIDE DEF P, s
    <3> QED  BY <1>1, <1>2, <2>1, <3>1, Distribution
  <2> HIDE DEF P, s
  <2>5. ~ (s <= -t)
    <3> DEFINE x == P * s
               y == P * t
    <3>1. x \in Int /\ y \in Int /\ x > -y /\ (s <= -t => x <= -y)  BY <2>2, <2>3, <2>4
    <3> HIDE DEF x, y
    <3> QED  BY <3>1
  <2>6. -t < s  BY <1>1, <2>1, <2>5
  <2> QED  BY <2>6 DEF s
<1> QED  BY <1>15

LEMMA SurplusKeeps ==
  ASSUME WholeTicks, NEW price \in Prices, NEW edge \in Nat, NEW n \in Nat \ {0}, NEW k \in Nat,
         n < k, n % CountScale = 0, k % CountScale = 0, Surplus(price, edge, n) > 0
  PROVE  Surplus(price, edge, k) >= 0
<1> DEFINE A == Rate(price)
           M == MakerRate(price)
           X == TakerFees(price, n)
           Y == MakerFees(price, n)
           V == TakerFees(price, k)
           W == MakerFees(price, k)
<1>1. k \in Nat \ {0} /\ n \in Nat /\ FeeTick \in Nat /\ FeeTick >= 2
  BY FeeAssumption DEF WholeTicks
<1>2. /\ A \in Nat /\ Scale \in Nat \ {0} /\ M \in Nat /\ MakerScale \in Nat \ {0}
      /\ X = CeilTo((A * n) \div Scale, FeeTick)
      /\ Y = CeilTo((M * n) \div MakerScale, FeeTick)
      /\ V = CeilTo((A * k) \div Scale, FeeTick)
      /\ W = CeilTo((M * k) \div MakerScale, FeeTick)
  BY <1>1, RoundTripIs
<1>3. /\ Surplus(price, edge, n) = edge * n - (Y + X)
      /\ Surplus(price, edge, k) = edge * k - (W + V)
  <2>1. RoundTrip(price, n) = Y + X /\ RoundTrip(price, k) = W + V  BY <1>1, RoundTripIs
  <2> HIDE DEF X, Y, V, W
  <2> QED  BY Zenon, <2>1 DEF Surplus
<1> HIDE DEF A, M, X, Y, V, W
<1>4. /\ X \in Int /\ Y \in Int /\ V \in Int /\ W \in Int
      /\ A * n - Scale + 1 <= Scale * X /\ M * n - MakerScale + 1 <= MakerScale * Y
      /\ Scale * V <= A * k + Scale * (FeeTick - 1)
      /\ MakerScale * W <= M * k + MakerScale * (FeeTick - 1)
  BY <1>1, <1>2, RoundingIsNear
<1>5. PICK x \in Int, y \in Int, v \in Int, w \in Int :
        X = FeeTick * x /\ Y = FeeTick * y /\ V = FeeTick * v /\ W = FeeTick * w
  <2>1. /\ (A * n) \div Scale \in Int /\ (M * n) \div MakerScale \in Int
        /\ (A * k) \div Scale \in Int /\ (M * k) \div MakerScale \in Int
    <3>1. A * n \in Int /\ M * n \in Int /\ A * k \in Int /\ M * k \in Int
      BY <1>1, <1>2, Distribution
    <3> QED  BY <1>2, <3>1, Division
  <2>2. \A z \in Int : \E c \in Int : CeilTo(z, FeeTick) = FeeTick * c
    BY RoundedUp
  <2>3. /\ \E c \in Int : X = FeeTick * c
        /\ \E c \in Int : Y = FeeTick * c
        /\ \E c \in Int : V = FeeTick * c
        /\ \E c \in Int : W = FeeTick * c
    BY Zenon, <1>2, <2>1, <2>2
  <2> QED  BY Zenon, <2>3
<1>6. PICK a \in Int, b \in Int : n = FeeTick * a /\ k = FeeTick * b
  <2>1. (\E c \in Int : n = FeeTick * c) /\ (\E c \in Int : k = FeeTick * c)
    BY <1>1, SizesAreWhole
  <2> QED  BY Zenon, <2>1
<1> DEFINE i == edge * a - (y + x)
           j == edge * b - (w + v)
<1>7. i \in Int /\ j \in Int
  <2>1. edge * a \in Int /\ edge * b \in Int  BY <1>6, Distribution
  <2> QED  BY <1>5, <2>1
<1>8. edge * n - (Y + X) = FeeTick * i /\ edge * k - (W + V) = FeeTick * j
  <2>1. \A t, e, c, p, q \in Int : e * (t * c) - (t * p + t * q) = t * (e * c - (p + q))
    OBVIOUS
  <2>2. FeeTick \in Int /\ edge \in Int  BY <1>1
  <2>3. /\ edge * (FeeTick * a) - (FeeTick * y + FeeTick * x) = FeeTick * i
        /\ edge * (FeeTick * b) - (FeeTick * w + FeeTick * v) = FeeTick * j
    BY <1>5, <1>6, <2>1, <2>2
  <2> HIDE DEF i, j
  <2> QED  BY Zenon, <1>5, <1>6, <2>3
<1> HIDE DEF i, j
<1>9. FeeTick <= edge * n - (Y + X)
  <2>1. FeeTick * i > 0  BY <1>3, <1>8
  <2>2. i > 0
    <3>1. i <= 0 => FeeTick * i <= FeeTick * 0  BY <1>1, <1>7, ProductsGrow
    <3>2. FeeTick * 0 = 0 /\ FeeTick * i \in Int  BY <1>1, <1>7, Distribution
    <3> DEFINE z == FeeTick * i
    <3>3. z \in Int /\ z > 0 /\ (i <= 0 => z <= 0)  BY <2>1, <3>1, <3>2
    <3> HIDE DEF z
    <3> QED  BY <1>7, <3>3
  <2>3. FeeTick * 1 <= FeeTick * i  BY <1>1, <1>7, <2>2, ProductsGrow
  <2>4. FeeTick * 1 = FeeTick  BY <1>1
  <2> QED  BY <1>8, <2>3, <2>4
<1>10. -FeeTick < edge * k - (W + V)
  BY <1>1, <1>2, <1>4, <1>9, SurplusStays
<1>11. j >= 0
  <2> DEFINE z == FeeTick * j
  <2>1. z \in Int /\ -FeeTick < z  BY <1>1, <1>7, <1>8, <1>10, Distribution
  <2>2. j <= -1 => z <= FeeTick * (-1)  BY <1>1, <1>7, ProductsGrow
  <2>3. FeeTick * (-1) = -FeeTick  BY <1>1
  <2> HIDE DEF z
  <2> QED  BY <1>1, <1>7, <2>1, <2>2, <2>3
<1>12. FeeTick * j >= 0  BY <1>1, <1>7, <1>11, SignOfProduct
<1> QED  BY <1>3, <1>8, <1>12

(* The least viable size is one, and the edge that breaks even there is    *)
(* within the edge it was found for.                                       *)
LEMMA FirstViableBreaksEven ==
  ASSUME NEW price \in Prices, NEW edge \in Nat \ {0}, NEW most \in Nat,
         MinimumViableCount(price, edge, most, TRUE) # NoCount
  PROVE  BreakevenEdge(price, MinimumViableCount(price, edge, most, TRUE)) <= edge
<1> DEFINE sizes == {n \in 1..most : /\ n % CountScale = 0
                                     /\ edge * n >= Required(price, n, TRUE)}
           first == MinimumViableCount(price, edge, most, TRUE)
<1>1. sizes # {} /\ first = CHOOSE n \in sizes : \A k \in sizes : n <= k
  BY Zenon DEF MinimumViableCount
<1>2. sizes \in SUBSET Nat
  <2>1. \A n \in sizes : n \in 1..most  BY Zenon
  <2>2. \A n \in 1..most : n \in Nat  OBVIOUS
  <2> HIDE DEF sizes
  <2> QED  BY Zenon, <2>1, <2>2
<1>3. \E n \in sizes : \A k \in sizes : n <= k
  <2> HIDE DEF sizes
  <2> QED  BY <1>1, <1>2, FirstNumber
<1>4. first \in sizes
  <2> HIDE DEF sizes, first
  <2> QED  BY Zenon, <1>1, <1>3
<1>5. first \in Nat \ {0} /\ edge * first >= Required(price, first, TRUE)
  <2> HIDE DEF first
  <2>1. first \in 1..most /\ edge * first >= Required(price, first, TRUE)  BY Zenon, <1>4
  <2>2. \A n \in 1..most : n \in Nat \ {0}  OBVIOUS
  <2> HIDE DEF sizes
  <2> QED  BY Zenon, <2>1, <2>2
<1> HIDE DEF first, sizes
<1> DEFINE trip == RoundTrip(price, first)
           p == edge * first
<1>6. Required(price, first, TRUE) = trip  BY Zenon DEF Required
<1>7. trip \in Nat
  <2>1. trip = MakerFees(price, first) + TakerFees(price, first)  BY <1>5, RoundTripIs
  <2>2. first \in Nat  BY <1>5
  <2>3. MakerFees(price, first) \in Nat /\ TakerFees(price, first) \in Nat  BY <2>2, FeesAreTyped
  <2> HIDE DEF trip
  <2> QED  BY <2>1, <2>3
<1>8. BreakevenEdge(price, first) = CeilDiv(trip, first)
  BY <1>5 DEF BreakevenEdge
<1> HIDE DEF trip
<1>9. CeilDiv(trip, first) \in Int /\ first * CeilDiv(trip, first) <= trip + first - 1
  BY <1>5, <1>7, CeilingCovers
<1> DEFINE c == CeilDiv(trip, first)
<1> HIDE DEF c
<1>10. c <= edge
  <2>1. c > edge => first * (edge + 1) <= first * c
    <3>1. edge + 1 \in Int /\ first \in Int /\ first >= 0 /\ c \in Int  BY <1>5, <1>9 DEF c
    <3>2. c > edge => edge + 1 <= c  BY <3>1
    <3> QED  BY <3>1, <3>2, ProductsGrow
  <2>2. first * (edge + 1) = p + first /\ p \in Int
    <3>1. first * (edge + 1) = first * edge + first * 1 /\ first * edge = p /\ p \in Int
      BY <1>5, Distribution
    <3> QED  BY <1>5, <3>1
  <2>3. trip <= p  BY <1>5, <1>6
  <2> DEFINE q == first * c
  <2>4. q \in Int /\ q <= trip + first - 1  BY <1>5, <1>9, Distribution DEF c
  <2> HIDE DEF p
  <2>5. c > edge => p + first <= q  BY <2>1, <2>2
  <2> HIDE DEF q
  <2>6. c \in Int  BY <1>9 DEF c
  <2> QED  BY <1>5, <1>7, <2>2, <2>3, <2>4, <2>5, <2>6
<1> QED  BY <1>8, <1>10 DEF c, first

LEMMA ViableSizesStay == WholeTicks => ViableStaysViable
<1> SUFFICES ASSUME WholeTicks  PROVE ViableStaysViable
  OBVIOUS
<1>1. MaxViable \in Nat /\ Sizes \in SUBSET (Nat \ {0}) /\ \A n \in Sizes : n % CountScale = 0
  BY FeeAssumption DEF MaxViable, Sizes
<1>2. Grid \in SUBSET Prices  BY GridAssumption
<1>3. ASSUME NEW price \in Grid, NEW n \in Sizes
      PROVE  FeeMicros(price, n, TRUE) < EdgeTicks(price, TRUE) * n + FeeTick
  <2>1. price \in Prices /\ n \in Nat \ {0}  BY <1>1, <1>2
  <2>2. TakerFees(price, n) < EdgeTicks(price, TRUE) * n + FeeTick  BY <2>1, EdgePaysOneSide
  <2> QED  BY Zenon, <2>2 DEF TakerFees
<1>4. ASSUME NEW price \in Grid, NEW edge \in 1..OneDollar,
             MinimumViableCount(price, edge, MaxViable, TRUE) # NoCount
      PROVE  BreakevenEdge(price, MinimumViableCount(price, edge, MaxViable, TRUE)) <= edge
  <2>1. price \in Prices /\ edge \in Nat \ {0}  BY <1>2
  <2> QED  BY <1>1, <1>4, <2>1, FirstViableBreaksEven
<1>5. ASSUME NEW price \in Grid, NEW edge \in 1..OneDollar, NEW n \in Sizes, NEW k \in Sizes,
             Surplus(price, edge, n) > 0, k > n
      PROVE  Surplus(price, edge, k) >= 0
  <2>1. price \in Prices /\ edge \in Nat /\ n \in Nat \ {0} /\ k \in Nat  BY <1>1, <1>2
  <2>2. n < k  BY <1>5, <2>1
  <2> QED  BY <1>1, <1>5, <2>1, <2>2, SurplusKeeps
<1> QED  BY Zenon, <1>3, <1>4, <1>5 DEF ViableStaysViable

-----------------------------------------------------------------------------
(* sim/accounting.py, market/fees.py.  The account is right at every point *)
(* of every replay: inventory, cash and volume are the orders' fills,      *)
(* leaving the position is never valued above the mark, and, if a resting  *)
(* piece is charged no more than a taking one, an order in pieces pays for *)
(* one rounding up; if sizes are worth whole ticks of two units or more,   *)
(* a size that pays its fees does so at every larger size.                 *)
THEOREM AccountIsRight ==
  MakersPayNoMore /\ WholeTicks => (Spec => []AccountIsTrue)
<1> SUFFICES ASSUME MakersPayNoMore, WholeTicks  PROVE Spec => []AccountIsTrue
  OBVIOUS
<1> DEFINE All == Inv /\ AccountInv /\ PaidInv /\ FeesInv /\ Uncrossed(book)
<1>1. Init => All
  <2>1. Init => Uncrossed(book)  BY DEF Init
  <2> QED  BY <2>1, InitHolds, AccountStarts, FeesStart
<1>2. All /\ [Next]_vars => All'
  BY StepKeeps, AccountKeeps, FeesKeep, UncrossedKeeps
<1>3. All => AccountIsTrue
  BY AccountFollows, FeesAreSummed, LeavingIsBelow, ViableSizesStay DEF AccountIsTrue
<1> QED  BY <1>1, <1>2, <1>3, PTL DEF Spec
=============================================================================
