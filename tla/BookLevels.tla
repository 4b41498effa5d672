------------------------------ MODULE BookLevels ------------------------------
(***************************************************************************)
(* A book of market/orderbook.py as a record: the size at every price of   *)
(* each side, and the best bid and ask, kept up to date delta by delta.    *)
(* Grid are the price levels of the market, built from its price ranges.   *)
(* The exchange sends sizes that are not negative, at prices of the grid.  *)
(***************************************************************************)
EXTENDS Price

CONSTANTS
  Grid,
  MaxSize         \* bound: contracts at a price

ASSUME GridAssumption ==
  OneDollar \in Nat /\ Grid \subseteq Prices /\ MaxSize \in Nat

(* The last and the first price of a set, None when it is empty.           *)
(* Faulty: no level is one past the last.                                  *)
LowestOrPast(S) ==
  IF S = {} THEN OneDollar + 1 ELSE CHOOSE p \in S : \A q \in S : p <= q

Highest(S) == IF S = {} THEN NoPrice ELSE CHOOSE p \in S : \A q \in S : q <= p
Lowest(S)  == IF S = {} THEN NoPrice ELSE CHOOSE p \in S : \A q \in S : p <= q

Offered(levels) == {p \in Prices : levels[p] > 0}

FromSnapshot(bids, asks) ==
  [bids |-> bids, asks |-> asks,
   bestBid |-> Highest(Offered(bids)), bestAsk |-> Lowest(Offered(asks))]

(* The next bid below a price: the levels of the grid are looked at.       *)
FindNextBid(bids, price) == Highest({p \in Grid : p < price /\ bids[p] > 0})

FindNextAsk(asks, price) == Lowest({p \in Grid : price < p /\ asks[p] > 0})

(* The best bid after the size at a price has changed.                     *)
UpdateBestBid(best, bids, price, size) ==
  CASE size > 0 -> IF best = NoPrice \/ price > best THEN price ELSE best
    [] size <= 0 -> IF price = best THEN FindNextBid(bids, price) ELSE best

(* Faulty: an emptied best ask is kept.                                    *)
UpdateBestAskKept(best, asks, price, size) ==
  IF size > 0 /\ (best = NoPrice \/ price < best) THEN price ELSE best

UpdateBestAsk(best, asks, price, size) ==
  CASE size > 0 -> IF best = NoPrice \/ price < best THEN price ELSE best
    [] size <= 0 -> IF price = best THEN FindNextAsk(asks, price) ELSE best

(* A delta that would make a level negative raises NegativeLevelError.     *)
ApplyDelta(b, side, price, delta) ==
  IF side = "bid"
  THEN LET size == b.bids[price] + delta
           bids == [b.bids EXCEPT ![price] = size]
       IN  [b EXCEPT !.bids = bids,
                     !.bestBid = UpdateBestBid(b.bestBid, bids, price, size)]
  ELSE LET size == b.asks[price] + delta
           asks == [b.asks EXCEPT ![price] = size]
       IN  [b EXCEPT !.asks = asks,
                     !.bestAsk = UpdateBestAsk(b.bestAsk, asks, price, size)]

SizeAfter(b, side, price, delta) ==
  (IF side = "bid" THEN b.bids[price] ELSE b.asks[price]) + delta

(* What a snapshot may hold: sizes at prices of the grid.                  *)
Levels == [Prices -> 0..MaxSize]
OnGrid(levels) == Offered(levels) \subseteq Grid
=============================================================================
