------------------------------ MODULE Orderbook ------------------------------
(***************************************************************************)
(* One order book of market/orderbook.py under any deltas.                 *)
(***************************************************************************)
EXTENDS BookLevels

VARIABLE book

Init == \E bids, asks \in Levels :
          OnGrid(bids) /\ OnGrid(asks) /\ book = FromSnapshot(bids, asks)

Delta(side, price, delta) ==
  /\ SizeAfter(book, side, price, delta) \in 0..MaxSize
  /\ book' = ApplyDelta(book, side, price, delta)

Next == \E side \in {"bid", "ask"}, price \in Grid, delta \in (-MaxSize)..MaxSize :
          Delta(side, price, delta)

Spec == Init /\ [][Next]_book

-----------------------------------------------------------------------------
TypeOK ==
  /\ book \in [bids : Levels, asks : Levels,
               bestBid : Prices \cup {NoPrice}, bestAsk : Prices \cup {NoPrice}]
  /\ OnGrid(book.bids) /\ OnGrid(book.asks)

(* A book that has followed any deltas is the book a snapshot of the same  *)
(* levels would have given: the best prices, moved one at a time, are those *)
(* of the levels.                                                          *)
DeltasAgreeWithSnapshot == book = FromSnapshot(book.bids, book.asks)
=============================================================================
