----------------------------- MODULE SimPortfolio -----------------------------
(***************************************************************************)
(* The fills of a backtest and the account they are booked in.             *)
(***************************************************************************)
EXTENDS Fees, FiniteSetsExt

CONSTANTS
  TradeNum, TradeDen   \* trade_fraction = TradeNum / TradeDen

ASSUME TradeFractionAssumption ==
  TradeDen \in Nat \ {0} /\ TradeNum \in 0..TradeDen

-----------------------------------------------------------------------------
(* The three fill models of sim/fills.py: what a simulated order at rest    *)
(* trades when the recorded book changes.  A book b has the best prices    *)
(* after the change; a delta is [side, price, change]; an order o has its  *)
(* contract (the action of a YES order), price and rem.                    *)
Least(a, b) == IF a <= b THEN a ELSE b

NoDelta == [side |-> "none", price |-> 0, change |-> 0]  \* another message

Buys(o)     == o.contract = "buy"
BookSide(o) == IF Buys(o) THEN "bid" ELSE "ask"

IsMarketable(o, b, strict) ==
  IF Buys(o)
  THEN b.bestAsk # NoPrice /\ IF strict THEN b.bestAsk < o.price ELSE b.bestAsk <= o.price
  ELSE b.bestBid # NoPrice /\ IF strict THEN b.bestBid > o.price ELSE b.bestBid >= o.price

WentThrough(o, b, d) ==
  /\ d.change < 0 /\ d.side = BookSide(o)
  /\ IF Buys(o)
     THEN d.price >= o.price /\ (b.bestBid = NoPrice \/ b.bestBid < o.price)
     ELSE d.price <= o.price /\ (b.bestAsk = NoPrice \/ b.bestAsk > o.price)

SameLevelReduction(o, d) ==
  d.change < 0 /\ d.side = BookSide(o) /\ d.price = o.price

AtTouch(o, b) ==
  IF Buys(o) THEN b.bestBid = NoPrice \/ o.price >= b.bestBid
             ELSE b.bestAsk = NoPrice \/ o.price <= b.bestAsk

(* The contracts of o that trade, under each model.                        *)
OptimisticFill(o, b, d) ==
  IF IsMarketable(o, b, FALSE) \/ WentThrough(o, b, d) THEN o.rem
  ELSE IF SameLevelReduction(o, d) THEN Least(o.rem, -d.change)
  ELSE 0

PessimisticFill(o, b, d) ==
  IF IsMarketable(o, b, TRUE) \/ WentThrough(o, b, d) THEN o.rem ELSE 0

-----------------------------------------------------------------------------
(* The queue model.  q is what rests ahead of the order, and the part of a *)
(* unit (in TradeDen-ths) that earlier reductions left over.               *)
Joined(size) == [ahead |-> size, residue |-> 0]

(* Faulty: each reduction is rounded alone, up to one (_fractional_count). *)
ConsumedAlone(q, n) ==
  LET units == (n * TradeNum) \div TradeDen
  IN  [units |-> IF units = 0 THEN 1 ELSE units, residue |-> 0]

ConsumeQueue(q, n) ==
  LET exact == n * TradeNum + q.residue
  IN  [units |-> exact \div TradeDen, residue |-> exact % TradeDen]

(* The queue position after the event, and what the order trades.          *)
QueueStep(o, q, b, d) ==
  LET eaten == ConsumeQueue(q, -d.change)
      moved == [ahead |-> q.ahead - Least(q.ahead, eaten.units), residue |-> eaten.residue]
      left  == eaten.units - Least(q.ahead, eaten.units)
      through == WentThrough(o, b, d)
  IN  IF IsMarketable(o, b, FALSE) THEN [queue |-> q, count |-> o.rem]
      ELSE IF ~SameLevelReduction(o, d)
      THEN [queue |-> q, count |-> IF through /\ q.ahead = 0 THEN o.rem ELSE 0]
      ELSE [queue |-> moved,
            count |-> IF ~AtTouch(o, b) THEN 0
                      ELSE IF left > 0 THEN Least(o.rem, left)
                      ELSE IF through /\ moved.ahead = 0 THEN o.rem ELSE 0]

-----------------------------------------------------------------------------
(* The account, sim/accounting.py: cash net of fees, one market's           *)
(* inventory, and how much of each order has filled, so that the order and  *)
(* not each piece of it is charged.  p is the account, b a book.            *)
Direction(o) == IF Buys(o) THEN 1 ELSE -1

EmptyPortfolio(ids) ==
  [position |-> 0, cash |-> 0, volume |-> 0, fees |-> 0,
   filled |-> [id \in ids |-> 0]]

(* Faulty: every piece of an order is rounded up on its own.               *)
FeePerPiece(already, price, n, taker) == FeeMicros(price, n, taker)

IncrementalFee(already, price, n, taker) ==
  LET more == FeeMicros(price, already + n, taker) - FeeMicros(price, already, taker)
  IN  IF more > 0 THEN more ELSE 0

ApplyFill(p, id, o, n, taker) ==
  LET fee == IncrementalFee(p.filled[id], o.price, n, taker)
  IN  [p EXCEPT !.position = @ + Direction(o) * n,
                !.cash = @ - Direction(o) * o.price * n - fee,
                !.volume = @ + n, !.fees = @ + fee, !.filled[id] = @ + n]

GrossCash(p) == p.cash + p.fees

HasMid(b) == b.bestBid # NoPrice /\ b.bestAsk # NoPrice
Mid(b)    == (b.bestBid + b.bestAsk) \div 2

MarkToMarket(p, b) == p.cash + IF HasMid(b) THEN p.position * Mid(b) ELSE 0

Abs(n) == IF n < 0 THEN -n ELSE n

(* What is taken at each price to unwind a position, best price first:     *)
(* bids from the highest for a long, asks from the lowest for a short.     *)
TakenAt(b, position, price) ==
  LET levels == IF position > 0 THEN b.bids ELSE b.asks
      better == {r \in DOMAIN levels : IF position > 0 THEN r > price ELSE r < price}
      left   == Abs(position) - SumFunctionOnSet(levels, better)
  IN  IF left <= 0 THEN 0 ELSE Least(levels[price], left)

WalkBookExit(b, position) ==
  LET prices == DOMAIN b.bids
      filled == SumFunction([r \in prices |-> TakenAt(b, position, r)])
      paid   == SumFunction([r \in prices |-> r * TakenAt(b, position, r)])
  IN  [filled |-> filled, proceeds |-> IF position > 0 THEN paid ELSE -paid]

(* What the book cannot absorb: a long is worth nothing, a short a dollar. *)
UnfilledValue(position, filled) ==
  IF position < 0 THEN -(Abs(position) - filled) * OneDollar ELSE 0

LiquidationValue(p, b) ==
  LET exit == WalkBookExit(b, p.position)
      fee  == IF exit.filled = 0 THEN 0
              ELSE FeeMicros(Abs(exit.proceeds) \div exit.filled, exit.filled, TRUE)
  IN  IF p.position = 0 THEN p.cash
      ELSE p.cash + exit.proceeds + UnfilledValue(p.position, exit.filled) - fee
=============================================================================
