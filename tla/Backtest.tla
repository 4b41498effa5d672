------------------------------- MODULE Backtest -------------------------------
(***************************************************************************)
(* A replay of sim/backtest.py in one market: every recorded event is      *)
(* applied to the book, then the orders that are due open or end, the fill *)
(* model says what trades, and the strategy's quotes are put in place.     *)
(* Orders and cancels take latency_seconds to arrive.  The task awaits     *)
(* nothing between an event and its quotes; the loops over candidates and  *)
(* intents are steps here, taken in any order.                             *)
(***************************************************************************)
EXTENDS SimPortfolio, BookLevels, Requote

CONSTANTS
  Models,           \* the fill models that may be asked for
  Intents,          \* the QuoteIntents a strategy may ask for
  Latency,          \* latency_seconds
  MinRequote,       \* RequotePolicy.min_requote_seconds
  StartingBalance,  \* starting_balance_cents
  Cent,             \* money units of one cent
  MaxGap,           \* bound: time between two events
  MaxEvents,        \* bound: events of the recording
  MaxOrders         \* bound: orders ever placed

Ids == 1..MaxOrders
Never == -1         \* Python's None for a time

VARIABLES
  model,      \* the fill model of this backtest
  book,       \* controller.orderbooks[ticker]
  events,     \* event_count
  now,        \* offset_seconds of the event
  orders,     \* SimulatedOrderManager.orders: id -> SimulatedOrder
  nextId,     \* _next_order_number
  queue,      \* QueueAwareFillModel._states
  portfolio,  \* SimPortfolio
  lastSync,   \* _last_sync_by_ticker
  pc,         \* event, fills, quotes, place or done
  candidates, \* id -> the count the fill model gives it
  wanted,     \* the intents still to place
  joined,     \* history: id -> the size ahead when the order opened,
  reduced     \* and the reductions of its level since

vars == <<model, book, events, now, orders, nextId, queue, portfolio, lastSync, pc,
          candidates, wanted, joined, reduced>>
history == <<joined, reduced>>

Books == INSTANCE Orderbook

ASSUME BacktestAssumption ==
  /\ Models \subseteq {"optimistic", "pessimistic", "queue"}
  /\ IsFiniteSet(Intents)
  /\ Latency \in Nat /\ MinRequote \in Nat /\ StartingBalance \in Nat
  /\ Cent \in Nat \ {0} /\ MaxGap \in Nat /\ MaxEvents \in Nat /\ MaxOrders \in Nat
  /\ \A i \in Intents : /\ i.contract \in {"buy", "sell"} /\ i.price \in Grid
                        /\ i.count \in Nat \ {0}

-----------------------------------------------------------------------------
Tracked     == DOMAIN orders
IsLive(o)     == o.status \in {"pending_open", "open", "pending_cancel"}
IsFillable(o) == o.status \in {"open", "pending_cancel"} /\ o.rem > 0

FromIntent(i) ==
  [quote |-> i.quote, ticker |-> i.ticker, contract |-> i.contract,
   price |-> i.price, count |-> i.count, rem |-> i.count,
   status |-> "pending_open", created |-> now, active |-> now + Latency,
   canceledAt |-> Never]

IsDue(o, time) == o.status = "pending_open" /\ o.active <= time

EndsBy(o, time) == o.status = "pending_cancel" /\ o.canceledAt <= time

(* _settle_due_orders: one pass of the orders at a time.                   *)
Settled(time) ==
  [id \in Tracked |->
     IF IsDue(orders[id], time) THEN [orders[id] EXCEPT !.status = "open"]
     ELSE IF EndsBy(orders[id], time) THEN [orders[id] EXCEPT !.status = "canceled"]
     ELSE orders[id]]

(* The queue states after on_order_opened and on_order_closed: an order    *)
(* that opens joins behind the size the book shows.                        *)
SizeAt(b, o) == (IF Buys(o) THEN b.bids ELSE b.asks)[o.price]

QueueAfter(os, b) ==
  LET holding == {id \in DOMAIN os : os[id].status \in {"open", "pending_cancel"}}
  IN  IF model # "queue" THEN queue
      ELSE [id \in holding |->
              IF id \in DOMAIN queue THEN queue[id] ELSE Joined(SizeAt(b, os[id]))]

(* cancel_order, which may be asked again of an order already canceling.   *)
Canceled(o) ==
  CASE o.status = "pending_open" \/ Latency = 0 ->
         [o EXCEPT !.status = "canceled", !.canceledAt = now]
    [] OTHER -> [o EXCEPT !.status = "pending_cancel", !.canceledAt = now + Latency]

RequiredCents(contract, price, n) ==
  CeilDiv((IF contract = "buy" THEN price ELSE OneDollar - price) * n, Cent)

(* Faulty: an order that is being canceled holds nothing back.             *)
ReservedForOpen ==
  SumFunction([id \in {k \in Tracked : orders[k].status \in {"pending_open", "open"}} |->
                 RequiredCents(orders[id].contract, orders[id].price, orders[id].rem)])

ReservedRisk ==
  SumFunction([id \in {k \in Tracked : IsLive(orders[k])} |->
                 RequiredCents(orders[id].contract, orders[id].price, orders[id].rem)])

AvailableBalance ==
  LET cents == StartingBalance + (portfolio.cash \div Cent)
  IN  IF cents > 0 THEN cents ELSE 0

ExceedsBalance(i) ==
  ReservedRisk + RequiredCents(i.contract, i.price, i.count) > AvailableBalance

HasMatchingLiveOrder(i) ==
  \E id \in Tracked : /\ IsLive(orders[id]) /\ orders[id].status # "pending_cancel"
                      /\ QuoteMatches(orders[id], i)

-----------------------------------------------------------------------------
(* The replay starts from a snapshot of a market nobody is crossing.        *)
Uncrossed(b) == b.bestBid = NoPrice \/ b.bestAsk = NoPrice \/ b.bestBid < b.bestAsk

Init ==
  /\ model \in Models
  /\ Books!Init /\ Uncrossed(book)
  /\ events = 0 /\ now = 0
  /\ orders = [id \in {} |-> 0] /\ nextId = 1
  /\ queue = [id \in {} |-> Joined(0)]
  /\ portfolio = EmptyPortfolio(Ids)
  /\ lastSync = Never /\ pc = "event"
  /\ candidates = [id \in {} |-> 0] /\ wanted = {}
  /\ joined = [id \in Ids |-> 0] /\ reduced = [id \in Ids |-> 0]

FillOf(o, q, b, d) ==
  CASE model = "optimistic"  -> OptimisticFill(o, b, d)
    [] model = "pessimistic" -> PessimisticFill(o, b, d)
    [] OTHER                 -> QueueStep(o, q, b, d).count

Advanced(q, o, b, d) == IF model = "queue" THEN QueueStep(o, q, b, d).queue ELSE q

Unqueued == Joined(0)
QueueOf(q, id) == IF id \in DOMAIN q THEN q[id] ELSE Unqueued

(* process_market_event up to the fill model's answer; b is the book after  *)
(* the event, d its delta.                                                 *)
Process(b, d, time) ==
  LET settled  == Settled(time)
      q        == QueueAfter(settled, b)
      fillable == {id \in Tracked : IsFillable(settled[id])}
      count(id) == FillOf(settled[id], QueueOf(q, id), b, d)
  IN  /\ events' = events + 1 /\ now' = time
      /\ book' = b
      /\ orders' = settled
      /\ queue' = [id \in DOMAIN q |-> Advanced(q[id], settled[id], b, d)]
      /\ candidates' = [id \in {k \in fillable : count(k) > 0} |-> count(id)]
      /\ joined' = [id \in Ids |-> IF id \in DOMAIN q \ DOMAIN queue THEN q[id].ahead
                                   ELSE joined[id]]
      /\ reduced' = [id \in Ids |->
            reduced[id] + IF id \in fillable /\ SameLevelReduction(settled[id], d)
                          THEN -d.change ELSE 0]

BookEvent(side, price, change, gap) ==
  LET b == ApplyDelta(book, side, price, change)
  IN  /\ pc = "event" /\ events < MaxEvents /\ change # 0
      /\ SizeAfter(book, side, price, change) \in 0..MaxSize
      /\ Uncrossed(b)
      /\ Process(b, [side |-> side, price |-> price, change |-> change], now + gap)
      /\ pc' = "fills"
      /\ UNCHANGED <<nextId, portfolio, lastSync, wanted>>

(* A message of another channel: no ticker is updated, no quotes follow.    *)
OtherEvent(gap) ==
  /\ pc = "event" /\ events < MaxEvents
  /\ Process(book, NoDelta, now + gap)
  /\ pc' = "fillsOnly"
  /\ UNCHANGED <<nextId, portfolio, lastSync, wanted>>

Traded(o, n) ==
  [o EXCEPT !.rem = @ - n, !.status = IF o.rem = n THEN "filled" ELSE @]

Fill(id) ==
  LET n == Least(candidates[id], orders[id].rem)
  IN  /\ pc \in {"fills", "fillsOnly"}
      /\ orders' = [orders EXCEPT ![id] = Traded(orders[id], n)]
      /\ portfolio' = ApplyFill(portfolio, id, orders[id], n,
                                IsMarketable(orders[id], book, model = "pessimistic"))
      /\ queue' = QueueAfter(orders', book)
      /\ candidates' = [k \in DOMAIN candidates \ {id} |-> candidates[k]]
      /\ UNCHANGED <<book, events, now, nextId, lastSync, pc, wanted, history>>

FillsDone ==
  /\ pc \in {"fills", "fillsOnly"} /\ DOMAIN candidates = {}
  /\ pc' = IF pc = "fills" THEN "quotes" ELSE "event"
  /\ UNCHANGED <<book, events, now, orders, nextId, queue, portfolio, lastSync,
                 candidates, wanted, history>>

DistinctQuotes(ws) == \A i, j \in ws : i.quote = j.quote => i = j

CanPlace == lastSync = Never \/ now - lastSync >= MinRequote

(* sync_market_quotes up to its placements.                                *)
Quote(ws) ==
  LET settled == Settled(now)
      live    == {id \in Tracked : IsLive(settled[id])}
      dropped == {id \in live : \A i \in ws : i.quote # settled[id].quote}
      replaced == {id \in live : \E i \in ws : /\ i.quote = settled[id].quote
                     /\ ShouldReplace(settled[id], i, now, settled[id].created)}
      cancel  == dropped \cup IF CanPlace THEN replaced ELSE {}
  IN  /\ pc = "quotes" /\ DistinctQuotes(ws)
      /\ nextId + Cardinality(ws) <= MaxOrders + 1
      /\ orders' = [id \in Tracked |->
                      IF id \in cancel THEN Canceled(settled[id]) ELSE settled[id]]
      /\ queue' = QueueAfter(orders', book)
      /\ wanted' = IF CanPlace THEN ws ELSE {}
      /\ pc' = IF CanPlace THEN "place" ELSE "event"
      /\ UNCHANGED <<book, events, now, nextId, portfolio, lastSync, candidates, history>>

(* place_order: what opens at once joins the queue at once.                 *)
Send(i) ==
  LET o == FromIntent(i)
      placed == [o EXCEPT !.status = IF IsDue(o, now) THEN "open" ELSE @]
  IN  /\ ~HasMatchingLiveOrder(i) /\ ~ExceedsBalance(i)
      /\ orders' = [id \in Tracked \cup {nextId} |-> IF id = nextId THEN placed ELSE orders[id]]
      /\ queue' = QueueAfter(orders', book)
      /\ joined' = [joined EXCEPT ![nextId] = IF nextId \in DOMAIN queue'
                                              THEN queue'[nextId].ahead ELSE @]
      /\ nextId' = nextId + 1 /\ lastSync' = now

LeaveOut(i) ==
  /\ HasMatchingLiveOrder(i) \/ ExceedsBalance(i)
  /\ UNCHANGED <<orders, queue, joined, nextId, lastSync>>

Place(i) ==
  /\ pc = "place" /\ (Send(i) \/ LeaveOut(i))
  /\ wanted' = wanted \ {i}
  /\ UNCHANGED <<book, events, now, portfolio, pc, candidates, reduced>>

PlacingDone ==
  /\ pc = "place" /\ wanted = {} /\ pc' = "event"
  /\ UNCHANGED <<book, events, now, orders, nextId, queue, portfolio, lastSync,
                 candidates, wanted, history>>

(* EOFError: the recording is over.                                        *)
EndOfRecording ==
  /\ pc \in {"event", "done"} /\ pc' = "done"
  /\ UNCHANGED <<book, events, now, orders, nextId, queue, portfolio, lastSync,
                 candidates, wanted, history>>

Step ==
  \/ \E gap \in 0..MaxGap :
       \/ \E side \in {"bid", "ask"}, price \in Grid, change \in (-MaxSize)..MaxSize :
            BookEvent(side, price, change, gap)
       \/ OtherEvent(gap)
  \/ \E id \in DOMAIN candidates : Fill(id)
  \/ FillsDone
  \/ \E ws \in SUBSET Intents : Quote(ws)
  \/ \E i \in wanted : Place(i)
  \/ PlacingDone
  \/ EndOfRecording

Next == Step /\ UNCHANGED model

Spec == Init /\ [][Next]_vars

-----------------------------------------------------------------------------
Filled(id) == IF id \in Tracked THEN orders[id].count - orders[id].rem ELSE 0

TypeOK ==
  /\ Books!TypeOK
  /\ events \in 0..MaxEvents /\ now \in Nat
  /\ nextId \in 1..MaxOrders + 1 /\ Tracked = 1..nextId - 1
  /\ \A id \in Tracked :
       /\ orders[id].status \in {"pending_open", "open", "pending_cancel", "canceled", "filled"}
       /\ orders[id].rem \in 0..orders[id].count
       /\ orders[id].status = "filled" <=> orders[id].rem = 0
  /\ pc \in {"event", "fills", "fillsOnly", "quotes", "place", "done"}
  /\ DOMAIN candidates \subseteq Tracked /\ wanted \subseteq Intents
  /\ lastSync \in Nat \cup {Never}

(* The book the replay trades on never differs from the snapshot of its    *)
(* own levels (market/orderbook.py): best prices that are moved delta by   *)
(* delta do not go stale.                                                  *)
BookAgrees == Books!DeltasAgreeWithSnapshot

(* An order that fills in pieces is never charged more than one order of   *)
(* its size that took liquidity: the rounding up happens once.             *)
FeesRoundedOnce ==
  portfolio.fees <=
    SumFunction([id \in Tracked |-> FeeMicros(orders[id].price, Filled(id), TRUE)])

(* A size whose edge pays the round trip with something to spare leaves     *)
(* every larger size viable: "the surplus is monotone once it turns        *)
(* positive" (market/fees.py:201), which lets _fee_viable_count send its   *)
(* whole count once any smaller one is viable.                             *)
MaxViable == 4 * CountScale
Sizes == {n \in 1..MaxViable : n % CountScale = 0}
Surplus(price, edge, n) == edge * n - RoundTrip(price, n)
ViableStaysViable ==
  events = 0 => \A price \in Grid :
    /\ \A n \in Sizes :
         FeeMicros(price, n, TRUE) < EdgeTicks(price, TRUE) * n + FeeTick
    /\ \A edge \in 1..OneDollar :
         LET first == MinimumViableCount(price, edge, MaxViable, TRUE)
         IN  /\ first # NoCount => BreakevenEdge(price, first) <= edge
             /\ \A n, k \in Sizes :
                  Surplus(price, edge, n) > 0 /\ k > n => Surplus(price, edge, k) >= 0

(* The account is the orders' fills and nothing else: inventory, cash      *)
(* before fees, volume and the per-order counts that fees are charged from *)
(* are what the orders have traded, however their pieces came.             *)
FollowsOrders ==
  /\ portfolio.position = SumFunction([id \in Tracked |-> Direction(orders[id]) * Filled(id)])
  /\ GrossCash(portfolio) =
       -SumFunction([id \in Tracked |-> Direction(orders[id]) * orders[id].price * Filled(id)])
  /\ portfolio.volume = SumFunction([id \in Tracked |-> Filled(id)])
  /\ \A id \in Ids : portfolio.filled[id] = Filled(id)

(* Leaving a position is never worth more than the mark at mid, whatever   *)
(* the depth; with no inventory the two agree (inventory_mark_gap).        *)
LeavingBelowMark ==
  /\ HasMid(book) => LiquidationValue(portfolio, book) <= MarkToMarket(portfolio, book)
  /\ portfolio.position = 0 =>
       LiquidationValue(portfolio, book) = MarkToMarket(portfolio, book)

(* The account is right: what it holds is what was traded, leaving it is   *)
(* never valued above the mark, an order in pieces pays for one rounding   *)
(* up, and a size that pays its fees does so at every larger size.         *)
AccountIsTrue == FollowsOrders /\ FeesRoundedOnce /\ LeavingBelowMark /\ ViableStaysViable

(* The queue model pays for what it gives: an order advances by no more    *)
(* than trade_fraction of what its level lost since it opened, in however  *)
(* small pieces, and what trades is crossed or at the touch of its side.   *)
Better(o) == {r \in Grid : IF Buys(o) THEN r > o.price /\ book.bids[r] > 0
                                      ELSE r < o.price /\ book.asks[r] > 0}
QueuePays ==
  /\ \A id \in DOMAIN queue :
       (joined[id] - queue[id].ahead + Filled(id)) * TradeDen + queue[id].residue
         <= TradeNum * reduced[id]
  /\ model = "queue" => \A id \in DOMAIN candidates :
       IsMarketable(orders[id], book, FALSE) \/ Better(orders[id]) = {}

(* The models bracket the truth: on any book, after any reduction, the     *)
(* optimistic one gives an order at least what each of the others gives.   *)
Reductions == [side : {"bid", "ask"}, price : Grid, change : (-MaxSize)..-1]
Bracketed(o, q, b, d) ==
  /\ PessimisticFill(o, b, d) <= OptimisticFill(o, b, d)
  /\ QueueStep(o, q, b, d).count <= OptimisticFill(o, b, d)
ModelsBracket ==
  pc = "event" => \A d \in Reductions, id \in Tracked :
    IsFillable(orders[id]) => Bracketed(orders[id], QueueOf(queue, id), book, d)

(* Only orders that have arrived and whose cancel has not may trade: the   *)
(* due ones are settled before the fill model sees them.                   *)
OnlyDueOrdersTrade ==
  \A id \in DOMAIN candidates :
    /\ orders[id].active <= now
    /\ orders[id].status = "pending_cancel" => now < orders[id].canceledAt

(* No fill is given away: to an order not yet there or already gone, by    *)
(* the queue, or by one model over the bound.                              *)
FillsAreHonest == OnlyDueOrdersTrade /\ QueuePays /\ ModelsBracket

(* Purchases at rest are covered by the balance: whatever fills, in any    *)
(* order and any pieces, canceled late or not, cash before fees never runs *)
(* below zero.                                                             *)
BuysArePaidFor ==
  StartingBalance * Cent + GrossCash(portfolio) >=
    SumFunction([id \in {k \in Tracked : IsLive(orders[k]) /\ Buys(orders[k])} |->
                   orders[id].price * orders[id].rem])

(* A quote the strategy asks for has one order that is not on its way out: *)
(* "Every replacement cancels a resting order" (strategy/requote.py:25).   *)
OneOrderPerQuote ==
  \A k, l \in {id \in Tracked : orders[id].status \in {"pending_open", "open"}} :
    orders[k].quote = orders[l].quote => k = l
=============================================================================
