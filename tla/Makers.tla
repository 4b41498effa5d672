-------------------------------- MODULE Makers --------------------------------
(***************************************************************************)
(* The market makers of strategy/: what each wants to rest for a touch t   *)
(* (best bid and ask, None when a side is empty, and the sizes there) and  *)
(* a position.  One strategy runs at a time, so the parameters they share  *)
(* have one value.  What horizon estimates from past mids                  *)
(* (market/dynamics.py) is e: the move expected while a quote rests and    *)
(* the risk of inventory, in ticks; both may be anything.                  *)
(***************************************************************************)
EXTENDS Fees, BookLevels, Sequences, FiniteSets

CONSTANTS
  Count, MaxPosition, MinCount, MinTopSize,       \* count, max_position, min_count,
                                                  \* min_top_size
  MinProfitEdge, MaxSpread, MaxQuoteAway,         \* in ticks
  InventorySkew, PenaltyBps, LiquidityBps,        \* inventory_size_penalty_bps,
                                                  \* liquidity_fraction_bps
  Bps,                                            \* BPS_SCALE
  AdverseMove, TrendLookback, ObiSkew,            \* adaptive
  AdverseBps, VolReference, EdgeRamp,             \* horizon: adverse_selection_bps,
                                                  \* vol_reference_ticks, edge_ramp_ticks
  FlattenSeconds, ReduceOnlySeconds, StopQuotingSeconds

ASSUME MakersAssumption ==
  /\ Count \in Nat \ {0} /\ MaxPosition \in Nat /\ MinCount \in Nat \ {0}
  /\ Bps \in Nat \ {0} /\ TrendLookback \in Nat \ {0, 1} /\ FlattenSeconds \in Nat \ {0}
  /\ EdgeRamp \in Nat \ {0} /\ VolReference \in Nat \ {0}
  /\ MinProfitEdge \in Int /\ AdverseBps \in Int /\ InventorySkew \in Int /\ ObiSkew \in Int
  /\ PenaltyBps \in Nat /\ LiquidityBps \in Nat /\ MaxQuoteAway \in Nat
  /\ MinTopSize \in Int /\ MaxSpread \in Int
  /\ StopQuotingSeconds \in Nat /\ ReduceOnlySeconds \in Nat

Lesser(a, b)  == IF a <= b THEN a ELSE b
Greater(a, b) == IF a >= b THEN a ELSE b
Clamp(n, low, high) == Lesser(Greater(n, low), high)
Magnitude(n) == IF n < 0 THEN -n ELSE n

(* int(n / d) and round(n / d) of Python, d positive.                      *)
Truncate(n, d) == IF n < 0 THEN -((-n) \div d) ELSE n \div d
Round(n, d) ==
  LET low == n \div d
      twice == 2 * (n - low * d)
  IN  IF twice < d \/ (twice = d /\ low % 2 = 0) THEN low ELSE low + 1

None == -1     \* no close time is known
TwoSided(t) == t.bid # NoPrice /\ t.ask # NoPrice /\ t.bid < t.ask
Mid(t)      == (t.bid + t.ask) \div 2
TopSize(t, action) == IF action = "buy" THEN t.bidSize ELSE t.askSize

FloorLevel(price) == Highest({p \in Grid : p <= price})
CeilLevel(price)  == Lowest({p \in Grid : p >= price})

Intent(quote, action, price, count) ==
  [quote |-> quote, ticker |-> "M", contract |-> action, price |-> price, count |-> count]

Signed(action, n) == IF action = "buy" THEN n ELSE -n

(* Faulty: the room is the limit, whatever is held.                        *)
WholeLimit(action, position) == MaxPosition

Capacity(action, position) == MaxPosition - Signed(action, position)

(* The size left after the penalty for adding to a position.               *)
Penalized(count, action, position) ==
  LET adding == Signed(action, position)
  IN  IF MaxPosition = 0 \/ PenaltyBps = 0 \/ adding <= 0 THEN count
      ELSE (count * (Bps - Lesser(Bps, (PenaltyBps * adding) \div MaxPosition))) \div Bps

-----------------------------------------------------------------------------
Dumb(t, position) ==
  {Intent(a, a, IF a = "buy" THEN t.bid ELSE t.ask, Count) :
     a \in {b \in {"buy", "sell"} : TwoSided(t) /\ Signed(b, position) + Count <= MaxPosition}}

-----------------------------------------------------------------------------
(* adaptive.  mids are the last mids it has seen, this one included.       *)
RecordMid(mids, t) ==
  LET all == Append(mids, Mid(t))
  IN  IF Len(all) > TrendLookback THEN Tail(all) ELSE all

Trend(mids) == IF Len(mids) = TrendLookback THEN mids[Len(mids)] - mids[1] ELSE 0

Blocked(action, mids) == AdverseMove > 0 /\ -Signed(action, Trend(mids)) >= AdverseMove

ObiShift(t) ==
  IF t.bidSize + t.askSize <= 0 THEN 0
  ELSE Round(ObiSkew * (t.bidSize - t.askSize), t.bidSize + t.askSize)

InventoryOffset(position) ==
  IF MaxPosition = 0 \/ InventorySkew = 0 THEN 0
  ELSE (Clamp(position, -MaxPosition, MaxPosition) * InventorySkew) \div MaxPosition

(* Faulty: the quote goes where the limit is, whatever the touch.          *)
AdaptiveAtLimit(t, action, limit) == IF action = "buy" THEN FloorLevel(limit) ELSE CeilLevel(limit)

AdaptivePrice(t, action, limit) ==
  LET price == IF action = "buy" THEN FloorLevel(Lesser(t.bid, limit))
                                 ELSE CeilLevel(Greater(t.ask, limit))
      away  == IF action = "buy" THEN t.bid - price ELSE price - t.ask
  IN  IF price # NoPrice /\ away <= MaxQuoteAway THEN price ELSE NoPrice

AdaptiveCount(t, action, position) ==
  LET least   == Lesser(MinCount, Count)
      offered == (TopSize(t, action) * LiquidityBps) \div Bps
      desired == Penalized(Lesser(Count, Greater(least, offered)), action, position)
      count   == Lesser(desired, Capacity(action, position))
  IN  IF TopSize(t, action) < MinTopSize \/ count < least THEN 0 ELSE count

Adaptive(t, position, mids) ==
  LET reservation == Clamp(Mid(t) + ObiShift(t) - InventoryOffset(position), 0, OneDollar)
      edge == MinProfitEdge + EdgeTicks(Mid(t), TRUE)
      price(a) == AdaptivePrice(t, a, reservation - Signed(a, edge))
      count(a) == AdaptiveCount(t, a, position)
  IN  {Intent(a, a, price(a), count(a)) :
         a \in {b \in {"buy", "sell"} :
                  /\ TwoSided(t) /\ t.ask - t.bid <= MaxSpread
                  /\ price(b) # NoPrice /\ ~Blocked(b, mids) /\ count(b) > 0}}

-----------------------------------------------------------------------------
(* horizon, with left seconds to the close.                                *)
Microprice(t) ==
  IF t.bidSize + t.askSize <= 0 THEN Mid(t)
  ELSE (t.bidSize * t.ask + t.askSize * t.bid) \div (t.bidSize + t.askSize)

Reservation(t, position, e) ==
  LET held   == Clamp(position, -MaxPosition, MaxPosition)
      offset == IF MaxPosition = 0 THEN 0
                ELSE Truncate(held * (InventorySkew + e.risk), MaxPosition)
  IN  Clamp(Microprice(t) - offset, 0, OneDollar)

RequiredEdge(t, e) ==
  MinProfitEdge + EdgeTicks(Mid(t), FALSE) + (AdverseBps * e.move) \div Bps

HorizonPrice(t, action, reservation, edge) ==
  LET price == IF action = "buy" THEN FloorLevel(Lesser(reservation - edge, t.ask - 1))
                                 ELSE CeilLevel(Greater(reservation + edge, t.bid + 1))
      away  == IF action = "buy" THEN t.bid - price ELSE price - t.ask
  IN  IF price = NoPrice \/ away > MaxQuoteAway THEN NoPrice ELSE price

Ramped(ceiling, surplus) ==
  IF surplus <= 0 THEN MinCount
  ELSE MinCount + Truncate((ceiling - MinCount) * Lesser(surplus, EdgeRamp), EdgeRamp)

(* The tapers for volatility and for the time left.                        *)
TaperedDown(n, left, e) ==
  LET calm == (n * VolReference) \div (VolReference + e.move)
  IN  IF left = None \/ left >= FlattenSeconds THEN calm
      ELSE IF left <= 0 THEN 0 ELSE (calm * left) \div FlattenSeconds

Tapered(n, left, e) ==
  IF n >= MinCount THEN Greater(TaperedDown(n, left, e), MinCount) ELSE TaperedDown(n, left, e)

Room(action, position, reduceOnly) ==
  IF reduceOnly THEN Lesser(Capacity(action, position), Magnitude(position))
                ELSE Capacity(action, position)

HorizonCount(t, action, position, surplus, left, e, reduceOnly) ==
  LET offered == (TopSize(t, action) * LiquidityBps) \div Bps
      ceiling == Lesser(Count, Greater(MinCount, offered))
      desired == Penalized(Tapered(Ramped(ceiling, surplus), left, e), action, position)
      count   == Lesser(Lesser(desired, Room(action, position, reduceOnly)), ceiling)
  IN  IF TopSize(t, action) < MinTopSize \/ count < MinCount THEN 0 ELSE count

Increases(action, position) == position = 0 \/ Signed(action, position) > 0

Viable(price, captured, count) ==
  MinimumViableCount(price, captured, count, FALSE) # NoCount

(* The quote of one side, or none.                                         *)
BuildQuote(t, action, position, left, e, reduceOnly) ==
  LET reservation == Reservation(t, position, e)
      edge     == RequiredEdge(t, e)
      price    == HorizonPrice(t, action, reservation, edge)
      captured == Signed(action, reservation - price)
      touch    == IF action = "buy" THEN t.bid ELSE t.ask
      count    == HorizonCount(t, action, position, Signed(action, reservation - touch) - edge,
                               left, e, reduceOnly)
  IN  IF price = NoPrice \/ captured <= 0 \/ count <= 0 \/ ~Viable(price, captured, count)
      THEN {} ELSE {Intent(action, action, price, count)}

PastStop(left)     == left # None /\ left <= StopQuotingSeconds
IsReduceOnly(left) == left # None /\ left <= ReduceOnlySeconds

FlattenIntents(t, position) ==
  IF position = 0 THEN {}
  ELSE {Intent("flatten", IF position > 0 THEN "sell" ELSE "buy",
               IF position > 0 THEN t.bid ELSE t.ask, Magnitude(position))}

Horizon(t, position, left, e) ==
  IF ~TwoSided(t) THEN {}
  ELSE IF PastStop(left) THEN FlattenIntents(t, position)
  ELSE IF t.ask - t.bid > MaxSpread THEN {}
  ELSE UNION {BuildQuote(t, a, position, left, e, IsReduceOnly(left)) :
                a \in {b \in {"buy", "sell"} : ~(IsReduceOnly(left) /\ Increases(b, position))}}
=============================================================================
