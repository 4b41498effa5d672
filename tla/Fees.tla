--------------------------------- MODULE Fees ---------------------------------
(***************************************************************************)
(* The fee schedule of market/fees.py.  Prices are ticks, OneDollar of them *)
(* to the dollar; money is ticks times count units; the rounding of every  *)
(* division is the code's.                                                 *)
(***************************************************************************)
EXTENDS Price

CONSTANTS
  CountScale,      \* count units of one contract
  TradingFeeBps,   \* KalshiFeeModel.trading_fee_bps
  FeeBpsScale,     \* BPS_SCALE of fees.py
  MakerFee,        \* maker_fee_per_contract_micros
  ChargeMakers,    \* charge_makers_taker_rate
  FeeTick          \* what a fee is rounded up to, FEE_ROUNDING_MICROS

ASSUME FeeAssumption ==
  /\ OneDollar \in Nat \ {0} /\ CountScale \in Nat \ {0}
  /\ TradingFeeBps \in Nat /\ FeeBpsScale \in Nat \ {0}
  /\ MakerFee \in Nat /\ ChargeMakers \in BOOLEAN
  /\ FeeTick \in Nat \ {0}

CeilDiv(n, d) == (n + d - 1) \div d

CeilTo(n, tick) == CeilDiv(n, tick) * tick

Formula(price, count) ==
  (TradingFeeBps * count * price * (OneDollar - price)) \div (FeeBpsScale * OneDollar)

(* The fee of one order: rounded up once, whatever the pieces it fills in.  *)
FeeMicros(price, count, taker) ==
  IF count <= 0 THEN 0
  ELSE CeilTo(IF taker \/ ChargeMakers THEN Formula(price, count)
              ELSE (MakerFee * count) \div CountScale, FeeTick)

(* The edge per contract that pays one side's fee, its rounding left out.   *)
EdgeTicks(price, taker) ==
  IF TradingFeeBps = 0 THEN 0
  ELSE IF taker \/ ChargeMakers
       THEN CeilDiv(TradingFeeBps * price * (OneDollar - price), OneDollar * FeeBpsScale)
       ELSE CeilDiv(MakerFee, CountScale)

RoundTrip(price, count) ==
  FeeMicros(price, count, FALSE) + FeeMicros(price, count, TRUE)

Required(price, count, both) ==
  IF both THEN RoundTrip(price, count) ELSE FeeMicros(price, count, FALSE)

NoCount == -1     \* Python's None

(* The first whole number of contracts whose edge pays the fees.            *)
MinimumViableCount(price, edge, maxCount, both) ==
  LET sizes == {n \in 1..maxCount : n % CountScale = 0 /\ edge * n >= Required(price, n, both)}
  IN  IF edge <= 0 \/ sizes = {} THEN NoCount
      ELSE CHOOSE n \in sizes : \A k \in sizes : n <= k

BreakevenEdge(price, count) ==
  IF count <= 0 THEN 0 ELSE CeilDiv(RoundTrip(price, count), count)
=============================================================================
