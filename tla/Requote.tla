------------------------------- MODULE Requote -------------------------------
(***************************************************************************)
(* The requote policy of strategy/requote.py: when a resting order gives   *)
(* up its place in the queue for the quote the strategy wants now.         *)
(*                                                                         *)
(* A resting order is a record with fields quote, ticker, contract, price  *)
(* and rem; an intent has count in place of rem.  "contract" stands for    *)
(* the pair (action, side).                                                *)
(***************************************************************************)
EXTENDS Integers

CONSTANTS
  PriceThreshold,     \* RequotePolicy.price_change_threshold, in ticks
  SizeThresholdBps,   \* RequotePolicy.size_change_threshold_bps
  MinOrderRest        \* RequotePolicy.min_order_rest_seconds

ASSUME PolicyAssumption ==
  /\ PriceThreshold \in Nat
  /\ SizeThresholdBps \in Nat
  /\ MinOrderRest \in Nat

BpsScale == 10000

Distance(a, b) == IF a >= b THEN a - b ELSE b - a

SameQuoteContract(o, i) ==
  /\ o.quote = i.quote
  /\ o.ticker = i.ticker
  /\ o.contract = i.contract

QuoteMatches(o, i) ==
  /\ SameQuoteContract(o, i)
  /\ o.price = i.price
  /\ o.rem = i.count

SizeChangeBps(current, target) ==
  LET denominator == IF current >= target THEN current ELSE target
  IN  IF denominator <= 0 THEN 0
      ELSE (Distance(target, current) * BpsScale) \div denominator

IsMaterial(delta, threshold) == delta > 0 /\ delta >= threshold

ForcesRequote(delta, threshold) == threshold > 0 /\ delta >= threshold * 2

ShouldReplace(o, i, now, createdAt) ==
  LET priceChange == Distance(i.price, o.price)
  IN  \/ ~SameQuoteContract(o, i)
      \/ /\ ~QuoteMatches(o, i)
         /\ \/ IsMaterial(priceChange, PriceThreshold)
            \/ IsMaterial(SizeChangeBps(o.rem, i.count), SizeThresholdBps)
         /\ \/ now - createdAt >= MinOrderRest
            \/ ForcesRequote(priceChange, PriceThreshold)
=============================================================================
