----------------------------- MODULE MCBacktest ------------------------------
(* Finite instances of Backtest: a market of two prices with a gap in the   *)
(* grid, a bid that is repriced and resized, and an offer.                 *)
EXTENDS Backtest

Q(quote, contract, price, count) ==
  [quote |-> quote, ticker |-> "M1", contract |-> contract,
   price |-> price, count |-> count]

AllModels == {"optimistic", "pessimistic", "queue"}
TwoPrices == {1, 3}
BidAndAsk == {Q("bid", "buy", 1, 2), Q("bid", "buy", 3, 1), Q("ask", "sell", 3, 2)}
=============================================================================
