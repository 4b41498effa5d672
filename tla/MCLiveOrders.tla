----------------------------- MODULE MCLiveOrders -----------------------------
(* A finite instance of LiveOrders: a bid, its repricing to a smaller size  *)
(* and an offer in one market, and a second market to sweep.               *)
EXTENDS LiveOrders

Q(quote, contract, price, count) ==
  [quote |-> quote, ticker |-> "M1", contract |-> contract,
   price |-> price, count |-> count]

BidAndOffer ==
  {Q("bid", "buyYes", 50, 2), Q("bid", "buyYes", 52, 1), Q("ask", "sellYes", 60, 1)}
BothTickers == {"M1", "M2"}
=============================================================================
