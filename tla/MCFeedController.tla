--------------------------- MODULE MCFeedController ---------------------------
(* A small instance of FeedController: two markets on two channels, asked  *)
(* for alone or together.                                                  *)
EXTENDS FeedController

CONSTANTS M1, M2

TwoMarkets == {M1, M2}
BookFill   == {"orderbook_delta", "fill"}
AloneOrBoth == {<<"orderbook_delta">>, <<"fill">>, <<"orderbook_delta", "fill">>}
=============================================================================
