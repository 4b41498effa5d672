----------------------------- MODULE MCWorkbench ------------------------------
(* A small instance of Workbench.                                            *)
EXTENDS Workbench

Under == -1

MCTabSets == {{"live", "trade"}, {"record"}, {"replay"}}
MCTargets == {<<>>, <<"a">>}
MCSweeps == {<<>>, <<"k", "l">>}
MCEventPages ==
  LET twoSides(bid, ask, atBid) == [yes |-> bid :> atBid @@ (bid - 10) :> 50, no |-> (1000 - ask) :> 7]
      aMarket(t, s, c, bid, ask, v, life, atBid) ==
        [ticker |-> t, series |-> s, combo |-> c, bid |-> bid, ask |-> ask,
         volume |-> v, lifetime |-> life, book |-> twoSides(bid, ask, atBid)]
  IN  {<<>>,
       <<<<aMarket("c", "m", TRUE, 490, 500, 99, 99, 5), aMarket("a", "k", FALSE, 480, 490, 9, 9, 5)>>,
         <<aMarket("b", "k", FALSE, 480, 510, 20, 20, 60), aMarket("d", "l", FALSE, 995, 1000, 99, 99, 1)>>>>,
       <<<<aMarket("a", "l", FALSE, 950, 970, 0, 3, 5), aMarket("b", "k", FALSE, 500, 530, 1, 8, 5)>>>>}
MCOutcomes ==
  {[value |-> 1, position |-> 1, fills |-> 1], [value |-> 1, position |-> 0, fills |-> 3]}
MCAccounts ==
  LET settings(count, limit, threshold, balance, execution) ==
        [count |-> count, limit |-> limit, threshold |-> threshold, balance |-> balance,
         execution |-> execution]
  IN  {settings(3, 2, 100, <<>>, TRUE), settings(9, 1, 0, <<>>, TRUE),
       settings(1, 1, 50, <<300>>, TRUE), settings(3, 3, 50, <<>>, FALSE)}
MCSpace == <<<<15, 25, 15>>, <<7>>>>
MCLibrary == <<"monday", "tuesday", "wednesday", "thursday">>
MCGains == {Under, 0, 3}

MCFamily == <<"w", "s">>
MCArms == <<"a", "b">>
MCFamilyPools == [x |-> <<"x1", "x2", "x3">>, y |-> <<"y1", "y2">>]
MCFamilyOrder == <<"x", "y">>
MCSeeds == [x |-> 1, y |-> 2]
Offer(ticker, volume, quoted) == [ticker |-> ticker, volume |-> volume, quoted |-> quoted]
MCOffers ==
  {<<Offer("t", 5, TRUE), Offer("u", 9, FALSE), Offer("t", 5, TRUE)>>,
   <<Offer("t", 5, TRUE), Offer("u", 9, TRUE), Offer("v", 7, TRUE), Offer("u", 1, TRUE)>>}
MCSettled ==
  [i \in 1..6 |-> [traded |-> i \notin {3, 6}, recent |-> i < 5]]
MCListings ==
  LET other(name, bid, ask, volume, ranges) ==
        [ticker |-> <<name, "day">>, bid |-> bid, ask |-> ask, volume |-> volume, left |-> 99,
         ranges |-> ranges]
      tapered == <<[low |-> 0, high |-> 1, step |-> 0], [low |-> 0, high |-> 2, step |-> 1]>>
  IN  {{}, {other("d", 1, 2, 9, tapered), other("e", 0, 2, 9, <<>>), other("f", 2, 4, 1, <<>>),
            other("g", 2, 6, 9, tapered)},
       {other("d", 2, 3, 9, tapered), other("h", 2, 4, 9, tapered)}}
MCFeeTicks == [m \in 0..9 |-> IF m < 2 THEN 1 ELSE 3]
MCPolledBooks == [yes : [1..2 -> 0..1], no : [1..2 -> 0..1]]

Touch(bid, ask, bidSz, askSz) == [bid |-> bid, ask |-> ask, bidSz |-> bidSz, askSz |-> askSz]
MCCloses == [x |-> 4, y |-> 7]
MCTouches == {Touch(2, 3, 20, 1), Touch(2, 3, 1, 1)}
MCKept ==
  {Touch(3, 4, 20, 1), Touch(3, 4, 18, 2), Touch(4, 5, 2, 2),
   Touch(96, 97, 1, 20), Touch(0, 4, 0, 2)}
MCBands == <<[lo |-> 0, hi |-> 2], [lo |-> 5, hi |-> 9], [lo |-> 9, hi |-> 11]>>
MCPriceBands == <<[lo |-> 0, hi |-> 3], [lo |-> 3, hi |-> 6]>>
MCCrossShare == [v |-> 9, w |-> 4]
MCPeriods == [in |-> [from |-> 0, to |-> 2], oos |-> [from |-> 2, to |-> 9]]
MCFilters == {[size |-> 0, phase |-> <<>>, side |-> <<>>],
              [size |-> 2, phase |-> <<0, 9>>, side |-> <<>>],
              [size |-> 0, phase |-> <<>>, side |-> <<FALSE>>]}
MCPTable ==
  <<[above |-> 0, p |-> 500], [above |-> 1, p |-> 300], [above |-> 3, p |-> 80], [above |-> 4, p |-> 40]>>
Trigger(utc, ticker, buy, entry, bid, ask, size) ==
  [utc |-> utc, ticker |-> ticker, venue |-> IF ticker = "other" THEN "w" ELSE "v", buy |-> buy,
   entry |-> entry, band |-> 1, crossable |-> size, left |-> IF buy THEN <<utc>> ELSE <<>>,
   h |-> <<[bid |-> bid, ask |-> ask, after |-> <<bid + ask + 1>>],
           [bid |-> 2, ask |-> 3, after |-> <<>>]>>]
MCCacheRows ==
  {Trigger(1, "first", TRUE, 1, 2, 3, 5),
   Trigger(1, "second", FALSE, 4, 2, 3, 1), Trigger(1, "other", TRUE, 2, 1, 3, 5),
   Trigger(2, "third", TRUE, 1, 1, 2, 5), Trigger(3, "second", TRUE, 2, 1, 2, 5)}
MCFillKinds ==
  LET fill(buying, price, taker, told, written) ==
        [buying |-> buying, price |-> price, taker |-> taker, told |-> told, written |-> written]
  IN  {fill(TRUE, 4, FALSE, TRUE, TRUE), fill(FALSE, 6, FALSE, FALSE, TRUE),
       fill(TRUE, 6, TRUE, TRUE, TRUE), fill(FALSE, 4, FALSE, FALSE, FALSE)}
MCLeans == {90, -20}
MCOffsets == {Under, 0, 1}
MCBuckets == <<[lower |-> 0, upper |-> 2], [lower |-> 2, upper |-> 9]>>
Filled(id, ticker, at, by, price, count, mid) ==
  [id |-> id, ticker |-> ticker, at |-> at, by |-> by, price |-> price, count |-> count, mid |-> mid]
MidSeries(before, after) == <<[at |-> 0, mid |-> before], [at |-> 3, mid |-> after]>>
MCResults ==
  {[fills |-> <<>>, series |-> [x |-> MidSeries(5, 5)], orders |-> 0],
   [fills |-> <<Filled(1, "x", 1, 1, 4, 2, 5), Filled(2, "x", 1, -1, 6, 1, 5), Filled(3, "x", 2, 1, 6, 1, 5)>>,
    series |-> [x |-> MidSeries(5, 5)], orders |-> 9],
   [fills |-> <<Filled(1, "y", 1, 1, 3, 2, 5), Filled(2, "x", 1, 1, 4, 1, 5), Filled(4, "y", 0, -1, 7, 3, 0)>>,
    series |-> [x |-> MidSeries(5, 3), y |-> MidSeries(5, 8)], orders |-> 3],
   [fills |-> <<Filled(5, "z", 1, 1, 3, 2, 5), Filled(6, "z", 1, 1, 2, 1, 5), Filled(7, "z", 1, 1, 4, 3, 5)>>,
    series |-> [z |-> MidSeries(5, 1)], orders |-> 4],
   [fills |-> <<Filled(5, "w", 1, 1, 1, 2, 5), Filled(9, "w", 2, 1, 1, 2, 5)>>,
    series |-> [w |-> MidSeries(5, 2)], orders |-> 40]}
MCVolumes == {<<>>, [x |-> 50, y |-> 9], [x |-> 60, z |-> 120],
              [x |-> 900, y |-> 0, z |-> 700]}
LivePaid(maker, count, paid) == [maker |-> maker, count |-> count, fee |-> paid]
MCLive ==
  {<<>>, <<LivePaid(TRUE, 1, 0)>>, <<LivePaid(TRUE, 1, 0), LivePaid(FALSE, 2, 5), LivePaid(TRUE, 2, 0)>>,
   <<LivePaid(TRUE, 1, Under), LivePaid(TRUE, 2, 1)>>, <<LivePaid(TRUE, 1, 0), LivePaid(TRUE, 2, 1)>>}
MCMinSamples ==
  [maker_fee |-> 2, spread_capture |-> 3, participation |-> 2, edge_cap |-> 3, fill_rate |-> 4]
=============================================================================
