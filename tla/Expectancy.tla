------------------------------- MODULE Expectancy -------------------------------
(***************************************************************************)
(* scripts/taker_expectancy.py: the cache that taker_extract wrote is      *)
(* streamed into cells, the best cells of one period are frozen, and       *)
(* another period is asked whether they hold.  Money is counted in halves  *)
(* of a unit, PerTick units a tick, so that a mid is a whole number.  All  *)
(* runs have one table of bands; what is only tabled (the naive error, the *)
(* medians of size and phase, the rate per hour, the bias by lead) is not  *)
(* computed.                                                               *)
(***************************************************************************)
EXTENDS RecordedBooks

CONSTANTS
  CacheRows,      \* bound: rows the cache may have: [utc, ticker, venue, buy, entry, band,
                  \* crossable, left, h]
  FullPrice,      \* ONE_DOLLAR of the rows
  PerTick,        \* what a tick is worth
  FeeRate,        \* a fee is FeeRate * P * (FullPrice - P)
  PriceBands,     \* PRICE_BANDS: [lo, hi]
  CrossShare,     \* CROSS_RATE by venue, in hundredths
  MinTriggers, MinWindows,   \* MIN_TRIGGERS, MIN_WINDOWS: a slice of one window has no error
  Periods,        \* PERIODS: name -> [from, to]
  ShortLeft,      \* 900 seconds to the close
  Filters,        \* --min-size, --phase, --side: [size, phase, side]
  Top,            \* --top
  Error,          \* what squared errors are counted in: parts of a unit
  PTable,         \* norm_sf, tabled: [above, p] of the square of t, p in thousandths
  MaxCached       \* bound: rows of the cache

ASSUME ExpectancyAssumption == MinWindows \in Nat /\ MinWindows >= 2 /\ "all" \notin DOMAIN Periods

VARIABLES
  cache,          \* rows of the cache
  frozen          \* candidate slices on disk, the period and the filter they are of,
                  \* and (history, not in the file) the rows they were taken from

expectancy == <<cache, frozen>>

ExpectancyInit == cache = <<>> /\ frozen = <<>>

-----------------------------------------------------------------------------
(* load.                                                                   *)

FeeOf(price) == FeeRate * price * (FullPrice - price)

LongEquivalent(row) == IF row.buy THEN row.entry ELSE FullPrice - row.entry

(* band_of, of the price of the contract that is held.                     *)
PriceBand(row) ==
  {k \in DOMAIN PriceBands :
     PriceBands[k].lo <= LongEquivalent(row) /\ LongEquivalent(row) < PriceBands[k].hi}

(* --period: one of them, or all there is.                                 *)
Asked == DOMAIN Periods \cup {"all"}
Within(row, name) == name = "all" \/ (Periods[name].from <= row.utc /\ row.utc < Periods[name].to)

Admits(row, name, f) ==
  /\ Within(row, name)
  /\ row.crossable >= f.size
  /\ f.side = <<>> \/ f.side[1] = row.buy
  /\ f.phase = <<>> \/ (row.left # <<>> /\ f.phase[1] <= row.left[1] /\ row.left[1] < f.phase[2])

Loaded(rows, name, f) == SelectSeq(rows, LAMBDA r : Admits(r, name, f))

(* What a trigger makes at a horizon when the exit rested at the touch,    *)
(* when it is marked at the mid, and when it crossed.                      *)
Nets(row, book) ==
  LET signed(x) == IF row.buy THEN x ELSE -x
      touch == IF row.buy THEN book.ask ELSE book.bid
      cross == IF row.buy THEN book.bid ELSE book.ask
      fee == 2 * FeeOf(row.entry)
  IN  [touch |-> signed(2 * (touch - row.entry)) * PerTick - fee,
       mid |-> signed(book.bid + book.ask - 2 * row.entry) * PerTick - fee,
       cross |-> signed(2 * (cross - row.entry)) * PerTick - fee - 2 * FeeOf(cross),
       gross |-> signed(2 * (touch - row.entry)) * PerTick,
       fee |-> fee,
       lookahead |-> IF book.after = <<>> THEN 0
                     ELSE signed(book.after[1] - book.bid - book.ask) * PerTick]

Markets == {r.ticker : r \in CacheRows}
CellKeys ==
  {<<r.venue, r.band, k, h>> : r \in CacheRows, k \in DOMAIN PriceBands, h \in Horizons}

(* A Slice, with what its clusters, one to a market, have of it.           *)
NoTrigger == [n |-> 0, touch |-> 0, gross |-> 0, fee |-> 0]
NoSlice == [n |-> 0, touch |-> 0, mid |-> 0, cross |-> 0, gross |-> 0, fee |-> 0,
            lookahead |-> 0, buys |-> 0, clusters |-> [t \in Markets |-> NoTrigger]]

Add(cell, row, nets) ==
  [n |-> cell.n + 1, touch |-> cell.touch + nets.touch, mid |-> cell.mid + nets.mid,
   cross |-> cell.cross + nets.cross, gross |-> cell.gross + nets.gross,
   fee |-> cell.fee + nets.fee, lookahead |-> cell.lookahead + nets.lookahead,
   buys |-> cell.buys + (IF row.buy THEN 1 ELSE 0),
   clusters |-> [cell.clusters EXCEPT ![row.ticker] =
     [n |-> @.n + 1, touch |-> @.touch + nets.touch, gross |-> @.gross + nets.gross,
      fee |-> @.fee + nets.fee]]]

CellsOf(rows) ==
  FoldLeft(LAMBDA cells, r :
             [k \in CellKeys |->
               IF k[1] = r.venue /\ k[2] = r.band /\ k[3] \in PriceBand(r)
               THEN Add(cells[k], r, Nets(r, r.h[k[4]])) ELSE cells[k]],
           [k \in CellKeys |-> NoSlice], rows)

-----------------------------------------------------------------------------
(* What is made of the cells.                                              *)

ClusterCount(cell) == Cardinality({t \in Markets : cell.clusters[t].n > 0})
Eligible(cell) == cell.n >= MinTriggers /\ ClusterCount(cell) >= MinWindows

OverMarkets(value(_)) == FoldSet(LAMBDA t, sum : sum + value(t), 0, Markets)

(* clustered_se, squared, in parts and rounded down, of two windows or more. *)
SquaredError(cell) ==
  LET off(t) == cell.n * cell.clusters[t].touch - cell.clusters[t].n * cell.touch
      total == OverMarkets(LAMBDA t : off(t) * off(t))
      groups == ClusterCount(cell)
  IN  (Error * groups * total) \div ((groups - 1) * cell.n * cell.n * cell.n * cell.n)

(* More than 1.96 errors; its square is taken as 96 parts of 25.           *)
Beyond(square, squaredError) == 25 * Error * square > 96 * squaredError

Significant(cell) ==
  cell.touch > 0 /\ Beyond(cell.touch * cell.touch, SquaredError(cell) * cell.n * cell.n)

MeanAbove(a, b) == a.touch * b.n > b.touch * a.n

(* blended, times n and a hundred.                                         *)
Blended(venue, cell) == (100 - CrossShare[venue]) * cell.touch + CrossShare[venue] * cell.cross

(* The two-sided p of t, and the largest that survives at a rate of 0.10.  *)
PValue(cell) ==
  LET square == Error * cell.touch * cell.touch
      scale == SquaredError(cell) * cell.n * cell.n
  IN  IF scale = 0 THEN 1000
      ELSE Last(SelectSeq(PTable, LAMBDA e : square >= e.above * scale)).p

BenjaminiHochberg(ps) ==
  LET ordered == SortSeq(ps, <)
      passed == {i \in DOMAIN ordered : 10 * ordered[i] * Len(ps) <= 1000 * i}
  IN  IF passed = {} THEN 0 ELSE ordered[CHOOSE i \in passed : \A j \in passed : j <= i]

(* placebo_means: the gross of whole windows flipped, the same fees paid.  *)
PlaceboSum(cell, signs) ==
  OverMarkets(LAMBDA t : signs[t] * cell.clusters[t].gross)
    - OverMarkets(LAMBDA t : cell.clusters[t].fee)

(* The sign flips under which the best of the slices is as good as the     *)
(* best that was seen, which is among what the draws may be.               *)
Beaten(cells, testable) ==
  LET best == CHOOSE k \in testable : \A j \in testable : ~MeanAbove(cells[j], cells[k])
  IN  {signs \in [Markets -> {-1, 1}] :
         \E k \in testable :
           PlaceboSum(cells[k], signs) * cells[best].n >= cells[best].touch * cells[k].n}

(* summarise: the row of a cell, its means times n; and the report, that   *)
(* leaves out what cannot be tested.                                       *)
Summary(k, cell) ==
  [n |-> cell.n, windows |-> ClusterCount(cell), touch |-> cell.touch, mid |-> cell.mid,
   cross |-> cell.cross, blended |-> Blended(k[1], cell), gross |-> cell.gross, fee |-> cell.fee,
   lookahead |-> cell.lookahead, error |-> SquaredError(cell), p |-> PValue(cell)]

Report(cells) ==
  LET testable == {k \in CellKeys : Eligible(cells[k])}
      rows == [k \in testable |-> Summary(k, cells[k])]
      order == SetToSeq(testable)
      bar == BenjaminiHochberg([i \in DOMAIN order |-> rows[order[i]].p])
  IN  [rows |-> rows,
       suppressed |-> {k \in CellKeys : cells[k].n > 0} \ testable,
       positive |-> {k \in testable : rows[k].touch > 0},
       significant |-> {k \in testable : Significant(cells[k])},
       survivors |-> {k \in testable : bar > 0 /\ rows[k].p <= bar},
       beaten |-> IF testable = {} THEN {} ELSE Beaten(cells, testable)]

(* census, of one of the periods.                                          *)
Census(name) ==
  LET rows == SelectSeq(cache, LAMBDA r : Within(r, name))
  IN  [n |-> Len(rows),
       venues |-> {r.venue : r \in Range(rows)}, markets |-> {r.ticker : r \in Range(rows)},
       short |-> Len(SelectSeq(rows, LAMBDA r : r.left # <<>> /\ r.left[1] <= ShortLeft))]

(* venue_hours_in: the coverage inside a period.                           *)
CoverageIn(spans, from, to) ==
  CoverageSeconds(SelectSeq([i \in DOMAIN spans |-> <<Max({spans[i][1], from}),
                                                      Min({spans[i][2], to})>>],
                            LAMBDA x : x[2] > x[1]))

-----------------------------------------------------------------------------
(* freeze and replicate.                                                   *)

(* taker_extract is run again over more recordings, whose markets come one *)
(* after the other.                                                        *)
CacheGrows ==
  /\ Len(cache) < MaxCached
  /\ \E r \in CacheRows :
       /\ \A i \in DOMAIN cache : cache[i].ticker = r.ticker => cache[i].utc <= r.utc
       /\ cache' = Append(cache, r)
  /\ UNCHANGED frozen

(* A run with --freeze: the cells with the best means, of equal ones any;  *)
(* it writes nothing when no row is kept or no cell can be tested.         *)
Freeze ==
  /\ \E name \in Asked, f \in Filters :
       LET rows == Loaded(cache, name, f)
           cells == CellsOf(rows)
           testable == {k \in CellKeys : Eligible(cells[k])}
       IN  /\ testable # {}
           /\ \E winners \in SUBSET testable :
                /\ Cardinality(winners) = Min({Cardinality(testable), Top})
                /\ \A k \in testable \ winners, w \in winners : ~MeanAbove(cells[k], cells[w])
                /\ frozen' = <<[on |-> name, filter |-> f, from |-> rows,
                                specs |-> {[key |-> k, n |-> cells[k].n, touch |-> cells[k].touch,
                                            error |-> SquaredError(cells[k])] : k \in winners}]>>
  /\ UNCHANGED cache

(* The verdict of a period on a slice.                                     *)
VerdictOn(spec, cell) ==
  LET error == SquaredError(cell)
      apart == spec.touch * cell.n - cell.touch * spec.n
      pooled == (spec.error + error) * (spec.n * cell.n) * (spec.n * cell.n)
      blind == spec.touch < 0 \/ 196 * error * spec.n * spec.n > 25 * Error * spec.touch * spec.touch
  IN  IF ~Eligible(cell) THEN "ABSENT"
      ELSE IF Significant(cell) THEN "HELD"
      ELSE IF pooled > 0 /\ Beyond(apart * apart, pooled) THEN "SMALLER"
      ELSE IF blind THEN "NO POWER" ELSE "CONSISTENT"

(* A run with --replicate, that has a filter of its own and gives up when  *)
(* no row is kept.                                                         *)
Replicated(name, f) ==
  LET rows == Loaded(cache, name, f)
      cells == CellsOf(rows)
  IN  IF rows = <<>> THEN {} ELSE {<<s, VerdictOn(s, cells[s.key])>> : s \in frozen[1].specs}

ExpectancyStep == CacheGrows \/ Freeze
=============================================================================
