----------------------------- MODULE FillEvidence -----------------------------
(***************************************************************************)
(* What is made of fills afterwards.  scripts/gate_dose_study.py reads the *)
(* journal of a live session and the books a collector recorded beside it; *)
(* analytics/markout.py and analytics/performance.py read what a backtest  *)
(* recorded, sim/adverse.py thins its fills, and market/dynamics.py is     *)
(* what a strategy in it knows of the mids; scripts/test_assumptions.py    *)
(* holds what the model of the opportunity assumes against several of      *)
(* them.  All may end after any event, and what is made of them are        *)
(* operators over what was written by then.                                *)
(***************************************************************************)
EXTENDS Integers, FiniteSets, SequencesExt

CONSTANTS
  Mids,            \* the mids a book may have
  FillKinds,       \* bound: the live fills: [buying, price, taker, told, written]
  Leans,           \* the imbalances a collector may see, in hundredths
  Horizon,         \* HORIZON, HORIZON_SECONDS
  MidTolerance,    \* MARKOUT_STALE_TOLERANCE
  ObiTolerance,    \* OBI_SKEW_TOLERANCE
  Offsets,         \* --offsets
  Offset,          \* REPORT_OFFSET
  Thresholds,      \* THRESHOLDS, in hundredths
  MinBucket,       \* MIN_BUCKET
  MarkHorizons,    \* the horizons of compute_markout
  Buckets,         \* the buckets of time to close: [lower, upper], in order
  CloseTime,       \* when the market closes
  VolWindow,       \* vol_window_seconds
  MinVolSamples,   \* min_samples
  KeepNum, KeepDen,    \* favourable_keep_rate = KeepNum / KeepDen
  Lookahead,       \* lookahead_seconds
  EquityEvery,     \* equity_interval_seconds
  Results,         \* bound: what a replay may yield: [fills, series, orders]
  VolumeFiles,     \* bound: --market-volume: ticker -> contracts, or <<>>
  LiveFiles,       \* bound: --fills: [maker, count, fee], or <<>>
  Units,           \* COUNT_SCALE
  MinSamples,      \* min_samples of each assumption
  Tenth,           \* 10: the best and the worst decile
  MaxReplayed,     \* bound: recordings
  MaxLinesWritten, MaxEvents, MaxSeconds      \* bounds: lines, events, time

VARIABLES
  second,          \* the time
  midNow,          \* the mid, or 0 when the book has one side
  journal,         \* the lines of the journal
  obiRows,         \* the collector's rows: time and imbalance
  trulyHeld,       \* history: the position at the exchange
  mids,            \* _SeriesRecorder: offsets and mids
  simFills,        \* the fills of the backtest
  equity,          \* the equity curve
  cash,            \* the cash of the backtest
  simHeld,         \* its position
  drift,           \* history: what the position gained as the mid moved
  lastMid,         \* history: the last mid there was
  replayed,        \* the results of the recordings replayed so far
  given            \* <<[volumes, live]>>: the files read after them, or <<>>

live == <<journal, obiRows, trulyHeld>>
sim == <<mids, simFills, equity, cash, simHeld, drift, lastMid>>
tested == <<replayed, given>>
evidence == <<second, midNow, live, sim, tested>>

EvidenceInit ==
  /\ second = 0 /\ midNow = (CHOOSE m \in Mids : TRUE) /\ journal = <<>> /\ obiRows = <<>> /\ trulyHeld = 0
  /\ mids = <<>> /\ simFills = <<>> /\ equity = <<>> /\ cash = 0 /\ simHeld = 0
  /\ drift = 0 /\ lastMid = midNow /\ replayed = <<>> /\ given = <<>>

SumOf(f(_), seq) == FoldLeft(LAMBDA sum, x : sum + f(x), 0, seq)

SecondPasses(max) == second < max /\ second' = second + 1

-----------------------------------------------------------------------------
(* A live session writes its journal, and a collector its recording.       *)

CanWrite == Len(journal) + Len(obiRows) < MaxLinesWritten

(* record_mid at its cadence, and the mid that goes with an order placed.  *)
WritesMid ==
  /\ CanWrite
  /\ \E kind \in {"mid", "placed"}, m \in Mids :
       journal' = Append(journal, [event |-> kind, at |-> second, mid |-> m])
  /\ UNCHANGED <<obiRows, trulyHeld, second>>

(* A fill: its line has the position after it, or does not, or was lost.   *)
LiveFill ==
  /\ CanWrite
  /\ \E fill \in FillKinds :
       LET by == IF fill.buying THEN 1 ELSE -1
       IN  /\ trulyHeld' = trulyHeld + by
           /\ journal' = Append(journal,
                IF ~fill.written THEN [event |-> "lost", at |-> second]
                ELSE [event |-> "filled", at |-> second, buying |-> fill.buying,
                      price |-> fill.price, taker |-> fill.taker,
                      post |-> IF fill.told THEN <<trulyHeld + by>> ELSE <<>>, before |-> trulyHeld])
  /\ UNCHANGED <<obiRows, second>>

CollectorRow ==
  /\ CanWrite
  /\ \E o \in Leans : obiRows' = Append(obiRows, [at |-> second, obi |-> o])
  /\ UNCHANGED <<journal, trulyHeld, second>>

LiveStep ==
  /\ \/ WritesMid \/ LiveFill \/ CollectorRow
     \/ SecondPasses(MaxSeconds) /\ UNCHANGED live
  /\ UNCHANGED <<midNow, sim, tested>>

-----------------------------------------------------------------------------
(* gate_dose_study.                                                        *)

(* The timelines: the mids at their cadence, or those of orders as well,   *)
(* sorted by time and mid.                                                 *)
Timeline(kinds) ==
  SortSeq(SelectSeq(journal, LAMBDA l : l.event \in kinds),
          LAMBDA a, b : a.at < b.at \/ (a.at = b.at /\ a.mid < b.mid))

(* _markout_at: the last mid by the horizon, when the timeline goes on to  *)
(* the horizon and the mid is recent and after the fill.                   *)
MarkoutAt(series, fill) ==
  LET when == fill.at + Horizon
      past == SelectSeq(series, LAMBDA l : l.at <= when)
  IN  IF /\ series # <<>> /\ when <= Last(series).at /\ past # <<>>
         /\ when - Last(past).at <= MidTolerance /\ Last(past).at > fill.at
      THEN <<[at |-> Last(past).at,
              markout |-> IF fill.buying THEN Last(past).mid - fill.price
                          ELSE fill.price - Last(past).mid]>>
      ELSE <<>>


(* The exchange's own position, when the line has it.                      *)
PositionBefore(fill, position, by) ==
  IF fill.post # <<>> THEN fill.post[1] - by ELSE position

(* load_journals: the fills in order, each with its markout off the first  *)
(* timeline that has one and the position before it.                       *)
LoadedFills ==
  LET raw == SelectSeq(journal, LAMBDA l : l.event = "filled")
      clean == Timeline({"mid"})
      full == Timeline({"mid", "placed"})
  IN  FoldLeft(LAMBDA acc, fill :
        LET by == IF fill.buying THEN 1 ELSE -1
            before == PositionBefore(fill, acc.position, by)
            fromClean == MarkoutAt(clean, fill)
            fromFull == MarkoutAt(full, fill)
            taken == IF fromClean # <<>> THEN fromClean ELSE fromFull
        IN  [position |-> before + by,
             dropped |-> IF taken = <<>> THEN acc.dropped + 1 ELSE acc.dropped,
             fills |-> IF taken = <<>> THEN acc.fills
                       ELSE Append(acc.fills,
                              [at |-> fill.at, buying |-> fill.buying, markout |-> taken[1].markout,
                               sample |-> taken[1].at, clean |-> fromClean, full |-> fromFull,
                               source |-> IF fromClean # <<>> THEN "mid" ELSE "placed",
                               taker |-> fill.taker, decile |-> fill.price,
                               before |-> before, line |-> fill])],
        [position |-> 0, dropped |-> 0, fills |-> <<>>], raw)

(* load_obi: the rows of all recordings, by time and imbalance.            *)
LoadObi == SortSeq(obiRows, LAMBDA a, b : a.at < b.at \/ (a.at = b.at /\ a.obi < b.obi))

(* obi_at and join_obi: the imbalance against a fill, a given time from    *)
(* it, when a row is near.                                                 *)
ObiAt(when) ==
  LET past == SelectSeq(LoadObi, LAMBDA r : r.at <= when)
  IN  IF past # <<>> /\ when - Last(past).at <= ObiTolerance THEN <<Last(past).obi>> ELSE <<>>

(* obi_bucket.                                                             *)
ObiBucket(against) ==
  IF against <= -50 THEN 0
  ELSE 1 + Cardinality({low \in {20, 50, 70, 90, 95} : against >= low})

WithObi(f, obi) ==
  LET against == IF f.buying THEN -obi ELSE obi
  IN  f @@ [against |-> against, bucket |-> ObiBucket(against)]

Joined(offset) ==
  LET fills == LoadedFills.fills
      near == SelectSeq(fills, LAMBDA f : ObiAt(f.at + offset) # <<>>)
  IN  [k \in DOMAIN near |-> WithObi(near[k], ObiAt(near[k].at + offset)[1])]

(* bucket_table: a row of the table for every bucket that has fills, thin  *)
(* ones too.  A mean is a sum and its count.                               *)
BucketTable(rows, key) ==
  [b \in {r[key] : r \in Range(rows)} |->
     LET batch == SelectSeq(rows, LAMBDA r : r[key] = b)
         values == SortSeq([i \in DOMAIN batch |-> batch[i].markout], <)
         n == Len(batch)
     IN  [n |-> n, sum |-> SumOf(LAMBDA x : x, values),
          medianTwice |-> values[(n + 1) \div 2] + values[n \div 2 + 1],
          losing |-> Len(SelectSeq(values, LAMBDA x : x < 0)), thin |-> n < MinBucket]]

(* demean: a markout less the mean of its group, times the scale that      *)
(* makes it a whole number.                                                *)
Demean(rows, key) ==
  LET size(k) == Len(SelectSeq(rows, LAMBDA r : r[key] = k))
      total(k) == SumOf(LAMBDA r : IF r[key] = k THEN r.markout ELSE 0, rows)
      scale == FoldSet(LAMBDA k, product : size(k) * product, 1, {r[key] : r \in Range(rows)})
  IN  [i \in DOMAIN rows |->
         [rows[i] EXCEPT !.markout = @ * scale - total(rows[i][key]) * (scale \div size(rows[i][key]))]]

(* dose_line: the sums and counts of the gap between the fills at or above *)
(* a level and the rest, when there are both.                              *)
DoseLine(rows, level) ==
  LET high == SelectSeq(rows, LAMBDA r : r.against >= level)
      rest == SelectSeq(rows, LAMBDA r : r.against < level)
      gain(batch) == SumOf(LAMBDA r : r.markout, batch)
  IN  IF high = <<>> \/ rest = <<>> THEN <<>>
      ELSE <<[high |-> Len(high), rest |-> Len(rest), gap |-> gain(high) * Len(rest) - gain(rest) * Len(high)]>>

(* sweep: what a veto at a level would have blocked, along the position    *)
(* that it would have left.                                                *)
Sweep(level) ==
  LET rows == SelectSeq(Joined(Offset), LAMBDA r : ~r.taker)
  IN  FoldLeft(LAMBDA acc, row :
        LET increases == IF row.buying THEN acc.position >= 0 ELSE acc.position <= 0
        IN  IF row.against >= level /\ increases
            THEN [acc EXCEPT !.blocked = Append(@, row)]
            ELSE [acc EXCEPT !.kept = Append(@, row),
                             !.position = IF row.buying THEN @ + 1 ELSE @ - 1],
        [position |-> IF rows = <<>> THEN 0 ELSE rows[1].before, blocked |-> <<>>, kept |-> <<>>],
        rows)

(* main: every table of the study, those of the fills that were matched at *)
(* the offset it reports at.                                               *)
Study ==
  LET fills == LoadedFills.fills
      matched == Joined(Offset)
      only(is(_)) == SelectSeq(matched, is)
      paired == SelectSeq(fills, LAMBDA f : f.clean # <<>> /\ f.full # <<>>)
      byObi(rows) == BucketTable(rows, "bucket")
  IN  [bias |-> SumOf(LAMBDA f : f.full[1].markout - f.clean[1].markout, paired),
       takers |-> Len(SelectSeq(fills, LAMBDA f : f.taker)),
       echo |-> [o \in Offsets |-> DoseLine(Joined(o), 90)],
       raw |-> byObi(matched),
       split |-> [source \in {"mid", "placed"} |-> DoseLine(only(LAMBDA r : r.source = source), 90)],
       deciles |-> BucketTable(matched, "decile"),
       roles |-> BucketTable(matched, "taker"),
       controlled |-> byObi(Demean(matched, "decile")),
       sides |-> [buying \in BOOLEAN |-> byObi(only(LAMBDA r : r.buying = buying))],
       swept |-> [v \in Thresholds |-> Sweep(v)]]

-----------------------------------------------------------------------------
(* A backtest records what its reports read.                               *)

(* observe_equity: a point when the last is old enough, marked to the mid. *)
ObserveEquity(money, held, mark) ==
  equity' = IF equity = <<>> \/ second - Last(equity).at >= EquityEvery
            THEN Append(equity, [at |-> second, value |-> money + held * mark]) ELSE equity

(* An event of the feed: the book has another mid or one side, an order    *)
(* fills against it, and the book is observed.                             *)
BookEventAt ==
  /\ Len(mids) + Len(simFills) < MaxEvents
  /\ \E m \in Mids \cup {0}, side \in {-1, 0, 1}, price \in Mids :
       /\ midNow' = m /\ (side = 0 => price = CHOOSE p \in Mids : TRUE)
       /\ lastMid' = IF m = 0 THEN lastMid ELSE m
       /\ drift' = drift + simHeld * (lastMid' - lastMid)
       /\ simHeld' = simHeld + side /\ cash' = cash - side * price
       /\ simFills' = IF side = 0 THEN simFills
                      ELSE Append(simFills, [at |-> second, by |-> side, price |-> price, mid |-> m])
       /\ ObserveEquity(cash', simHeld', lastMid')
       /\ mids' = IF m = 0 THEN mids ELSE Append(mids, [at |-> second, mid |-> m])
  /\ UNCHANGED second

SimStep ==
  /\ \/ BookEventAt
     \/ SecondPasses(MaxSeconds) /\ UNCHANGED <<midNow, sim>>
  /\ UNCHANGED <<live, tested>>

-----------------------------------------------------------------------------
(* The reports of a backtest.                                              *)

Covers(series, when) == series # <<>> /\ when <= Last(series).at

(* mid_at: the mid at that very time, the first of them when there are     *)
(* several, or the last before it.                                         *)
MidAt(series, when) ==
  LET same == SelectSeq(series, LAMBDA x : x.at = when)
      past == SelectSeq(series, LAMBDA x : x.at < when)
  IN  IF same # <<>> THEN <<same[1].mid>> ELSE IF past # <<>> THEN <<Last(past).mid>> ELSE <<>>

(* compute_markout: the fills that can be measured at a horizon.           *)
Measured(fills, h) ==
  SelectSeq(fills, LAMBDA f : Covers(mids, f.at + h) /\ MidAt(mids, f.at + h) # <<>>)
Markout(fills, h) ==
  FoldLeft(LAMBDA sum, f : sum + f.by * (MidAt(mids, f.at + h)[1] - f.price), 0, Measured(fills, h))

(* markout_by_time_to_close: a fill is in the first bucket that takes it.  *)
InBucket(b) ==
  SelectSeq(simFills, LAMBDA f :
    LET left == CloseTime - f.at
        takes == {k \in DOMAIN Buckets : left >= Buckets[k].lower /\ left < Buckets[k].upper}
    IN  b \in takes /\ \A k \in takes : b <= k)

(* attribute_pnl: a fill without a mid has captured nothing.               *)
SpreadCapture ==
  FoldLeft(LAMBDA sum, f : IF f.mid = 0 THEN sum ELSE sum + f.by * (f.mid - f.price), 0, simFills)
Gross ==
  FoldLeft(LAMBDA sum, f : sum - f.by * f.price, 0, simFills)
    + IF midNow = 0 THEN 0 ELSE simHeld * midNow
InventoryPnl == Gross - SpreadCapture

(* fill_metrics, but for who made the trade.                               *)
FillMetrics ==
  LET units(by) == Len(SelectSeq(simFills, LAMBDA f : f.by = by))
  IN  [fillCount |-> Len(simFills), bought |-> units(1), soldUnits |-> units(-1),
       turnover |-> units(1) + units(-1)]

(* risk_metrics.                                                           *)
RiskMetrics ==
  FoldLeft(LAMBDA acc, k :
      LET x == equity[k]
          peak == IF x.value > acc.peak THEN x.value ELSE acc.peak
          next == IF k < Len(equity) THEN equity[k + 1].at ELSE x.at
      IN  [peak |-> peak,
           drawdown |-> IF peak - x.value > acc.drawdown THEN peak - x.value ELSE acc.drawdown,
           under |-> IF x.value < peak THEN acc.under + next - x.at ELSE acc.under],
    [peak |-> IF equity = <<>> THEN 0 ELSE equity[1].value, drawdown |-> 0, under |-> 0],
    [k \in DOMAIN equity |-> k])

(* build_performance_report.                                               *)
PerformanceReport ==
  [attribution |-> [spread |-> SpreadCapture, inventory |-> InventoryPnl, gross |-> Gross],
   risk |-> RiskMetrics, fills |-> FillMetrics]

-----------------------------------------------------------------------------
(* MarketDynamicsTracker: what a strategy of the backtest knows of how     *)
(* fast the mid moves, from the updates with two sides.                    *)

(* _trim: from the oldest on, up to the first inside the window.           *)
Trimmed(history, now) ==
  LET inside == SelectInSeq(history, LAMBDA x : x.at >= now - VolWindow)
  IN  SubSeq(history, IF inside = 0 THEN Len(history) + 1 ELSE inside, Len(history))

History == FoldLeft(LAMBDA h, x : Trimmed(Append(h, x), x.at), <<>>, mids)

Elapsed(h) == IF Len(h) < 2 THEN 0 ELSE Last(h).at - h[1].at

(* _realized_sigma, squared: the sum of squared changes and what it is     *)
(* divided by; and _update_rate_hz.  Both are zero when no time elapsed.   *)
SumSquaredChanges(h) ==
  FoldLeft(LAMBDA sum, k : sum + (h[k + 1].mid - h[k].mid) * (h[k + 1].mid - h[k].mid), 0,
           [k \in 1..(Len(h) - 1) |-> k])
RealizedVariance(h) ==
  IF Elapsed(h) = 0 THEN [num |-> 0, den |-> 1] ELSE [num |-> SumSquaredChanges(h), den |-> Elapsed(h)]
UpdateRate(h) ==
  IF Elapsed(h) = 0 THEN [num |-> 0, den |-> 1] ELSE [num |-> Len(h) - 1, den |-> Elapsed(h)]

(* has_volatility_estimate, and expected_move_ticks of a time, squared.    *)
HasVolatilityEstimate(h) == Len(h) >= MinVolSamples
ExpectedMove(h, ahead) ==
  [RealizedVariance(h) EXCEPT !.num = IF ahead <= 0 THEN 0 ELSE @ * ahead]

-----------------------------------------------------------------------------
(* AdverseSelectionFillModel over the fills of a model without it.         *)

(* _forward_drift: what a fill gained at once, or off the mid to come when *)
(* it carries none.                                                        *)
ForwardDrift(f) ==
  LET later == f.at + Lookahead
  IN  IF f.mid # 0 THEN <<f.by * (f.mid - f.price)>>
      ELSE IF Covers(mids, later) /\ MidAt(mids, later) # <<>>
      THEN <<f.by * (MidAt(mids, later)[1] - f.price)>>
      ELSE <<>>

(* _survives: adverse fills stay, and so do those nothing is known of; of  *)
(* the others one in so many does, by a count.                             *)
Survives(acc, f) ==
  LET gain == ForwardDrift(f)
      seen == acc.favourableSeen + 1
      keep == KeepNum >= KeepDen \/ (seen * KeepNum) % KeepDen < KeepNum
  IN  IF gain = <<>> THEN [acc EXCEPT !.keptFavourable = @ + 1, !.through = Append(@, f)]
      ELSE IF gain[1] < 0 THEN [acc EXCEPT !.keptAdverse = @ + 1, !.through = Append(@, f)]
      ELSE IF keep
      THEN [acc EXCEPT !.favourableSeen = seen, !.keptFavourable = @ + 1, !.through = Append(@, f)]
      ELSE [acc EXCEPT !.favourableSeen = seen, !.droppedFavourable = @ + 1]

(* process_event, one event after the other.                               *)
AdverselySelected ==
  FoldLeft(Survives, [favourableSeen |-> 0, keptFavourable |-> 0, droppedFavourable |-> 0,
                      keptAdverse |-> 0, through |-> <<>>], simFills)
-----------------------------------------------------------------------------
(* test_assumptions: recordings are replayed one after the other, and what *)
(* the opportunity was computed from is held against their fills.          *)

ReplayOne ==
  /\ given = <<>> /\ Len(replayed) < MaxReplayed
  /\ \E r \in Results : replayed' = Append(replayed, r)
  /\ UNCHANGED given
ReadFiles ==
  /\ given = <<>> /\ UNCHANGED replayed
  /\ \E v \in VolumeFiles, l \in LiveFiles : given' = <<[volumes |-> v, live |-> l]>>
TestStep == (ReplayOne \/ ReadFiles) /\ UNCHANGED <<second, midNow, live, sim>>

(* replay_all: the fills of all; a market has the mids of the first        *)
(* recording it was in.                                                    *)
PooledFills(runs) == FlattenSeq([i \in DOMAIN runs |-> runs[i].fills])
PooledSeries(runs) == FoldLeft(LAMBDA acc, r : acc @@ r.series, <<>>, runs)
OurContracts(fills) ==
  [t \in {f.ticker : f \in Range(fills)} |->
     SumOf(LAMBDA f : IF f.ticker = t THEN f.count ELSE 0, fills)]

(* _forward_mids, of one fill.                                             *)
Forward(series, f) ==
  IF f.ticker \in DOMAIN series /\ Covers(series[f.ticker], f.at + Horizon)
  THEN MidAt(series[f.ticker], f.at + Horizon) ELSE <<>>

(* A measurement: a ratio and the samples it is of.                        *)
Measurement(num, den, n) == [num |-> IF den > 0 THEN num ELSE 0, den |-> IF den > 0 THEN den ELSE 1, n |-> n]

(* Nothing of a spread is captured by a fill that crossed, and no less     *)
(* than nothing by one that ends under water.                              *)
SpreadCaptured(fills, series) ==
  LET edge(f) == f.by * (f.mid - f.price) * f.count
      kept(f) == Max({0, f.by * (Forward(series, f)[1] - f.price) * f.count})
      counted == SelectSeq(fills, LAMBDA f : f.mid # 0 /\ Forward(series, f) # <<>> /\ edge(f) > 0)
  IN  Measurement(SumOf(kept, counted), SumOf(edge, counted), Len(counted))

Decile(sorted) == SubSeq(sorted, 1, Max({1, Len(sorted) \div Tenth}))
EdgeCap(fills) ==
  LET known == SelectSeq(fills, LAMBDA f : f.mid # 0)
      edges == SortSeq([i \in DOMAIN known |-> known[i].by * (known[i].mid - known[i].price)], >)
      best == Decile(edges)
  IN  IF edges = <<>> THEN Measurement(0, 1, 0)
      ELSE Measurement(SumOf(LAMBDA e : e, best), Len(best), Len(edges))

(* The median of our shares, which are units of ours to contracts.         *)
Participation(ours, volumes) ==
  LET of == SetToSeq({t \in DOMAIN ours \cap DOMAIN volumes : volumes[t] > 0})
      less(t, u) == ours[t] * volumes[u] < ours[u] * volumes[t]
      sorted == SortSeq(of, less)
      n == Len(sorted)
      low == sorted[(n + 1) \div 2]
      high == sorted[n \div 2 + 1]
  IN  IF n = 0 THEN Measurement(0, 1, 0)
      ELSE Measurement(ours[low] * volumes[high] + ours[high] * volumes[low],
                       2 * volumes[low] * volumes[high], n)

MakerFeePaid(fills) ==
  LET makers == SelectSeq(fills, LAMBDA f : f.maker)
  IN  Measurement(Units * SumOf(LAMBDA f : f.fee, makers), SumOf(LAMBDA f : f.count, makers),
                  Len(makers))

(* What _run records: nothing of what there was nothing to measure with.   *)
Measurements(runs, files) ==
  LET fills == PooledFills(runs)
      placed == SumOf(LAMBDA r : r.orders, runs)
      only(when, key, m) == IF when THEN key :> m ELSE <<>>
  IN     only(fills # <<>>, "spread_capture", SpreadCaptured(fills, PooledSeries(runs)))
      @@ only(fills # <<>>, "edge_cap", EdgeCap(fills))
      @@ only(placed > 0, "fill_rate", Measurement(Len(fills), placed, placed))
      @@ only(files.volumes # <<>>, "participation", Participation(OurContracts(fills), files.volumes))
      @@ only(files.live # <<>>, "maker_fee", MakerFeePaid(files.live))

(* default_ledger, in hundredths.                                          *)
DefaultLedger ==
  [maker_fee      |-> [assumed |-> 0,   tolerance |-> 0,  blocking |-> TRUE],
   spread_capture |-> [assumed |-> 30,  tolerance |-> 25, blocking |-> TRUE],
   participation  |-> [assumed |-> 5,   tolerance |-> 40, blocking |-> FALSE],
   edge_cap       |-> [assumed |-> 200, tolerance |-> 50, blocking |-> FALSE],
   fill_rate      |-> [assumed |-> 10,  tolerance |-> 50, blocking |-> FALSE]]

(* _verdict.                                                               *)
Judged(key, all) ==
  LET a == DefaultLedger[key]
      m == all[key]
      off == 100 * m.num - a.assumed * m.den
  IN  IF key \notin DOMAIN all THEN "unmeasured"
      ELSE IF m.n < MinSamples[key] THEN "insufficient"
      ELSE IF a.assumed = 0 THEN IF m.num = 0 THEN "confirmed" ELSE "optimistic"
      ELSE IF 100 * off \in -(a.tolerance * a.assumed * m.den)..(a.tolerance * a.assumed * m.den)
      THEN "confirmed"
      ELSE IF off < 0 THEN "optimistic" ELSE "conservative"

BlockingUnresolved(all) ==
  {key \in DOMAIN DefaultLedger :
     DefaultLedger[key].blocking /\ Judged(key, all) \in {"optimistic", "insufficient", "unmeasured"}}
ReadyToTrade(all) == BlockingUnresolved(all) = {}

(* analyse_toxicity: the mids ahead are found by the name of a fill, which *)
(* is that of its event and order: the last fill of a name has it.         *)
Toxicity(fills, series) ==
  LET forward == FoldLeft(LAMBDA acc, f : IF Forward(series, f) = <<>> THEN acc
                                          ELSE (f.id :> Forward(series, f)[1]) @@ acc, <<>>, fills)
      seen == SelectSeq(fills, LAMBDA f : f.id \in DOMAIN forward)
      made == [i \in DOMAIN seen |-> seen[i].by * (forward[seen[i].id] - seen[i].price) * seen[i].count]
      losses == SortSeq(SelectSeq(made, LAMBDA x : x < 0), <)
  IN  [count |-> Len(seen), losing |-> Len(losses), total |-> SumOf(LAMBDA x : x, losses),
       worst |-> IF losses = <<>> THEN 0 ELSE SumOf(LAMBDA x : x, Decile(losses))]
=============================================================================
