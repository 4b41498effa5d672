------------------------------- MODULE Workbench -------------------------------
(***************************************************************************)
(* The programs a person starts and leaves to run, one of them at a time:  *)
(* the window of the viewer, the two probes of the exchange, the session   *)
(* runner with what it leaves on disk, the taker test with its feed, the   *)
(* collectors, the recordings of books that the studies read, and the      *)
(* fills of a live session and of a backtest with what is made of them.    *)
(***************************************************************************)
EXTENDS Viewer, Probes, SessionLedger, Collectors, TakerFeed,
        Expectancy, FillCalibration, FillEvidence

VARIABLE started

vars == <<started, viewer, search, validation, fee, queue, exchange, ledgerVars, collectors, takerFeed,
          recordings, expectancy, calibration, evidence>>

Init ==
  /\ started \in {"viewer", "validate", "fees", "queue", "ledger", "spot", "candles", "depth", "poll", "choice", "crawl",
                  "taker", "books", "cells", "calibration", "journal", "backtest", "assumptions"}
  /\ ViewerInit /\ FeeInit /\ QueueInit /\ ExchangeInit
  /\ started # "viewer" => used = CHOOSE s \in TabSets : TRUE
  /\ ValidationInit
  /\ started # "queue" => plan = <<>>
  /\ started # "fees" => picked = <<>>
  /\ LedgerInit /\ CollectorsInit /\ RecordedInit /\ ExpectancyInit /\ CalibrationInit /\ EvidenceInit
  /\ TakerFeedInit
  /\ started # "choice" => ~align /\ selAt = 0
  /\ started # "taker" => ~execute /\ markets = NearExpiry({})

(* What belongs to some programs stays when none of them runs.             *)
Still(owners, owned) == started \notin owners => UNCHANGED owned

Next ==
  /\ UNCHANGED started
  /\ \/ started = "viewer" /\ ViewerStep
     \/ started = "validate" /\ ValidationStep
     \/ started = "fees" /\ FeeStep
     \/ started = "queue" /\ QueueStep
     \/ started = "ledger" /\ LedgerStep
     \/ started = "spot" /\ SpotStep
     \/ started = "candles" /\ CandlesStep
     \/ started = "depth" /\ DepthStep
     \/ started = "poll" /\ PollStep
     \/ started = "choice" /\ ChoiceStep
     \/ started = "crawl" /\ CrawlStep
     \/ started = "taker" /\ TakerFeedStep
     \/ started = "books" /\ RecordedStep
     \/ started = "cells" /\ ExpectancyStep
     \/ started = "calibration" /\ CalibrationStep
     \/ started = "journal" /\ LiveStep
     \/ started = "backtest" /\ SimStep
     \/ started = "assumptions" /\ TestStep
  /\ Still({"viewer"}, <<viewer, search>>) /\ Still({"validate"}, validation)
  /\ Still({"fees"}, fee) /\ Still({"queue"}, queue) /\ Still({"fees", "queue"}, exchange)
  /\ Still({"ledger"}, ledgerVars)
  /\ Still({"spot"}, spot) /\ Still({"candles"}, candles)
  /\ Still({"depth"}, depth) /\ Still({"poll"}, poll) /\ Still({"crawl"}, crawl)
  /\ Still({"choice"}, choice)
  /\ Still({"taker"}, takerFeed) /\ Still({"books"}, recordings) /\ Still({"cells"}, expectancy)
  /\ Still({"calibration"}, calibration) /\ Still({"journal", "backtest", "assumptions"}, evidence)

(* The window's thread and a worker that was told to stop go on.           *)
Idle ==
  UNCHANGED <<started, used, validation, fee, queue, exchange, ledgerVars, collectors, takerFeed,
              recordings, expectancy, calibration, evidence>>
Spec ==
  /\ Init /\ [][Next]_vars
  /\ WF_viewer(started = "viewer" /\ Window /\ Idle)
  /\ \A t \in Tabs : WF_viewer(started = "viewer" /\ WorkerOut(t) /\ Idle)

-----------------------------------------------------------------------------
(* The window.                                                             *)

CanBeStopped ==
  \A t \in Tabs :
    /\ ui # "gone" /\ phase[t] = "busy" /\ ~stopSet[t]
    /\ t \in overtaken => t \in {"replay", "trade"}
    => stopOn[t]
FillsTableIsSound ==
  /\ seenFills = {rows[k] : k \in DOMAIN rows}
  /\ Len(rows) = Cardinality(seenFills) /\ Len(rows) <= MaxFillRows

(* A worker that is not told to stop can be told to, as long as the window *)
(* is open: always in the tabs that replay and trade, and in the others    *)
(* but for an error of the last run that was not read when the new one     *)
(* began (orderbook_viewer.py:983).  And the poll that serves the buttons  *)
(* goes on: the table of fills holds each id once and the memory of ids is *)
(* that of the table, through clearing, repeats and trimming, so that no   *)
(* insert raises (orderbook_viewer.py:1113).                               *)
RunningCanBeStopped == CanBeStopped /\ FillsTableIsSound

(* A worker that is told to stop leaves the tab ready for another start,   *)
(* however it ends (orderbook_viewer.py:1021).  Only that start takes the  *)
(* stop back, so it is the same to say that no stop stays for ever before  *)
(* a Start button that is off.                                             *)
StopLeadsToStart ==
  \A t \in Tabs : []<>(stopSet[t] => startOn[t] \/ ui = "gone")

TrialsAreSpread ==
  chosen # <<>> =>
    LET all == Combinations[account]
        k == Len(chosen)
        place == [i \in 1..k |-> CHOOSE j \in DOMAIN all : all[j] = chosen[i]]
        gaps == {place[i + 1] - place[i] : i \in 1..(k - 1)}
    IN  /\ k = Min({MaxTrials, Len(all)})
        /\ place[1] = 1 /\ (k > 1 => place[k] = Len(all))
        /\ \A g \in gaps, h \in gaps : g > 0 /\ g - h <= 1
FoldsAreUnseen ==
  /\ \A i \in DOMAIN fitting.folds :
       LET f == fitting.folds[i]
           seen == 1..(f.test - 1)
           score(p) == {scoreboard[<<p, r>>] : r \in seen}
           floor(p) == CHOOSE x \in score(p) : \A y \in score(p) : x <= y
           sum(p) == Summed([r \in seen |-> scoreboard[<<p, r>>]])
           key(p) == IF fitting.rule = "worst" THEN <<floor(p), sum(p)>> ELSE <<sum(p), floor(p)>>
           less(x, y) == x[1] < y[1] \/ (x[1] = y[1] /\ x[2] < y[2])
       IN  /\ f.test = MinTrain + i
           /\ f.tried = Len(ParameterGrid) \/ (fitting.stop /\ i = Len(fitting.folds))
           /\ \A p \in 1..f.tried :
                ~less(key(f.chosen), key(p)) /\ (p < f.chosen => less(key(p), key(f.chosen)))
  /\ Verdict = "worth continuing" => OutOfSample > 0

(* The trials are as many as allowed, spread over the whole grid from its  *)
(* first to its last valid combination, none twice (optimization.py:357).  *)
(* And a fold of the walk-forward is tested on the recording after those   *)
(* it was fitted on, with the first of the parameter sets that no other of *)
(* those tried beats on these alone; only the last may have tried a part   *)
(* of the grid; and what the scripts call worth continuing made money on   *)
(* recordings it was not fitted on (validation.py:235).                    *)
SearchIsSpread == TrialsAreSpread /\ FoldsAreUnseen

-----------------------------------------------------------------------------
(* The probes.                                                             *)

NothingRests ==
  \A i \in DOMAIN orders :
    orders[i].left > 0 /\ orders[i].ticker \notin unclean /\ i # fresh =>
      fPc # "ended" /\ (qPc = "ended" => orders[i].kind = "last")
TrialsNeverReverse ==
  started = "queue" => \A t \in Tickers : pos[t] >= -over[t]

(* When a probe is over nothing of it rests at the exchange, wherever it   *)
(* failed or was interrupted, but for: the markets where a call of the     *)
(* cleanup failed, and those that an interrupt of it left out, which is    *)
(* none of the exceptions it catches; one order, the last, if the script   *)
(* did not sleep after it or it was taken after its call was given up, for *)
(* the listing may have missed it; and what the flattens of the cleanup    *)
(* put to rest (calibrate_fees.py:362, queue_experiments.py:572, :589).    *)
(* And the flattens take an account short by no more than what earlier     *)
(* ones had yet to sell when a later one read what is held, however the    *)
(* orders are filled in parts (queue_experiments.py:329).                  *)
ProbesCleanUp == NothingRests /\ TrialsNeverReverse

-----------------------------------------------------------------------------
(* What the session runner leaves.                                         *)

ArmsKeepTheirFills ==
  \A b \in DOMAIN Slices : \A k \in DOMAIN Slices[b] :
    LET s == Slices[b][k]
    IN  s.arm = s.fill.arm /\ (s.begins = s.fill.of \/ ~s.first)
ReportsCountOnce ==
  /\ \A v \in Range(Family) :
       Cardinality(VenueFills(v)) = Cardinality({f \in made \ spoiled : f.venue = v})
  /\ \A a \in Range(Arms) : \A k \in ArmRows(a) :
       LET r == ledger[k]
       IN  r.first => r.fills = Cardinality({f \in made \ spoiled : f.of = r.of})

(* Whatever fails, is killed or is started again between cycles, a fill of *)
(* a journal in the bucket is of the arm in the journal's name, and        *)
(* session_report counts every fill of a venue once but for lines a kill   *)
(* tore.  A row of the ledger has the fills of its cycle, and the first    *)
(* line of a journal is of the cycle of its fills, when the journal was    *)
(* new: a sitting that starts again at cycle 1 appends to the files of the *)
(* last (session_runner.py:535, journal.py:107, markout_slices.py:67).     *)
LedgerIsTrue == started = "ledger" => ArmsKeepTheirFills /\ ReportsCountOnce

-----------------------------------------------------------------------------
(* The collectors.                                                         *)

SpotRowsSurvive ==
  \A h \in Hours \ lastSent : rowsMade[h] \subseteq spotDisk[h] \cup spotBucket[h]
CorpusKeepsTheDesign ==
  /\ IsInjective(corpus)
  /\ \A f \in Range(FamilyOrder) :
       Cardinality(Range(corpus) \cap Range(FamilyPools[f])) <= PerFamily
  /\ cdPc = "ended" =>
       Cardinality((Range(sample) \ Range(corpus)) \ droppedNow) <= IF tornFound THEN 1 ELSE 0

CrawlIsWhole ==
  /\ \A i \in DOMAIN Settled : crawlFile[i] <= 1
  /\ crPc = "ended" =>
       \A i \in beganAt..Len(Settled) :
         Settled[i].traded /\ (filtered => Settled[i].recent) => crawlFile[i] = 1

WindowsAreChosen ==
  selPc = "record" =>
    LET since == selAt % WindowLen
        windows == {m \in found : IsShortWindow(m) /\ m.ticker[2] = "open" /\ m.left >= MinPinned}
    IN  /\ IsInjective(targets) /\ Len(targets) <= Max({Slots, Cardinality(PinnedSeries)})
        /\ \A m \in windows : Contains(targets, m.ticker)
        /\ \A m \in found : IsShortWindow(m) /\ m.left < MinPinned /\ Contains(targets, m.ticker) =>
             Cardinality({x \in found : Pinnable(x)}) < Slots
        /\ align => since <= SettleTime
        /\ align /\ begunAt >= SettleTime =>
             /\ since = SettleTime
             /\ \A m \in found : IsShortWindow(m) => m \in windows

(* A row of the spot recorder is in the file of its hour or in the object  *)
(* of that hour, through rotations, failed copies, kills and restarts; an  *)
(* hour that an interrupt uploaded before it was over is lost when a       *)
(* restart writes it anew (spot_sidecar.py:73).  The corpus of candles is  *)
(* one sample of each family, none twice, after any number of runs over    *)
(* any families that were killed anywhere; a run that ends has the whole   *)
(* sample but for the markets it dropped and one behind a torn line        *)
(* (settlement_candles.py:108).  A crawl that ends has every traded market *)
(* once that had settled when it began, though others settle between its   *)
(* pages and crawls before it died (settlement_crawl.py:126).  A cycle of  *)
(* the collector records every window of a pinned series that it finds     *)
(* with time left, whatever its volume, and others only in the slots that  *)
(* leaves; one that aligns itself looks soon after an opening, and not     *)
(* before the windows are settled unless it began in that time itself      *)
(* (collect_loop.py:154, :321).                                            *)
CollectedIsKept ==
  /\ started = "spot" => SpotRowsSurvive
  /\ started = "candles" => CorpusKeepsTheDesign
  /\ started = "crawl" => CrawlIsWhole
  /\ started = "choice" => WindowsAreChosen

TouchRowsAreTimely ==
  \A i \in DOMAIN touchRows :
    LET r == touchRows[i]
    IN  r.ts - r.seen <= ListRefresh /\ (r.first \/ r.ts >= r.seen)
PolledBookRebuilds == rebuilt = recordedBooks /\ (wire # <<>> => Last(wire).seq = pollSeq)

(* What a poll writes is what it saw: a touch row of the tennis recorder   *)
(* holds prices no older than the list may be, and only those of the cycle *)
(* that refreshed the list are stamped before they were seen               *)
(* (tennis_depth_recorder.py:242); and who applies the events of           *)
(* poll_record has the book that was polled last, whichever polls failed   *)
(* and though a market be listed twice (poll_record.py:222).               *)
PollsAreTrue == TouchRowsAreTimely /\ PolledBookRebuilds

-----------------------------------------------------------------------------
(* The taker test.                                                         *)

EvidenceKept ==
  /\ IsInjective(tRows)
  /\ tfPc = "ended" => (1..foundBy) \ Range(tRows) \subseteq Range(pending) \cup inTrade
SilenceIsReal ==
  haltedBy = "" /\ haltedBy' = "silence" =>
    time - heardAt > MaxFeedSilence /\ time - watchedSince > MaxFeedSilence

(* A signal has one row, and all that were found before the loop ended     *)
(* have theirs when the script ends, but for the one the guard stopped at  *)
(* and one that waits (taker_live_test.py:778).  And the feed is given up  *)
(* as silent when nothing was heard for so long while there was something  *)
(* to hear: the time without markets does not count                        *)
(* (taker_live_test.py:610).                                               *)
SignalsAreKept == []EvidenceKept /\ [][SilenceIsReal]_takerFeed

-----------------------------------------------------------------------------
(* The studies of recorded books.                                          *)

SignalsAreExtracted ==
  /\ {<<r.at, r.band>> : r \in Extract(series)} =
       {x \in signals : series # <<>> /\ \A h \in Horizons : x[1] + h <= Last(series).at}
  /\ \A r \in Extract(series) : \A h \in Horizons : r.h[h] = seenBook[r.at + h + 1]
CoverageIsTime == CoverageSeconds(intervals \o Spans) = Cardinality(lived)

CoverageSplits ==
  \A cut \in lived :
    LET all == intervals \o Spans
    IN  CoverageSeconds(all) = CoverageIn(all, 0, cut) + CoverageIn(all, cut, Max(lived) + 1)

Readable(cells) ==
  \A k \in CellKeys :
    LET c == cells[k]
        all(t) == 1
        none(t) == -1
    IN  /\ c.cross <= c.mid /\ c.mid <= c.touch
        /\ 100 * c.cross <= Blended(k[1], c) /\ Blended(k[1], c) <= 100 * c.touch
        /\ OverMarkets(LAMBDA t : c.clusters[t].n) = c.n
        /\ PlaceboSum(c, [t \in Markets |-> 1]) = c.touch
        /\ PlaceboSum(c, [t \in Markets |-> -1]) = c.touch - 2 * c.gross
Mirrored ==
  [i \in DOMAIN cache |-> [cache[i] EXCEPT
     !.entry = FullPrice - @, !.buy = ~@,
     !.h = [h \in DOMAIN @ |-> [bid |-> FullPrice - @[h].ask, ask |-> FullPrice - @[h].bid,
                                 after |-> [j \in DOMAIN @[h].after |-> 2 * FullPrice - @[h].after[j]]]]]]
MirrorSame(cells) ==
  LET other == CellsOf(Mirrored)
  IN  \A k \in CellKeys : other[k] = [cells[k] EXCEPT !.buys = cells[k].n - @]
SurvivorsPass(cells) ==
  LET report == Report(cells)
      p(k) == report.rows[k].p
      upTo(x) == Cardinality({k \in DOMAIN report.rows : p(k) <= x})
      passes(x) == 10 * x * Cardinality(DOMAIN report.rows) <= 1000 * upTo(x)
  IN  /\ report.survivors =
           {k \in DOMAIN report.rows : \E j \in DOMAIN report.rows : p(j) >= p(k) /\ passes(p(j))}
      /\ \A k \in report.significant : report.rows[k].gross > report.rows[k].fee
      /\ report.rows # <<>> => [t \in Markets |-> 1] \in report.beaten
ReplicationIsFair ==
  frozen # <<>> => \A name \in Asked, f \in Filters : \A r \in Replicated(name, f) :
    LET z == frozen[1]
    IN  /\ z.from = Loaded(cache, name, f) => r[2] \notin {"ABSENT", "SMALLER"}
        /\ r[2] # "ABSENT" => \A p \in {z.on, name} \ {"all"} :
             LET c == Census(p)
             IN  r[1].key[1] \in c.venues /\ c.n >= MinTriggers /\ Cardinality(c.markets) >= MinWindows
CellsAreTrue ==
  LET cells == CellsOf(cache)
  IN  Readable(cells) /\ MirrorSame(cells) /\ SurvivorsPass(cells) /\ ReplicationIsFair

(* What taker_extract makes of a recording is what one who watched it live *)
(* saw: his signals, as far as the recording goes on behind them, with the *)
(* book he saw at every horizon and none from after it                     *)
(* (taker_extract.py:97).  The hours of coverage are those in which some   *)
(* recording ran, overlaps once, and those of two periods that meet add up *)
(* (taker_expectancy.py:447).  In every cell that taker_expectancy makes   *)
(* of the triggers the exit that crossed is the worst and the one that     *)
(* rested the best, the windows add up to the cell, a market turned upside *)
(* down gives the same cells, and the survivors are those that pass at     *)
(* their own rank (taker_expectancy.py:187, :471).  A slice that is asked  *)
(* of the very rows it was frozen on is neither absent nor smaller, and    *)
(* none is found where its venue is not (taker_expectancy.py:668).         *)
ExtractionIsLive ==
  /\ started = "books" => SignalsAreExtracted /\ CoverageIsTime /\ CoverageSplits
  /\ started = "cells" => CellsAreTrue

(* An exit that the strict rule believes filled the loose rule believes    *)
(* too, and pays no less; more patience fills no fewer; and no exit is     *)
(* watched past the close (exit_fill_study.py:141).                        *)
ExitsAreBracketed ==
  started = "books" =>
    \A hold \in Holds, rest \in Rests : \A x \in Exits(series, hold, rest) :
      /\ x[2].until <= CloseOffset
      /\ Realised(x[2], x[2].conservative) <= Realised(x[2], x[2].optimistic)
      /\ \A longer \in Rests : longer >= rest =>
           (x[2].conservative => Simulate(series, x[1], hold, longer).conservative)

-----------------------------------------------------------------------------
(* The evidence on fills.                                                  *)

(* Of what left a level calibrate_fills claims no more than did while it   *)
(* watched and what lay below the page of a poll: a level that others push *)
(* out of the page is taken for gone, so that a poll does not only         *)
(* understate what is lost, as the script says (calibrate_fills.py:285,    *)
(* :423).  It counts no trade from before its first look and none twice;   *)
(* and a recording that is not over loses no less than was traded, so that *)
(* its market is reported (calibrate_fills.py:110, :149).                  *)
CalibrationIsABound ==
  started = "calibration" => \A t \in Rolling :
    LET p == Calibrate(t)
        w == CalibrateWebsocket(t)
    IN  /\ \A l \in Rungs : p.shrink[l] <= gone[t][l] + unseen[t][l]
        /\ p.traded["bid"] + p.traded["ask"] + p.unattributed <= Len(prints[t]) - prior[t]
        /\ wsOn /\ LostBySides(w) > 0 => t \in Reported([u \in Rolling |-> CalibrateWebsocket(u)])

NoneLost == \A l \in Range(journal) : l.event # "lost"
MarkoutsAreMeasured ==
  LET loaded == LoadedFills
      filled == SelectSeq(journal, LAMBDA l : l.event = "filled")
  IN  /\ Len(loaded.fills) + loaded.dropped = Len(filled)
      /\ \A f \in Range(loaded.fills) :
           /\ f.sample \in (f.at + 1)..(f.at + Horizon)
           /\ f.sample >= f.at + Horizon - MidTolerance
           /\ \A l \in Range(Timeline(IF f.source = "mid" THEN {"mid"} ELSE {"mid", "placed"})) :
                l.at <= f.sample \/ l.at > f.at + Horizon
           /\ f.line.post # <<>> \/ NoneLost => f.before = f.line.before
      /\ \A v \in Thresholds :
           LET s == Sweep(v)
           IN  /\ Len(s.blocked) + Len(s.kept) = Len(SelectSeq(Joined(Offset), LAMBDA r : ~r.taker))
               /\ NoneLost /\ filled # <<>> /\ Len(s.kept) = Len(filled) => s.position = trulyHeld
(* The tables of the study hold every matched fill once, thin ones too,    *)
(* the dose line agrees with them, and a control does what it is for.      *)
TablesAreWhole(study, matched) ==
  LET counted(table) == SumOf(LAMBDA b : table[b].n, SetToSeq(DOMAIN table))
      total(table) == SumOf(LAMBDA b : table[b].sum, SetToSeq(DOMAIN table))
      size(table, b) == IF b \in DOMAIN table THEN table[b].n ELSE 0
      holdsAll(table) ==
        counted(table) = Len(matched) /\ total(table) = SumOf(LAMBDA r : r.markout, matched)
      gain(table, b) == IF b \in DOMAIN table THEN table[b].sum ELSE 0
      extreme == size(study.raw, 5) + size(study.raw, 6)
      shifted(d) == [i \in DOMAIN matched |-> IF matched[i].decile = d THEN [matched[i] EXCEPT !.markout = @ + 1]
                                           ELSE matched[i]]
      gains(table) == [i \in DOMAIN table |-> table[i].markout]
  IN  /\ \A r \in Range(matched) :
           \E x \in Range(obiRows) :
             /\ x.at \in (r.at + Offset - ObiTolerance)..(r.at + Offset)
             /\ r.against = IF r.buying THEN -x.obi ELSE x.obi
             /\ \A y \in Range(obiRows) :
                  y.at <= r.at + Offset => y.at < x.at \/ (y.at = x.at /\ y.obi <= x.obi)
      /\ holdsAll(study.raw) /\ holdsAll(study.deciles) /\ holdsAll(study.roles)
      /\ \A b \in 0..6 :
           /\ size(study.raw, b) = size(study.sides[TRUE], b) + size(study.sides[FALSE], b)
           /\ gain(study.raw, b) = gain(study.sides[TRUE], b) + gain(study.sides[FALSE], b)
           /\ size(study.raw, b) = size(study.controlled, b)
      /\ study.echo[Offset] # <<>> <=> extreme \in 1..(Len(matched) - 1)
      /\ \A line \in Range(study.echo[Offset]) :
           /\ line.high = extreme /\ line.rest = Len(matched) - extreme
           /\ line.gap = (gain(study.raw, 5) + gain(study.raw, 6)) * Len(matched)
                            - total(study.raw) * line.high
      /\ total(study.controlled) = 0
      /\ \A d \in Mids : gains(Demean(shifted(d), "decile")) = gains(Demean(matched, "decile"))

StudyIsWhole == TablesAreWhole(Study, Joined(Offset))

(* What the tracker of a backtest keeps is what the last window saw, also  *)
(* across a gap, and it never calls a mid calmer than it moved.  Selection *)
(* keeps every adverse fill and its share of the others.                   *)
ModelsAreExact ==
  LET h == History
      kept == AdverselySelected
      adverse == SelectSeq(simFills, LAMBDA f : ForwardDrift(f) # <<>> /\ ForwardDrift(f)[1] < 0)
      unknown == SelectSeq(simFills, LAMBDA f : ForwardDrift(f) = <<>>)
  IN  /\ mids # <<>> => h = SelectSeq(mids, LAMBDA x : x.at >= Last(mids).at - VolWindow)
      /\ HasVolatilityEstimate(h) /\ Elapsed(h) > 0 =>
           LET move == ExpectedMove(h, Elapsed(h))
               whole == Last(h).mid - h[1].mid
           IN  whole * whole * move.den <= (Len(h) - 1) * move.num
      /\ UpdateRate(h).num * Elapsed(h) = IF Elapsed(h) = 0 THEN 0 ELSE (Len(h) - 1) * UpdateRate(h).den
      /\ kept.keptAdverse = Len(adverse)
      /\ SelectSeq(kept.through, LAMBDA f : f \in Range(adverse)) = adverse
      /\ kept.keptFavourable - Len(unknown)
           = ((Len(simFills) - Len(adverse) - Len(unknown)) * KeepNum) \div KeepDen
      /\ Len(kept.through) = Len(simFills) - kept.droppedFavourable
      /\ PerformanceReport.fills.bought - PerformanceReport.fills.soldUnits = simHeld
ReportsAddUp ==
  /\ midNow # 0 /\ (\A f \in Range(simFills) : f.mid # 0) => InventoryPnl = drift
  /\ midNow # 0 => Gross = cash + simHeld * lastMid
  /\ \A h \in MarkHorizons :
       Markout(simFills, h) =
         FoldLeft(LAMBDA sum, b : sum + Markout(InBucket(b), h), 0, [b \in DOMAIN Buckets |-> b])
  /\ \A f \in Range(simFills), h \in MarkHorizons :
       LET when == f.at + h
       IN  Covers(mids, when) /\ MidAt(mids, when) # <<>> =>
             \E i \in DOMAIN mids :
               /\ MidAt(mids, when)[1] = mids[i].mid /\ mids[i].at <= when
               /\ \A j \in DOMAIN mids :
                    IF mids[i].at = when THEN j < i => mids[j].at < when
                    ELSE j > i => mids[j].at > when
  /\ \A i \in DOMAIN equity, j \in DOMAIN equity :
       i <= j => equity[i].value - equity[j].value <= RiskMetrics.drawdown
  /\ RiskMetrics.drawdown = 0 => RiskMetrics.under = 0
  /\ equity # <<>> => RiskMetrics.under <= Last(equity).at - equity[1].at

(* Each fill with the mids of the first recording its market was in: what  *)
(* the pooled measures are made of.                                        *)
FirstSeries(batch) ==
  LET of(t) == {i \in DOMAIN replayed : t \in DOMAIN replayed[i].series}
  IN  [t \in {f.ticker : f \in {g \in Range(batch) : of(g.ticker) # {}}} |-> replayed[Min(of(t))].series[t]]
Capture(r) == SpreadCaptured(r.fills, FirstSeries(r.fills))
Toxic(r) == Toxicity(r.fills, FirstSeries(r.fills))

AssumptionsAreTested ==
  given # <<>> =>
    LET pooled == PooledFills(replayed)
        known == PooledSeries(replayed)
        all == Measurements(replayed, given[1])
        makers == SelectSeq(given[1].live, LAMBDA f : f.maker)
        capture == SpreadCaptured(pooled, known)
        toxic == Toxicity(pooled, known)
        ids(r) == {f.id : f \in Range(r.fills)}
        named == {f.id : f \in {g \in Range(pooled) : Forward(FirstSeries(pooled), g) # <<>>}}
    IN  /\ ReadyToTrade(all) =>
             /\ Len(makers) >= MinSamples.maker_fee /\ SumOf(LAMBDA f : f.fee, makers) = 0
             /\ capture.n >= MinSamples.spread_capture
             /\ 1000 * capture.num >= 225 * capture.den
        /\ capture.n = SumOf(LAMBDA r : Capture(r).n, replayed)
        /\ capture.n > 0 =>
             /\ capture.den = SumOf(LAMBDA r : IF Capture(r).n > 0 THEN Capture(r).den ELSE 0, replayed)
             /\ capture.num = SumOf(LAMBDA r : Capture(r).num, replayed)
        /\ toxic.count = Len(SelectSeq(pooled, LAMBDA f : f.id \in named))
        /\ (\A i \in DOMAIN replayed, j \in DOMAIN replayed :
              i # j => ids(replayed[i]) \cap ids(replayed[j]) = {}) =>
             /\ toxic.count = SumOf(LAMBDA r : Toxic(r).count, replayed)
             /\ toxic.total = SumOf(LAMBDA r : Toxic(r).total, replayed)
        /\ toxic.losing > 0 =>
             /\ toxic.worst >= toxic.total
             /\ toxic.worst * toxic.losing <= toxic.total * Max({1, toxic.losing \div Tenth})

=============================================================================
