------------------------------- MODULE Collectors -------------------------------
(***************************************************************************)
(* Scripts that collect data for weeks and are killed, interrupted and     *)
(* started again: scripts/spot_sidecar.py, settlement_candles.py,          *)
(* settlement_crawl.py, tennis_depth_recorder.py, poll_record.py and the   *)
(* choice of collect_loop.py of what to record and when.                   *)
(***************************************************************************)
EXTENDS Integers, FiniteSets, SequencesExt

CONSTANTS
  MaxHours,       \* bound: hours of the spot recorder
  MaxRowsMade,    \* bound: rows of the spot recorder
  FamilyPools,    \* family -> its settled and traded markets, in order
  FamilyOrder,    \* the families, in order
  SeedOf,         \* family -> where its stream of random numbers begins
  PerFamily,      \* --per-family
  MaxRuns,        \* bound: times the candles are fetched
  ListRefresh,    \* LIST_REFRESH_SEC, in units of POLL_SEC
  MaxListing,     \* bound: time a refresh takes
  MaxCycle,       \* bound: time the books of a cycle take
  MaxTime,        \* bound: time
  MaxSeq,         \* bound: events
  Offers,         \* bound: candidates: the markets of the series and the pages of events,
                  \* [ticker, volume, quoted]
  AutoCount,      \* --auto
  MinVolume,      \* --min-volume
  Shortlisted,    \* six times --auto
  PolledBooks,    \* bound: the books a market may have
  DollarLevel,    \* a dollar, in price levels
  PageSize,       \* markets in a page of the crawl
  Settled,        \* the settled markets, the last settled first: [traded, recent]
  Par,            \* ONE_DOLLAR, in ticks
  WindowLen,      \* WINDOW_SECONDS
  SettleTime,     \* WINDOW_SETTLE_SECONDS
  MinPinned,      \* MIN_PINNED_SECONDS
  PinnedSeries,   \* PINNED_SERIES
  Slots,          \* --markets
  Listings,       \* bound: the other markets of the series: [ticker, bid, ask, volume, left,
                  \* ranges], ranges being the price_ranges in order: [low, high, step]
  CommonTick,     \* the tick of a price in no range, a cent
  FeeTicks,       \* mid -> breakeven_edge_ticks, the fee of a round trip in ticks
  Improvement,    \* DEFAULT_IMPROVEMENT_TICKS
  NearMiss,       \* how far below zero an edge may be, two cents
  CycleTimes,     \* bound: time a cycle takes, or the pause after one without markets
  MaxBackoffs,    \* attempts of throttled
  MaxCrawls       \* bound: crawls

PriceLevels == 1..(DollarLevel - 1)

ASSUME CollectorsAssumption ==
  /\ ListRefresh \in Nat /\ MaxHours \in Nat \ {0} /\ DollarLevel \in Nat
  /\ PolledBooks \subseteq [yes : [PriceLevels -> Nat], no : [PriceLevels -> Nat]]
  /\ PerFamily \in Nat /\ FamilyOrder \in Seq(DOMAIN FamilyPools) /\ IsInjective(FamilyOrder)
  /\ \A f \in DOMAIN FamilyPools :
       /\ FamilyPools[f] \in Seq(Range(FamilyPools[f])) /\ IsInjective(FamilyPools[f])
       /\ SeedOf[f] \in Nat
       /\ \A g \in DOMAIN FamilyPools \ {f} : Range(FamilyPools[f]) \cap Range(FamilyPools[g]) = {}
  /\ WindowLen \in Nat /\ SettleTime \in Nat /\ MinPinned \in Nat \ {0} /\ SettleTime + MinPinned <= WindowLen
  /\ Slots \in Nat /\ IsFiniteSet(PinnedSeries) /\ CycleTimes \subseteq Nat
  /\ \A all \in Listings : IsFiniteSet(all) /\ \A m \in all : m.ticker[1] \notin PinnedSeries
  /\ PageSize \in Nat \ {0} /\ Settled \in Seq([traded : BOOLEAN, recent : BOOLEAN])
  /\ \A i \in 1..Len(Settled), j \in 1..Len(Settled) : i <= j /\ Settled[j].recent => Settled[i].recent

VARIABLES
  spPc,           \* the spot recorder: "off", "loop", "upload", "last", "unlink", "lastly"
  wall,           \* the hour of the day
  fileHour,       \* current_hour, 0 before the first
  hourRead,       \* hour: what it is at the top of the loop
  toSend,         \* the files this rotation or exit has still to upload
  sending,        \* the file whose copy has been taken
  spotDisk,       \* hour -> rows of its file
  spotFiles,      \* the hours that have a file
  spotBucket,     \* hour -> rows of its object
  rowsMade,       \* history: hour of the file -> rows written
  lastSent,       \* history: the hours whose file an exit sent while they lasted
  cdPc,           \* the candles: "off" or "fetch"
  sample,         \* sample
  fetchDone,      \* done: what the file held when the run began
  nextMarket,     \* the market of the sample the run is at
  corpus,         \* --out: the markets of the lines that can be read
  tornTail,       \* the file ends within a line
  tornFound,      \* history: it did so when this run began
  droppedNow,     \* dropped, which is written to a file of its own at the end
  runs,
  clock,          \* time
  refreshed,      \* refreshed
  listed,         \* candidates: the time each was seen at, <<>> when there are none
  touchRows,      \* the touch rows of the last cycle: their stamp and what they hold
  depthPc,        \* "top" or "books"
  recordedBooks,  \* state: ticker -> the book it was last polled at
  rebuilt,        \* history: ticker -> the book a reader of the events has
  wire,           \* the events of the last poll
  pollSeq,        \* seq
  polledTickers,  \* tickers: asked for or picked, <<>> before
  pollAt,         \* the ticker that is polled next
  selPc,          \* a cycle: "begin", "look" or "record"
  align,          \* --align-windows
  selAt,          \* the time, from an opening of windows
  begunAt,        \* history: what it was when the cycle began
  found,          \* history: the markets that were found
  targets,        \* tickers
  crPc,           \* the crawl: "off", "page" or "ended"
  filtered,       \* params_extra is in use
  cursor,         \* the last market of the page before, 0 at the beginning
  attempt,        \* attempts of this request that failed
  crawlFile,      \* --out: the lines of each market
  settledBy,      \* markets that have settled: those of Settled from there on
  beganAt,        \* history: settledBy when the crawl began
  crawls

spot == <<spPc, wall, fileHour, hourRead, toSend, sending, spotDisk, spotFiles, spotBucket,
          rowsMade, lastSent>>
candles == <<cdPc, sample, fetchDone, nextMarket, corpus, tornTail, tornFound, droppedNow,
             runs>>
depth == <<clock, refreshed, listed, touchRows, depthPc>>
poll == <<recordedBooks, rebuilt, wire, pollSeq, polledTickers, pollAt>>
crawl == <<crPc, filtered, cursor, attempt, crawlFile, settledBy, beganAt, crawls>>
choice == <<selPc, align, selAt, begunAt, found, targets>>
collectors == <<spot, candles, depth, poll, choice, crawl>>

Hours == 1..MaxHours

(* A crawl that wrote nothing.                                             *)
EmptyFile == [i \in DOMAIN Settled |-> 0]

CollectorsInit ==
  /\ spPc = "off" /\ wall = 1 /\ fileHour = 0 /\ hourRead = 0 /\ toSend = {} /\ sending = 0
  /\ spotDisk = [h \in Hours |-> {}] /\ spotBucket = [h \in Hours |-> {}] /\ spotFiles = {}
  /\ rowsMade = [h \in Hours |-> {}] /\ lastSent = {}
  /\ cdPc = "off" /\ sample = <<>> /\ fetchDone = {} /\ nextMarket = 1 /\ corpus = <<>>
  /\ tornTail = FALSE /\ tornFound = FALSE /\ droppedNow = {} /\ runs = 0
  /\ clock = 0 /\ refreshed = -(ListRefresh + 1) /\ listed = <<>> /\ touchRows = <<>>
  /\ depthPc = "top"
  /\ recordedBooks = <<>> /\ rebuilt = <<>> /\ wire = <<>> /\ pollSeq = 0
  /\ polledTickers = <<>> /\ pollAt = 1
  /\ selPc = "begin" /\ align \in BOOLEAN /\ selAt \in 0..(WindowLen - 1) /\ begunAt = selAt
  /\ found = {} /\ targets = <<>>
  /\ crPc = "off" /\ filtered = TRUE /\ cursor = 0 /\ attempt = 0 /\ crawlFile = EmptyFile
  /\ settledBy = 2 /\ beganAt = 2 /\ crawls = 0

-----------------------------------------------------------------------------
(* spot_sidecar: a file an hour, a row a second, and a copy in the bucket. *)

SpotStarts ==
  /\ spPc = "off" /\ spPc' = "loop" /\ fileHour' = 0 /\ toSend' = {} /\ sending' = 0
  /\ UNCHANGED <<hourRead, wall, spotDisk, spotFiles, spotBucket, rowsMade, lastSent>>
(* Faulty: the sweep takes the file of the hour that begins as well.       *)
SweptToo == spotFiles

(* upload of the hour that is over, then sweep_stale.                      *)
Swept == spotFiles \ {hourRead'}

Rotate ==
  /\ spPc = "loop" /\ fileHour # wall
  /\ spPc' = "upload" /\ hourRead' = wall /\ toSend' = Swept
  /\ UNCHANGED <<wall, fileHour, sending, spotDisk, spotFiles, spotBucket, rowsMade, lastSent>>

(* upload: the copy replaces the object of that name, then the file goes.  *)
(* A copy that fails leaves the file for the next sweep.                   *)
CopyFile ==
  /\ spPc \in {"upload", "last"}
  /\ \E h \in toSend :
       /\ toSend' = toSend \ {h}
       /\ \/ /\ spotBucket' = [spotBucket EXCEPT ![h] = spotDisk[h]]
             /\ sending' = h /\ spPc' = IF spPc = "upload" THEN "unlink" ELSE "lastly"
             /\ lastSent' = IF spPc = "last" /\ h = wall THEN lastSent \cup {h} ELSE lastSent
          \/ UNCHANGED <<spotBucket, sending, spPc, lastSent>>
  /\ UNCHANGED <<hourRead, wall, fileHour, spotDisk, spotFiles, rowsMade>>

Unlink ==
  /\ spPc \in {"unlink", "lastly"}
  /\ spPc' = IF spPc = "unlink" THEN "upload" ELSE "last"
  /\ spotFiles' = spotFiles \ {sending} /\ spotDisk' = [spotDisk EXCEPT ![sending] = {}]
  /\ sending' = 0
  /\ UNCHANGED <<hourRead, wall, fileHour, toSend, spotBucket, rowsMade, lastSent>>

(* The hour read at the top of the loop is the one the file is opened for. *)
OpenHour ==
  /\ spPc = "upload" /\ toSend = {}
  /\ spPc' = "loop" /\ fileHour' = hourRead /\ spotFiles' = spotFiles \cup {hourRead}
  /\ UNCHANGED <<hourRead, wall, toSend, sending, spotDisk, spotBucket, rowsMade, lastSent>>

(* A tick that reads a price at one of the two venues; the hour may be     *)
(* over by then.                                                           *)
SpotRow ==
  /\ spPc = "loop" /\ fileHour \in spotFiles
  /\ LET n == Cardinality(UNION {rowsMade[h] : h \in Hours}) + 1
     IN  /\ n <= MaxRowsMade
         /\ spotDisk' = [spotDisk EXCEPT ![fileHour] = @ \cup {n}]
         /\ rowsMade' = [rowsMade EXCEPT ![fileHour] = @ \cup {n}]
  /\ UNCHANGED <<hourRead, spPc, wall, fileHour, toSend, sending, spotFiles, spotBucket, lastSent>>

HourPasses ==
  /\ wall < MaxHours /\ wall' = wall + 1
  /\ UNCHANGED <<hourRead, spPc, fileHour, toSend, sending, spotDisk, spotFiles, spotBucket, rowsMade,
                 lastSent>>

(* An interrupt unwinds through the finally, which uploads every file; any *)
(* other signal ends the process where it is.                              *)
SpotInterrupted ==
  /\ spPc \in {"loop", "upload", "unlink"} /\ spPc' = "last" /\ toSend' = spotFiles
  /\ UNCHANGED <<hourRead, wall, fileHour, sending, spotDisk, spotFiles, spotBucket, rowsMade, lastSent>>

SpotEnds ==
  /\ spPc # "off" /\ spPc' = "off"
  /\ UNCHANGED <<hourRead, wall, fileHour, toSend, sending, spotDisk, spotFiles, spotBucket, rowsMade,
                 lastSent>>

SpotStep ==
  \/ SpotStarts \/ Rotate \/ CopyFile \/ Unlink \/ OpenHour \/ SpotRow \/ HourPasses
  \/ SpotInterrupted \/ SpotEnds

-----------------------------------------------------------------------------
(* settlement_candles.                                                     *)

(* Random.sample, by where the stream of random numbers is.                *)
SampledAt(pool, at) ==
  LET n == Len(pool)
  IN  [i \in 1..PerFamily |-> pool[1 + ((at + i) % n)]]

(* The draw of a family, whatever families the run is over.                *)
Drawn(f) ==
  IF Len(FamilyPools[f]) <= PerFamily THEN FamilyPools[f]
  ELSE SampledAt(FamilyPools[f], SeedOf[f])

(* choose: the families in order, each with its own stream.                *)
Choose(families) ==
  FlattenSeq([i \in DOMAIN FamilyOrder |->
                IF FamilyOrder[i] \in families THEN Drawn(FamilyOrder[i]) ELSE <<>>])

(* fetch begins with what can be read of the file.                         *)
FetchStarts ==
  /\ cdPc = "off" /\ runs < MaxRuns /\ runs' = runs + 1 /\ cdPc' = "fetch"
  /\ \E families \in SUBSET Range(FamilyOrder) : sample' = Choose(families)
  /\ fetchDone' = Range(corpus) /\ nextMarket' = 1 /\ droppedNow' = {} /\ tornFound' = tornTail
  /\ UNCHANGED <<corpus, tornTail>>

(* One market: passed over, fetched, or dropped after six attempts.  A row *)
(* that is written behind a torn line cannot be read.                      *)
FetchMarket ==
  /\ cdPc = "fetch" /\ nextMarket <= Len(sample) /\ nextMarket' = nextMarket + 1
  /\ LET t == sample[nextMarket]
     IN  \/ t \in fetchDone /\ UNCHANGED <<corpus, tornTail, droppedNow>>
         \/ /\ t \notin fetchDone /\ tornTail' = FALSE /\ UNCHANGED droppedNow
            /\ corpus' = IF tornTail THEN corpus ELSE Append(corpus, t)
         \/ /\ t \notin fetchDone /\ droppedNow' = droppedNow \cup {t}
            /\ UNCHANGED <<corpus, tornTail>>
  /\ UNCHANGED <<cdPc, sample, fetchDone, tornFound, runs>>

FetchEnds ==
  /\ cdPc = "fetch" /\ nextMarket > Len(sample) /\ cdPc' = "ended"
  /\ UNCHANGED <<sample, fetchDone, nextMarket, corpus, tornTail, tornFound, droppedNow, runs>>

FetchKilled ==
  /\ cdPc = "fetch" /\ cdPc' = "off"
  /\ tornTail' \in {tornTail, TRUE}
  /\ UNCHANGED <<sample, fetchDone, nextMarket, corpus, tornFound, droppedNow, runs>>

FetchAgain ==
  /\ cdPc = "ended" /\ cdPc' = "off"
  /\ UNCHANGED <<sample, fetchDone, nextMarket, corpus, tornTail, tornFound, droppedNow,
                 runs>>

CandlesStep == FetchStarts \/ FetchMarket \/ FetchEnds \/ FetchKilled \/ FetchAgain

-----------------------------------------------------------------------------
(* tennis_depth_recorder: a list of the quoting markets every few minutes, *)
(* a touch row of each of them every cycle, and the books of the busiest.  *)

(* A refresh: each market is seen at some time within it.  Series that     *)
(* fail have no markets, and without any there is no other attempt before  *)
(* the list is old.                                                        *)
Refresh ==
  /\ depthPc = "top" /\ clock < MaxTime /\ clock - refreshed > ListRefresh
  /\ \E took \in 0..MaxListing :
       /\ clock' = clock + took /\ refreshed' = clock
       /\ \/ \E seen \in clock..(clock + took) :
               /\ listed' = <<seen>> /\ depthPc' = "books"
               /\ touchRows' = <<[ts |-> clock, seen |-> seen, first |-> TRUE]>>
          \/ listed' = <<>> /\ touchRows' = <<>> /\ depthPc' = "sleep"

Cycle ==
  /\ depthPc = "top" /\ clock < MaxTime /\ clock - refreshed <= ListRefresh
  /\ touchRows' = [i \in DOMAIN listed |-> [ts |-> clock, seen |-> listed[i], first |-> FALSE]]
  /\ depthPc' = IF listed = <<>> THEN "sleep" ELSE "books"
  /\ UNCHANGED <<clock, refreshed, listed>>

(* The books of the busiest take their time; a cycle lasts a POLL_SEC at   *)
(* least.                                                                  *)
Books ==
  /\ depthPc \in {"books", "sleep"} /\ depthPc' = "top"
  /\ \E d \in 1..MaxCycle : (depthPc = "sleep" => d = 1) /\ clock' = clock + d
  /\ UNCHANGED <<refreshed, listed, touchRows>>

DepthStep == Refresh \/ Cycle \/ Books

-----------------------------------------------------------------------------
(* poll_record: events in the shape of the feed's, from books polled.      *)

(* pick_liquid_tickers: the candidates with two sides and some volume, the *)
(* one of most volume first; a market of a series may come again among the *)
(* events.                                                                 *)
Candidates(offers) ==
  SortSeq(SelectSeq(offers, LAMBDA o : o.quoted /\ o.volume >= MinVolume),
          LAMBDA a, b : a.volume > b.volume)
Shortlist(offers) ==
  LET ranked == Candidates(offers)
  IN  [i \in 1..Min({Len(ranked), Shortlisted}) |-> ranked[i].ticker]

(* The n with the highest scores of S, and their orders from the highest   *)
(* on; equal ones in any order, which the code leaves to their names.      *)
BestOf(S, score, n) ==
  {T \in SUBSET S : /\ Cardinality(T) = Min({n, Cardinality(S)})
                    /\ \A a \in T, b \in S \ T : score[a] >= score[b]}
BestFirst(T, score) ==
  {s \in [1..Cardinality(T) -> T] :
     IsInjective(s) /\ \A i, j \in DOMAIN s : i < j => score[s[i]] >= score[s[j]]}

(* _rank_by_churn: those whose book moved, the most first, or all when     *)
(* none did; a market whose book was not read twice is left out.           *)
RankByChurn(tickers, churn, count) ==
  LET scored == tickers \cap DOMAIN churn
      moving == {t \in scored : churn[t] > 0}
  IN  UNION {BestFirst(T, churn) : T \in BestOf(IF moving = {} THEN scored ELSE moving, churn, count)}

(* The tickers are picked; the manifest names them, and the answer to the  *)
(* subscription that a replay will wait for is written first.              *)
Pick ==
  /\ polledTickers = <<>>
  /\ \E offers \in Offers : \E read \in SUBSET Range(Shortlist(offers)) :
       \E churn \in [read -> 0..1] :
         polledTickers' \in IF Len(Shortlist(offers)) <= AutoCount THEN {Shortlist(offers)}
                            ELSE RankByChurn(Range(Shortlist(offers)), churn, AutoCount)
  /\ UNCHANGED <<recordedBooks, rebuilt, wire, pollSeq, pollAt>>

(* fetch_book: the levels of the no side in prices of the yes side.        *)
FetchBook(raw) ==
  [yes |-> raw.yes, no |-> [p \in DOMAIN raw.no |-> raw.no[DollarLevel - p]]]

(* Faulty: a level that was not there before has no delta.                 *)
KnownLevels(before, after) == {p \in DOMAIN before : before[p] # 0}

Levels(before, after) == DOMAIN before

Sorted(prices) ==
  CHOOSE s \in [1..Cardinality(prices) -> prices] : \A i, j \in DOMAIN s : i < j => s[i] < s[j]

(* delta_messages: a delta of every level whose size has changed.          *)
DeltaMessages(t, seq, side, before, after) ==
  LET inOrder == Sorted({p \in Levels(before, after) : after[p] # before[p]})
  IN  [i \in DOMAIN inOrder |->
         [type |-> "delta", seq |-> seq + i, ticker |-> t, side |-> side, price |-> inOrder[i],
          by |-> after[inOrder[i]] - before[inOrder[i]]]]

SnapshotMessage(t, seq, book) == [type |-> "snapshot", seq |-> seq, ticker |-> t, book |-> book]

(* The deltas of both sides are numbered through.                          *)
Numbered(messages, seq) == [i \in DOMAIN messages |-> [messages[i] EXCEPT !.seq = seq + i]]

(* What a reader makes of an event.                                        *)
Applied(book, m) ==
  IF m.type = "snapshot" THEN m.book
  ELSE [book EXCEPT ![m.side][m.price] = @ + m.by]

With(books, t, book) == [u \in DOMAIN books \cup {t} |-> IF u = t THEN book ELSE books[u]]

(* What a poll writes: a snapshot of a market that is new, or what changed.*)
PollEvents(t, book) ==
  IF t \notin DOMAIN recordedBooks THEN <<SnapshotMessage(t, pollSeq + 1, book)>>
  ELSE Numbered(DeltaMessages(t, pollSeq, "yes", recordedBooks[t].yes, book.yes)
                  \o DeltaMessages(t, pollSeq, "no", recordedBooks[t].no, book.no), pollSeq)

(* One market of the round; its poll may fail.                             *)
Poll ==
  /\ polledTickers # <<>> /\ pollSeq < MaxSeq
  /\ pollAt' = 1 + (pollAt % Len(polledTickers))
  /\ UNCHANGED polledTickers
  /\ LET t == polledTickers[pollAt]
     IN  \/ wire' = <<>> /\ UNCHANGED <<recordedBooks, rebuilt, pollSeq>>
         \/ \E raw \in PolledBooks :
              LET book == FetchBook(raw)
              IN  /\ wire' = PollEvents(t, book)
                  /\ pollSeq' = pollSeq + Len(wire')
                  /\ recordedBooks' = With(recordedBooks, t, book)
                  /\ rebuilt' = With(rebuilt, t,
                       FoldLeft(Applied, IF t \in DOMAIN rebuilt THEN rebuilt[t] ELSE book, wire'))

PollStep == Pick \/ Poll

-----------------------------------------------------------------------------
(* collect_loop: a cycle waits for windows to open, looks for markets and  *)
(* records some of them.                                                   *)

(* wait_for_window_open: a little after the next opening, and at most a    *)
(* window's length from now.                                               *)
WaitForWindow ==
  /\ selPc = "begin" /\ selPc' = "look" /\ begunAt' = selAt
  /\ selAt' = IF align THEN selAt + Min({WindowLen - selAt + SettleTime, WindowLen}) ELSE selAt
  /\ UNCHANGED <<align, found, targets>>

(* What the exchange lists of a pinned series: the window that is open,    *)
(* which has two sides after a while, and for a while the one before it.   *)
Windows(p, ready, lag) ==
  LET since == selAt % WindowLen
      window(which, left) == [ticker |-> <<p, which>>, bid |-> 2, ask |-> 3, volume |-> 0, left |-> left,
                              ranges |-> <<>>]
  IN  (IF since >= ready THEN {window("open", WindowLen - since)} ELSE {})
        \cup (IF since < lag THEN {window("over", -since)} ELSE {})

IsShortWindow(m) == m.ticker[1] \in PinnedSeries
Pinnable(m) == IsShortWindow(m) /\ m.left >= MinPinned
PinnedIn(all) == {m.ticker : m \in {x \in all : Pinnable(x)}}
IsQuotable(m) == 0 < m.bid /\ m.bid < m.ask /\ m.ask < Par

(* candidate_markets: a short window needs no volume.                      *)
CandidateMarkets(all) ==
  {m \in all : IsQuotable(m) /\ (m.volume >= MinVolume \/ IsShortWindow(m))}

(* tick_at_price: the step of the first range that holds the price.        *)
TickAtPrice(ranges, price) ==
  LET holding == SelectSeq(ranges, LAMBDA r : r.low <= price /\ price <= r.high /\ r.step > 0)
  IN  IF holding = <<>> THEN CommonTick ELSE holding[1].step

(* _tick_size: the tick of a market is the one in the middle of its spread.*)
Middle(m) == (m.bid + m.ask) \div 2
TickSize(m) == TickAtPrice(m.ranges, Middle(m))

(* parse_market.                                                           *)
ParseMarket(m) == [mid |-> Middle(m), spread |-> m.ask - m.bid, tick |-> TickSize(m)]

(* capturable_ticks: to improve takes whole ticks, and one must be left.   *)
CapturableTicks(q) ==
  LET tick == Max({1, q.tick})
      room == Max({0, q.spread - tick})
      improvement == (Min({2 * Improvement, room}) \div tick) * tick
  IN  Max({tick, q.spread - improvement})

(* score_market.                                                           *)
NetEdge(m) == CapturableTicks(ParseMarket(m)) - FeeTicks[ParseMarket(m).mid]

(* rank_candidates: of those that pay their fee, or nearly so, the best.   *)
RankCandidates(all) ==
  LET near == {m \in all : NetEdge(m) > -NearMiss}
  IN  {{m.ticker : m \in T} : T \in BestOf(near, [m \in near |-> NetEdge(m)], Shortlisted)}

(* run_cycle: the pinned windows, and what churns most for the slots left. *)
RunCycle ==
  /\ selPc = "look" /\ selPc' = "record"
  /\ \E ready \in 0..SettleTime, lag \in 0..SettleTime, answered \in SUBSET PinnedSeries, other \in Listings :
       found' = CandidateMarkets(other \cup UNION {Windows(p, ready, lag) : p \in answered})
  /\ LET pinned == SetToSeq(PinnedIn(found'))
         remaining == Max({0, Slots - Len(pinned)})
     IN  \E shortlisted \in RankCandidates(found') :
         \E read \in SUBSET (shortlisted \ Range(pinned)) : \E churn \in [read -> 0..1] :
         \E ranked \in IF remaining = 0 THEN {<<>>}
                      ELSE RankByChurn(shortlisted \ Range(pinned), churn, remaining) :
           targets' = pinned \o ranked
  /\ UNCHANGED <<align, selAt, begunAt>>

(* The recording and its upload, a failure or a pause.                     *)
NextCycle ==
  /\ selPc = "record" /\ selPc' = "begin"
  /\ \E d \in CycleTimes : selAt' = (selAt + d) % WindowLen
  /\ found' = {} /\ targets' = <<>> /\ UNCHANGED <<align, begunAt>>

ChoiceStep == WaitForWindow \/ RunCycle \/ NextCycle

-----------------------------------------------------------------------------
(* settlement_crawl: the settled markets, a page at a time, while others   *)
(* settle.                                                                 *)

(* The file is opened anew, whatever a crawl before left in it.            *)
CrawlStarts ==
  /\ crPc = "off" /\ crawls < MaxCrawls /\ crawls' = crawls + 1
  /\ crPc' = "page" /\ filtered' = TRUE /\ cursor' = 0 /\ attempt' = 0
  /\ crawlFile' = EmptyFile /\ beganAt' = settledBy /\ UNCHANGED settledBy

(* What the exchange lists behind the cursor, and the page that it sends   *)
(* of that.                                                                *)
Behind == {i \in settledBy..Len(Settled) : i > cursor /\ (filtered => Settled[i].recent)}
Page == {i \in Behind : Cardinality({j \in Behind : j <= i}) <= PageSize}

(* A page: the traded ones are written, without the fields nobody needs.   *)
(* A market without a volume is not.                                       *)
CrawlPage ==
  /\ crPc = "page" /\ attempt' = 0
  /\ crawlFile' = [i \in DOMAIN Settled |->
                     crawlFile[i] + IF i \in Page /\ Settled[i].traded THEN 1 ELSE 0]
  /\ IF Cardinality(Behind) > PageSize
     THEN cursor' = Max(Page) /\ UNCHANGED crPc
     ELSE cursor' = 0 /\ crPc' = "ended"
  /\ UNCHANGED <<filtered, settledBy, beganAt, crawls>>

(* throttled: a fault of the network and a 429 are tried again.            *)
BackOff ==
  /\ crPc = "page" /\ attempt < MaxBackoffs - 1 /\ attempt' = attempt + 1
  /\ UNCHANGED <<crPc, filtered, cursor, crawlFile, settledBy, beganAt, crawls>>

(* The exchange does not know the filter, at whichever page it says so: it *)
(* is left out from there on, and the cursor stays.                        *)
FilterRejected ==
  /\ crPc = "page" /\ filtered /\ filtered' = FALSE /\ attempt' = 0
  /\ UNCHANGED <<crPc, cursor, crawlFile, settledBy, beganAt, crawls>>

(* The last attempt, another error or a signal: what was written stays.    *)
CrawlDies ==
  /\ crPc = "page" /\ crPc' = "off"
  /\ UNCHANGED <<filtered, cursor, attempt, crawlFile, settledBy, beganAt, crawls>>

Settles ==
  /\ settledBy > 1 /\ settledBy' = settledBy - 1
  /\ UNCHANGED <<crPc, filtered, cursor, attempt, crawlFile, beganAt, crawls>>

CrawlStep ==
  CrawlStarts \/ CrawlPage \/ BackOff \/ FilterRejected \/ CrawlDies \/ Settles
=============================================================================
