-------------------------------- MODULE Probes --------------------------------
(***************************************************************************)
(* The exchange as the two probes see it: scripts that place real orders   *)
(* of one contract to measure fees (calibrate_fees) and queues (queue_experiments).     *)
(* Every order stays at rest until it trades or is canceled, a contract    *)
(* may trade in parts, a call that raises may have been carried out, at    *)
(* once or later, and a listing may miss an order that was just taken.     *)
(***************************************************************************)
EXTENDS Integers, FiniteSets, SequencesExt

CONSTANTS
  Tickers,
  CountScale,    \* COUNT_SCALE: units of a contract
  MaxSent,       \* bound: orders ever sent
  PriceOne,      \* ONE_DOLLAR, in units of a price
  EventPages     \* bound: what the exchange may list, as sequences of pages of markets:
                 \* [ticker, series, combo, bid, ask, volume, lifetime, book], a book being
                 \* the sizes at its prices, [yes, no]

ASSUME ProbesAssumption == CountScale \in Nat /\ MaxSent \in Nat

VARIABLES
  pos,           \* market -> units held
  orders,        \* order -> its market, its kind, its direction, what rests of it
  sent,          \* orders sent so far; orders are numbered
  traded,        \* orders that the ledger of fills shows
  late,          \* creates nobody waits for that may still be taken
  fresh,         \* the last order taken, as long as a listing may miss it; orders
                 \* of the cleanup itself aside, which nothing lists
  unclean        \* history: markets where a call of the cleanup failed, or that it
                 \* did not get to

atExchange == <<pos, orders, sent, traded, late, fresh>>
exchange == <<atExchange, unclean>>

None == 0
NoOrder == [ticker |-> "none", kind |-> "none", dir |-> 0, left |-> 0]

ExchangeInit ==
  /\ pos = [t \in Tickers |-> 0] /\ orders = [i \in 1..MaxSent |-> NoOrder] /\ sent = 0
  /\ traded = {} /\ late = {} /\ fresh = None /\ unclean = {}

Request(t, kind, d, n) == [ticker |-> t, kind |-> kind, dir |-> d, left |-> n]

(* The order is taken, and now of its units trade as it arrives.           *)
Takes(o, now) ==
  /\ sent < MaxSent /\ sent' = sent + 1
  /\ orders' = [orders EXCEPT ![sent + 1] = [o EXCEPT !.left = @ - now]]
  /\ pos' = [pos EXCEPT ![o.ticker] = @ + o.dir * now]
  /\ traded' = IF now > 0 THEN traded \cup {sent + 1} ELSE traded

(* A listing may not show it yet.                                          *)
Unlisted(o) == fresh' = IF o.kind = "last" THEN fresh ELSE sent + 1

(* An order that must rest does not trade as it arrives.                   *)
Taken(o, postOnly) ==
  /\ \E now \in 0..(IF postOnly THEN 0 ELSE o.left) : Takes(o, now)
  /\ Unlisted(o) /\ UNCHANGED late

(* The request of a create that raised: taken, or it may be taken later,   *)
(* or it never was.                                                        *)
Raised(o, postOnly) ==
  \/ Taken(o, postOnly)
  \/ late' = late \cup {o} /\ UNCHANGED <<pos, orders, sent, traded, fresh>>
  \/ UNCHANGED atExchange

TakenLate ==
  \E o \in late : Takes(o, 0) /\ Unlisted(o) /\ late' = late \ {o}

Trades(i) ==
  /\ orders[i].left > 0
  /\ orders' = [orders EXCEPT ![i].left = @ - 1]
  /\ pos' = [pos EXCEPT ![orders[i].ticker] = @ + orders[i].dir]
  /\ traded' = traded \cup {i} /\ UNCHANGED <<sent, late, fresh>>

Cancels(is) ==
  /\ orders' = [i \in DOMAIN orders |->
                  IF i \in is THEN [orders[i] EXCEPT !.left = 0] ELSE orders[i]]
  /\ UNCHANGED <<pos, sent, traded, late>>

(* The script sleeps for two seconds, and what it sent is listed by then.  *)
Slept == fresh' = None
Sleeps == Slept /\ UNCHANGED <<pos, orders, sent, traded, late>>

RestingAt(t) == {i \in DOMAIN orders : orders[i].ticker = t /\ orders[i].left > 0}

Listable(is) == {listed \in SUBSET is : is \ {fresh} \subseteq listed}

Cents(n) == n * (PriceOne \div 100)
Quoted(m, low, high) == low < m.bid /\ m.bid < m.ask /\ m.ask < high

(* The markets of the first n pages; the rest is not asked for.            *)
Paged(pages, n) == FlattenSeq(SubSeq(pages, 1, Min({n, Len(pages)})))

-----------------------------------------------------------------------------
(***************************************************************************)
(* scripts/calibrate_fees.py: up to --round-trips times, buy one contract  *)
(* by an order that must rest, and sell it the same way.  Every call may   *)
(* raise, and so does an interrupt at any of them: the script goes to its  *)
(* finally.                                                                *)
(***************************************************************************)
CONSTANTS
  RoundTrips,    \* --round-trips
  Targets,       \* bound: --ticker, in a sequence, or an empty one
  FeeVolume,     \* --min-volume
  FeeSpread      \* --max-spread, in cents

VARIABLES
  fPc,           \* the call the script is at
  trip,          \* round trips begun
  own,           \* order_id or exit_order_id: the order it waits for
  picked         \* the market it trades, in a sequence, or an empty one

fee == <<fPc, trip, own, picked>>

(* pick_market: near the middle, the one with the most volume for its      *)
(* spread, and of equals the first.                                        *)
Suits(m) ==
  /\ ~m.combo /\ Cents(30) <= m.bid /\ m.bid < m.ask /\ m.ask <= Cents(70)
  /\ m.volume >= FeeVolume /\ m.ask - m.bid <= Cents(FeeSpread)
Outscores(m, n) ==
  LET spread(x) == Max({Cents(1), x.ask - x.bid})
  IN  m.volume * spread(n) > n.volume * spread(m)
PickMarket(pages) ==
  FoldLeft(LAMBDA best, m : IF best = <<>> \/ Outscores(m, best[1]) THEN <<m>> ELSE best,
           <<>>, SelectSeq(Paged(pages, 8), Suits))

FeeMarket == picked[1]

FeeInit ==
  /\ fPc = "start" /\ trip = 0 /\ own = None
  /\ \E target \in Targets, pages \in EventPages :
       picked = IF target # <<>> THEN target
                ELSE [k \in DOMAIN PickMarket(pages) |-> PickMarket(pages)[k].ticker]

FeeRaises == fPc' = "final" /\ UNCHANGED <<trip, own>>

(* The balance is over --max-balance, no market suits, it is a dry run, or *)
(* the phrase is not typed; else the ledger so far is read.                *)
FeeStarts ==
  /\ fPc = "start"
  /\ fPc' \in {"ended", "final"} \cup IF picked = <<>> THEN {} ELSE {"trip"}
  /\ UNCHANGED <<trip, own, atExchange>>

(* The trips are over or the loss limit is hit; else the entry is sent at  *)
(* the bid or inside the spread.                                           *)
BeginTrip ==
  /\ fPc = "trip"
  /\ LET entry == Request(FeeMarket, "entry", 1, CountScale) IN
     \/ fPc' \in {"after", "final"} /\ UNCHANGED <<trip, own, atExchange>>
     \/ /\ trip < RoundTrips /\ trip' = trip + 1
        /\ \/ Taken(entry, TRUE) /\ own' = sent + 1 /\ fPc' = "entry"
           \/ UNCHANGED atExchange /\ own' = None /\ fPc' = "trip"
           \/ Raised(entry, TRUE) /\ own' = own /\ fPc' = "final"

(* wait_for_fill sleeps first: a poll of the ledger shows the order, or    *)
(* the time is up.                                                         *)
EntryFilled ==
  /\ fPc = "entry" /\ own \in traded /\ fPc' = "exit"
  /\ Sleeps /\ UNCHANGED <<trip, own>>

EntryTimesOut ==
  /\ fPc = "entry" /\ UNCHANGED <<trip, own>>
  /\ \/ fPc' = "final" /\ UNCHANGED atExchange
     \/ fPc' \in {"trip", "final"} /\ Cancels({own}) /\ Slept

(* The exit is sent at the ask.  A refused one is not waited for, and the  *)
(* next trip begins.                                                       *)
SendExit ==
  /\ fPc = "exit" /\ UNCHANGED trip
  /\ LET out == Request(FeeMarket, "exit", -1, CountScale) IN
     \/ fPc' = "final" /\ UNCHANGED <<own, atExchange>>
     \/ Taken(out, TRUE) /\ own' = sent + 1 /\ fPc' = "wait"
     \/ UNCHANGED atExchange /\ own' = None /\ fPc' = "trip"
     \/ Raised(out, TRUE) /\ fPc' = "final" /\ UNCHANGED <<own>>

ExitFilled ==
  /\ fPc = "wait" /\ own \in traded /\ fPc' = "trip"
  /\ Sleeps /\ UNCHANGED <<trip, own>>

ExitTimesOut ==
  /\ fPc = "wait" /\ UNCHANGED <<trip, own>>
  /\ \/ fPc' = "final" /\ UNCHANGED atExchange
     \/ fPc' \in {"after", "final"} /\ Cancels({own}) /\ Slept

(* The fills are read and compared with the fee model.                     *)
CompareFees == fPc = "after" /\ FeeRaises /\ UNCHANGED atExchange

(* Faulty: the entries are looked for.                                     *)
FeeEntries == {i \in RestingAt(FeeMarket) : orders[i].kind = "entry"}

FeeOrders == RestingAt(FeeMarket)

(* The finally: what is listed of the script's orders is canceled, one by  *)
(* one; a call that raises, or an interrupt, ends it.                      *)
FeeCleanup ==
  /\ fPc = "final" /\ fPc' = "ended" /\ UNCHANGED <<trip, own>>
  /\ \/ picked = <<>> /\ UNCHANGED exchange
     \/ /\ picked # <<>> /\ UNCHANGED <<fresh, unclean>>
        /\ \E listed \in Listable(FeeOrders) : Cancels(listed)
     \/ /\ picked # <<>> /\ UNCHANGED fresh /\ unclean' = unclean \cup {FeeMarket}
        /\ \E some \in SUBSET FeeOrders : Cancels(some)

FeeStep ==
  \/ /\ UNCHANGED <<picked, unclean>>
     /\ \/ FeeStarts \/ BeginTrip \/ EntryFilled \/ EntryTimesOut \/ SendExit \/ ExitFilled
        \/ ExitTimesOut \/ CompareFees
  \/ UNCHANGED picked /\ FeeCleanup
  \/ UNCHANGED <<fee, unclean>> /\ (TakenLate \/ \E i \in DOMAIN orders : Trades(i))

-----------------------------------------------------------------------------
(***************************************************************************)
(* scripts/queue_experiments.py: trials of one contract, each followed by  *)
(* flatten, which crosses what the account holds of the market; what it    *)
(* does not get stays at rest.  A call that raises, or an interrupt, leads *)
(* to the finally, which cleans up market by market; an interrupt there    *)
(* ends it.                                                                *)
(***************************************************************************)
CONSTANTS
  Trials,        \* --trials
  Sweeps,        \* bound: --series, sequences of series; an empty one sweeps the exchange
  QueueVolume,   \* --min-volume
  Probed,        \* --probe
  ThinDepth,     \* --thin-depth
  PerMode,       \* --per-mode
  RestCount      \* how many --rests

VARIABLES
  qPc,           \* the call the script is at
  plan,          \* the trials to come: mode and market
  trial,         \* the trial under way, or the market that is cleaned up
  awaited,       \* order_id: the order the trial waits for
  touched,       \* markets touched and not yet cleaned up
  want,          \* units that the flatten under way read as held
  over           \* history: market -> units that earlier flattens had yet to
                 \* sell when what is held was read for another

queue == <<qPc, plan, trial, awaited, touched, want, over>>

Modes == <<"touch", "inside", "cross">>
NoTrial == [mode |-> "none", ticker |-> "none"]
At(mode, t) == [mode |-> mode, ticker |-> t]
Cleaning == trial.mode = "clean"

(* Round-robin: a trial of each mode that has any left, over and over.     *)
Interleaved(pool) ==
  FlattenSeq([k \in 1..Cardinality(UNION {DOMAIN pool[m] : m \in DOMAIN pool}) |->
    LET left == SelectSeq(Modes, LAMBDA m : k \in DOMAIN pool[m])
    IN  [j \in DOMAIN left |-> At(left[j], pool[left[j]][k])]])

Cut(trials) == SubSeq(trials, 1, IF Len(trials) < Trials THEN Len(trials) ELSE Trials)

(* book_state: the touch of a book of two sides that is not crossed; NO    *)
(* prices are the ask side mirrored about a dollar.                        *)
BothSides(book) == DOMAIN book.yes # {} /\ DOMAIN book.no # {}
BestBid(book) == Max(DOMAIN book.yes)
BestAsk(book) == PriceOne - Max(DOMAIN book.no)
BookSpread(book) == BestAsk(book) - BestBid(book)
BidDepth(book) == book.yes[BestBid(book)]
HasState(book) == BothSides(book) /\ BestBid(book) < BestAsk(book)

(* candidates: what is busiest now, of a price in the middle, as far as    *)
(* books are probed.                                                       *)
SweptCandidates(pages, answered) ==
  LET found == SelectSeq(Paged(pages, 6), LAMBDA m :
                 ~m.combo /\ Quoted(m, Cents(10), Cents(90)) /\ m.volume >= QueueVolume)
      busiest == SortSeq(found, LAMBDA m, n : m.volume > n.volume)
  IN  SelectSeq(SubSeq(busiest, 1, Min({Probed, Len(busiest)})),
                LAMBDA m : m.ticker \in answered /\ HasState(m.book))

(* _series_candidates: the markets of the series that were named, whatever *)
(* their price and volume.                                                 *)
SeriesCandidates(pages, named, answered) ==
  LET listed(s) == SelectSeq(FlattenSeq(pages), LAMBDA m :
                     /\ m.series = s /\ Quoted(m, 0, PriceOne)
                     /\ m.ticker \in answered /\ HasState(m.book))
  IN  SortSeq(FlattenSeq([i \in DOMAIN named |-> listed(named[i])]),
              LAMBDA m, n : m.lifetime > n.lifetime)

QueueMarkets(pages, named, answered) ==
  IF named = <<>> THEN SweptCandidates(pages, answered)
  ELSE SeriesCandidates(pages, named, answered)

(* Wide markets are for "inside", thin ones, or all, for the other modes;  *)
(* each is tried with every time to rest.                                  *)
Pool(mode, probed) ==
  LET thin == SelectSeq(probed, LAMBDA m : BidDepth(m.book) <= ThinDepth)
      wide == SelectSeq(probed, LAMBDA m : BookSpread(m.book) > Cents(1))
      pool == IF mode = "inside" THEN wide ELSE IF thin = <<>> THEN probed ELSE thin
  IN  FlattenSeq([i \in 1..Min({PerMode, Len(pool)}) |->
                   [k \in 1..RestCount |-> pool[i].ticker]])

QueueInit ==
  /\ qPc = "start" /\ trial = NoTrial /\ awaited = None
  /\ touched = {} /\ want = 0 /\ over = [t \in Tickers |-> 0]
  /\ \E pages \in EventPages, named \in Sweeps, answered \in SUBSET Tickers :
       LET probed == QueueMarkets(pages, named, answered)
       IN  plan = Cut(Interleaved([mode \in ToSet(Modes) |-> Pool(mode, probed)]))

QueueStarts ==
  /\ qPc = "start" /\ qPc' \in {"ended", "trial"}
  /\ UNCHANGED <<plan, trial, awaited, touched, want, over, atExchange, unclean>>

(* Out of the loop, or, if it is no interrupt, out of the cleanup of one   *)
(* market to the next.                                                     *)
ToCleanup ==
  /\ qPc' = "clean" /\ trial' = NoTrial
  /\ UNCHANGED <<plan, awaited, touched, want, over, unclean>>

(* An interrupt of the cleanup: what it did not get to is left as it is.   *)
Interrupted ==
  /\ qPc' = "ended" /\ trial' = NoTrial /\ touched' = {}
  /\ unclean' = unclean \cup touched /\ UNCHANGED <<plan, awaited, want, over>>

QueueRaises ==
  /\ qPc \in {"trial", "create", "poll", "flatten", "cross", "check"}
  /\ ToCleanup \/ (Cleaning /\ Interrupted)
  /\ UNCHANGED atExchange

(* The plan is done or the loss limit is reached; else the next trial      *)
(* reads the book, and is skipped if there is none or no room inside.      *)
BeginTrial ==
  /\ qPc = "trial" /\ UNCHANGED <<atExchange, unclean>>
  /\ \/ ToCleanup
     \/ /\ plan # <<>> /\ trial' = Head(plan) /\ plan' = Tail(plan)
        /\ touched' = touched \cup {Head(plan).ticker}
        /\ qPc' \in {"create", "trial"}
        /\ UNCHANGED <<awaited, want, over>>

(* run_trial sends its bid, to rest or to cross.  A refused one ends the   *)
(* trial without flatten.                                                  *)
SendBid ==
  /\ qPc = "create" /\ UNCHANGED <<plan, touched, want, over, unclean>>
  /\ LET bid == Request(trial.ticker, "entry", 1, CountScale)
         rests == trial.mode # "cross"
     IN  \/ Taken(bid, rests) /\ awaited' = sent + 1 /\ qPc' = "poll" /\ UNCHANGED trial
         \/ UNCHANGED atExchange /\ qPc' = "trial" /\ UNCHANGED <<awaited, trial>>
         \/ Raised(bid, rests) /\ qPc' = "clean" /\ trial' = NoTrial /\ UNCHANGED awaited

(* After a sleep, a poll of the ledger shows a fill, in full or not, or    *)
(* the time is up and the order is canceled.                               *)
BidFilled ==
  /\ qPc = "poll" /\ awaited \in traded /\ qPc' = "flatten"
  /\ Sleeps /\ UNCHANGED <<plan, trial, awaited, touched, want, over, unclean>>

BidTimesOut ==
  /\ qPc = "poll" /\ qPc' = "flatten" /\ Cancels({awaited}) /\ Slept
  /\ UNCHANGED <<plan, trial, awaited, touched, want, over, unclean>>

(* flatten.                                                                *)
Sells(o, t) == o.ticker = t /\ o.dir = -1
Unsold(t) ==
  MapThenSumSet(LAMBDA i : orders[i].left, {i \in RestingAt(t) : Sells(orders[i], t)})
    + MapThenSumSet(LAMBDA o : o.left, {o \in late : Sells(o, t)})

ReadHeld ==
  /\ qPc = "flatten" /\ want' = pos[trial.ticker]
  /\ qPc' = IF want' # 0 THEN "cross" ELSE IF Cleaning THEN "clean" ELSE "trial"
  /\ over' = IF want' > 0 /\ over[trial.ticker] < Unsold(trial.ticker)
             THEN [over EXCEPT ![trial.ticker] = Unsold(trial.ticker)] ELSE over
  /\ UNCHANGED <<plan, trial, awaited, touched, atExchange, unclean>>

Held == IF want < 0 THEN -want ELSE want
Flattening ==
  Request(trial.ticker, IF Cleaning THEN "last" ELSE "flat", IF want > 0 THEN -1 ELSE 1, Held)

(* No book, or the touch is crossed for all that was read.                 *)
Cross ==
  /\ qPc = "cross" /\ UNCHANGED <<plan, trial, awaited, touched, want, over, unclean>>
  /\ \/ qPc' = (IF Cleaning THEN "clean" ELSE "trial") /\ UNCHANGED atExchange
     \/ Taken(Flattening, FALSE) /\ qPc' = "check"
     \/ UNCHANGED atExchange /\ qPc' = "check"

(* The create of flatten raised.                                           *)
CrossRaises ==
  /\ qPc = "cross" /\ Raised(Flattening, FALSE)
  /\ ToCleanup \/ (Cleaning /\ Interrupted)

(* It sleeps, and what is held is read for the log.                        *)
CheckHeld ==
  /\ qPc = "check" /\ qPc' = IF Cleaning THEN "clean" ELSE "trial"
  /\ IF Cleaning THEN UNCHANGED atExchange ELSE Sleeps
  /\ UNCHANGED <<plan, trial, awaited, touched, want, over, unclean>>

(* The finally: of each market touched, what is listed of the script's     *)
(* orders is canceled one by one and the rest is flattened; a failure      *)
(* leads to the next market, an interrupt to none.                         *)
CleanMarket ==
  /\ qPc = "clean" /\ UNCHANGED <<plan, awaited, want, over>>
  /\ \/ touched = {} /\ qPc' = "ended" /\ UNCHANGED <<trial, touched, exchange>>
     \/ \E t \in touched :
          /\ UNCHANGED fresh
          /\ \/ /\ \E listed \in Listable(RestingAt(t)) : Cancels(listed)
                /\ touched' = touched \ {t} /\ UNCHANGED unclean
                /\ trial' = At("clean", t) /\ qPc' = "flatten"
             \/ /\ \E some \in SUBSET RestingAt(t) : Cancels(some)
                /\ trial' = NoTrial
                /\ \/ qPc' = "clean" /\ touched' = touched \ {t} /\ unclean' = unclean \cup {t}
                   \/ qPc' = "ended" /\ touched' = {} /\ unclean' = unclean \cup touched

QueueStep ==
  \/ QueueStarts \/ QueueRaises \/ BeginTrial \/ SendBid \/ BidFilled \/ BidTimesOut
  \/ ReadHeld \/ Cross \/ CrossRaises \/ CheckHeld \/ CleanMarket
  \/ UNCHANGED <<queue, unclean>> /\ (TakenLate \/ \E i \in DOMAIN orders : Trades(i))
=============================================================================
