------------------------------- MODULE TakerFeed -------------------------------
(***************************************************************************)
(* The tasks of scripts/taker_live_test.py around the trade: pump reads    *)
(* the feed and finds signals, refresh looks for markets near their close, *)
(* shadow follows a signal that cannot be traded, and the loop of run      *)
(* takes one signal at a time.  The calls of a trade are those of          *)
(* TakerTest.                                                              *)
(***************************************************************************)
EXTENDS Integers, FiniteSets, SequencesExt

CONSTANTS
  CloseOf,         \* market of the series -> the time it closes
  PhaseMin, PhaseMax, Ahead,    \* PHASE_MIN, PHASE_MAX, the 600 s beyond it
  Cooldown,        \* COOLDOWN_SECONDS
  MaxFeedSilence,  \* MAX_FEED_SILENCE
  RefreshEvery,    \* the 120 s of refresh
  Span, Grace,     \* the last of SHADOW_HORIZONS, the 15 s beyond it
  Touches,         \* the books a market may have: [bid, ask, bidSz, askSz]
  Dollar,          \* ONE_DOLLAR
  MaxSpread, MinCrossable, EntryMin, EntryMax,
  Duration,        \* --duration-sec
  MaxSignals, MaxClock     \* bounds: signals, time

ASSUME TakerFeedAssumption ==
  Span \in Nat /\ Grace \in Nat \ {0} /\ MaxFeedSilence \in Nat

VARIABLES
  time,            \* now()
  execute,         \* --execute
  tfPc,            \* the loop: "top", "get", "trade", "over", "ended", or
                   \* "raised"
  haltedBy,        \* guard.halted: "", "silence", "guard"
  stop,            \* stats["stop"]
  pumping,         \* pump has not ended
  markets,         \* markets: those of CloseOf that are watched
  subscribeQueue,  \* subscribe_queue
  subscribed,      \* the markets whose books the server sends
  lastEvent,       \* stats["last_event"]
  nextRefresh,     \* when refresh wakes
  lastTrigger,     \* last_trigger
  pending,         \* pending: at most one signal
  inTrade,         \* the signals taken and not yet journalled
  shadows,         \* shadow_tasks: signal and when it began
  tRows,           \* the journal: the signals of its rows
  fired,           \* history: signals found
  awaitedTasks,    \* the tasks gather waits for
  overAt,          \* when it began to
  foundBy,         \* history: the signals found by then
  heardAt,         \* history: the last update or subscription
  watchedSince     \* history: when markets was last empty

takerLoop == <<execute, tfPc, haltedBy, inTrade, awaitedTasks, overAt, foundBy>>
pump == <<pumping, subscribed, lastEvent, lastTrigger, fired, heardAt>>
watching == <<markets, subscribeQueue, nextRefresh, watchedSince>>
takerFeed == <<time, stop, pending, shadows, tRows, takerLoop, pump, watching>>

Series == DOMAIN CloseOf

(* near_expiry_markets: those that close soon and not too soon, except the *)
(* ones whose close time is missing or cannot be parsed.                   *)
NearExpiry(unknown) ==
  {t \in Series \ unknown : CloseOf[t] - time \in PhaseMin..(PhaseMax + Ahead)}

TakerFeedInit ==
  /\ time = 0 /\ execute \in BOOLEAN /\ tfPc = "top" /\ haltedBy = "" /\ stop = FALSE
  /\ pumping = TRUE /\ \E u \in SUBSET Series : markets = NearExpiry(u)
  /\ subscribeQueue = IF markets = {} THEN <<>> ELSE <<markets>>
  /\ subscribed = {} /\ lastEvent = 0 /\ nextRefresh = RefreshEvery
  /\ lastTrigger = [t \in Series |-> -Cooldown] /\ pending = <<>> /\ inTrade = {}
  /\ shadows = {} /\ tRows = <<>> /\ fired = 0 /\ awaitedTasks = {} /\ overAt = 0
  /\ foundBy = 0
  /\ heardAt = 0 /\ watchedSince = 0

-----------------------------------------------------------------------------
(* pump.                                                                   *)

Abs(n) == IF n < 0 THEN -n ELSE n

(* evaluate: the side the touch leans to, when it leans by nine to one, at *)
(* a price of the cell, with enough to cross.                              *)
Evaluate(b) ==
  LET total == b.bidSz + b.askSz
      buying == b.bidSz > b.askSz
      entry == IF buying THEN b.ask ELSE b.bid
      equiv == IF buying THEN entry ELSE Dollar - entry
      crossable == IF buying THEN b.askSz ELSE b.bidSz
  IN  /\ b.ask - b.bid <= MaxSpread /\ total > 0
      /\ 10 * Abs(b.bidSz - b.askSz) >= 9 * total
      /\ equiv \in EntryMin..EntryMax /\ crossable >= MinCrossable

(* A full queue: the signal is followed instead.                           *)
Found(s) ==
  IF pending = <<>> THEN pending' = <<s>> /\ UNCHANGED shadows
  ELSE shadows' = shadows \cup {[signal |-> s, began |-> time]} /\ UNCHANGED pending

(* Subscriptions are confirmed before the next update is read; one that    *)
(* fails is not tried again.                                               *)
Subscribe ==
  /\ pumping /\ ~stop /\ subscribeQueue # <<>> /\ subscribeQueue' = Tail(subscribeQueue)
  /\ \/ /\ subscribed' = subscribed \cup Head(subscribeQueue)
        /\ lastEvent' = time /\ heardAt' = time
     \/ UNCHANGED <<subscribed, lastEvent, heardAt>>
  /\ UNCHANGED <<time, stop, pending, shadows, tRows, takerLoop, pumping, lastTrigger, fired,
                 markets, nextRefresh, watchedSince>>

(* An update of a market, which may fire a signal.                         *)
Update(t) ==
  /\ pumping /\ ~stop /\ t \in subscribed /\ lastEvent' = time /\ heardAt' = time
  /\ \E b \in Touches :
       IF /\ t \in markets /\ CloseOf[t] - time \in PhaseMin..PhaseMax
          /\ time - lastTrigger[t] >= Cooldown /\ Evaluate(b)
       THEN /\ fired < MaxSignals /\ fired' = fired + 1 /\ Found(fired')
            /\ lastTrigger' = [lastTrigger EXCEPT ![t] = time]
       ELSE UNCHANGED <<fired, pending, shadows, lastTrigger>>
  /\ UNCHANGED <<time, stop, tRows, takerLoop, pumping, subscribed, watching>>

(* The feed ends, or reading it raises and nobody looks at the task.       *)
PumpEnds ==
  /\ pumping /\ pumping' = FALSE /\ (stop' = TRUE \/ UNCHANGED stop)
  /\ UNCHANGED <<time, pending, shadows, tRows, takerLoop, subscribed, lastEvent, lastTrigger,
                 fired, heardAt, watching>>

-----------------------------------------------------------------------------
(* refresh.                                                                *)

(* Faulty: the clock of the silence is left to the subscription.           *)
LastEventAfterAll(added) == lastEvent

LastEventAfter(added) == IF added # {} THEN time ELSE lastEvent

Refreshes ==
  /\ ~stop /\ time >= nextRefresh /\ nextRefresh' = time + RefreshEvery
  /\ \/ UNCHANGED <<markets, subscribeQueue, lastEvent, watchedSince>>
     \/ \E u \in SUBSET Series :
          LET added == NearExpiry(u) \ markets
          IN  /\ markets' = NearExpiry(u)
              /\ lastEvent' = LastEventAfter(added)
              /\ subscribeQueue' = IF added = {} THEN subscribeQueue
                                   ELSE Append(subscribeQueue, added)
              /\ watchedSince' = IF markets = {} THEN time ELSE watchedSince
  /\ UNCHANGED <<time, stop, pending, shadows, tRows, takerLoop, pumping, subscribed,
                 lastTrigger, fired, heardAt>>

-----------------------------------------------------------------------------
(* The loop.                                                               *)

LoopEnds == tfPc' = "over" /\ overAt' = time /\ awaitedTasks' = shadows /\ foundBy' = fired

LoopTop ==
  /\ tfPc = "top"
  /\ IF time >= Duration \/ haltedBy # "" \/ stop THEN LoopEnds /\ UNCHANGED haltedBy
     ELSE IF markets # {} /\ time - lastEvent > MaxFeedSilence
     THEN LoopEnds /\ haltedBy' = "silence"
     ELSE tfPc' = "get" /\ UNCHANGED <<haltedBy, awaitedTasks, overAt, foundBy>>
  /\ UNCHANGED <<time, stop, pending, shadows, tRows, execute, inTrade, pump, watching>>

(* The signal is taken however old it is; a dry run follows it.  The       *)
(* guard ends the loop without a row.                                      *)
Take ==
  /\ tfPc = "get" /\ pending # <<>> /\ pending' = <<>>
  /\ \/ /\ ~execute /\ tfPc' = "top"
        /\ shadows' = shadows \cup {[signal |-> Head(pending), began |-> time]}
        /\ UNCHANGED <<haltedBy, inTrade, awaitedTasks, overAt, foundBy>>
     \/ /\ execute /\ tfPc' = "trade" /\ inTrade' = {Head(pending)}
        /\ UNCHANGED <<haltedBy, shadows, awaitedTasks, overAt, foundBy>>
     \/ /\ execute /\ LoopEnds /\ haltedBy' = "guard" /\ inTrade' = {Head(pending)}
        /\ UNCHANGED shadows
  /\ UNCHANGED <<time, stop, tRows, execute, pump, watching>>

(* The entry was refused or the position is flat: a row.  Or a call raised *)
(* and the script is over, with the tasks it had.                          *)
TradeIsOver ==
  /\ tfPc = "trade" /\ inTrade' = {}
  /\ \/ tfPc' = "top" /\ tRows' = tRows \o SetToSeq(inTrade) /\ UNCHANGED <<shadows, stop>>
     \/ tfPc' = "raised" /\ shadows' = {} /\ stop' = TRUE /\ UNCHANGED tRows
  /\ UNCHANGED <<time, pending, execute, haltedBy, awaitedTasks, overAt, foundBy, pump, watching>>

(* shadow ends with a row.                                                 *)
ShadowEnds(s) ==
  /\ time >= s.began + Span /\ shadows' = shadows \ {s} /\ tRows' = Append(tRows, s.signal)
  /\ UNCHANGED <<time, stop, pending, takerLoop, pump, watching>>

(* The tasks are done or took too long; pump has followed others since.    *)
WaitEnds ==
  /\ tfPc = "over" /\ (awaitedTasks \cap shadows = {} \/ time >= overAt + Span + Grace)
  /\ tfPc' = "ended" /\ stop' = TRUE /\ shadows' = {}
  /\ UNCHANGED <<time, pending, tRows, execute, haltedBy, inTrade, awaitedTasks, overAt,
                 foundBy, pump, watching>>

(* Time passes when no task is due; a trade and the feed take theirs.      *)
TimePasses ==
  /\ time < MaxClock /\ time' = time + 1
  /\ tfPc \notin {"top", "ended", "raised"} /\ ~(tfPc = "get" /\ pending # <<>>)
  /\ tfPc' = IF tfPc = "get" THEN "top" ELSE tfPc
  /\ \A s \in shadows : time < s.began + Span
  /\ time < nextRefresh \/ stop
  /\ UNCHANGED <<stop, pending, shadows, tRows, execute, haltedBy, inTrade, awaitedTasks,
                 overAt, foundBy, pump, watching>>

TakerFeedStep ==
  \/ Subscribe \/ PumpEnds \/ Refreshes \/ LoopTop \/ Take \/ TradeIsOver \/ WaitEnds
  \/ TimePasses \/ \E t \in Series : Update(t) \/ \E s \in shadows : ShadowEnds(s)
=============================================================================
