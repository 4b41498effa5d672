----------------------------- MODULE LiveSession -----------------------------
(***************************************************************************)
(* A live session, run_live_strategy of live/trader.py: the startup, the   *)
(* loop that waits for a message with a timeout, the portfolio, the risk   *)
(* checks and the syncs they allow.                                        *)
(*                                                                         *)
(* The order manager is abstract here (LiveOrders has it): a sync asks for *)
(* some orders, of which the exchange accepts some, and leaves anything up *)
(* to MaxQuote contracts resting.  Time is discrete; a wait ends at its    *)
(* deadline at the latest.  Messages of one channel stay in order, those   *)
(* of different channels may overtake each other.                          *)
(***************************************************************************)
EXTENDS RiskMonitor, Sequences

CONSTANTS
  Tickers,
  Poll,          \* the timeout of recv_update, half a second
  Duration,      \* duration_seconds
  MaxCall,       \* the longest a startup or a sync takes
  MaxBatch,      \* the most orders one sync asks for
  MaxQuote,      \* the most contracts a sync leaves resting in a market
  StaleFills,    \* may orders of an earlier session fill during the startup?
  MaxRequests,   \* bound: orders asked for
  MaxHeld,       \* bound: contracts held
  MaxFeed,       \* bound: messages on their way
  MaxTime        \* bound: the clock stops here

ASSUME SessionAssumption ==
  /\ Poll \in Nat \ {0} /\ Duration \in Nat /\ MaxCall \in Nat
  /\ MaxBatch \in Nat /\ MaxQuote \in Nat /\ StaleFills \in BOOLEAN
  /\ MaxRequests \in Nat /\ MaxHeld \in Nat /\ MaxFeed \in Nat /\ MaxTime \in Nat

VARIABLES
  held,       \* the exchange: position per ticker,
  resting,    \*   contracts of the bot at rest per ticker,
  feed,       \*   messages on their way to the session,
  acceptedAt, \*   order number -> when the exchange accepted it
  positions,  \* LivePortfolio.positions
  risk,       \* the RiskMonitor
  pc,         \* where the task is
  deadline,   \* when its wait ends
  nextOrder,  \* the number of the next order asked for
  pending,    \* orders accepted in the running sync
  stop,       \* stop_requested()
  now         \* time.monotonic(), the session starts at 0

exchVars == <<held, resting, feed, acceptedAt, nextOrder, pending>>
vars == <<exchVars, positions, risk, pc, deadline, stop, now>>

-----------------------------------------------------------------------------
Channels == {"book", "fill", "position", "order"}

Message == [ch : Channels, ticker : Tickers, pos : Int]

Subscribed == pc \notin {"load", "sweep", "closed"}

(* The next message of its channel.                                        *)
Deliverable(i) == \A j \in 1..(i - 1) : feed[j].ch # feed[i].ch

Without(s, i) == SubSeq(s, 1, i - 1) \o SubSeq(s, i + 1, Len(s))

Init ==
  /\ held = [m \in Tickers |-> 0]
  /\ resting \in [Tickers -> IF StaleFills THEN 0..MaxQuote ELSE {0}]
  /\ feed = <<>> /\ acceptedAt = [n \in {} |-> 0]
  /\ positions = [m \in Tickers |-> 0]
  /\ risk = StartedAt(0)
  /\ pc = "load" /\ deadline = MaxCall
  /\ nextOrder = 1 /\ pending = {} /\ stop = FALSE /\ now = 0

-----------------------------------------------------------------------------
(* Startup: positions over REST, the sweep of stale orders, subscription.  *)
LoadPositions ==
  /\ pc = "load" /\ pc' = "sweep"
  /\ positions' = held
  /\ UNCHANGED <<exchVars, risk, deadline, stop, now>>

SweepStale ==
  /\ pc = "sweep" /\ pc' = "top"
  /\ resting' = [m \in Tickers |-> 0]
  /\ UNCHANGED <<held, feed, acceptedAt, nextOrder, pending, positions,
                 risk, deadline, stop, now>>

(* The finally of the loop: the orders are canceled, the socket closed.    *)
Leave == pc' = "stopping" /\ UNCHANGED deadline

(* Faulty: only the duration ends the loop.                                *)
LoopTopUnstoppable ==
  /\ pc = "top"
  /\ IF now >= Duration THEN Leave ELSE pc' = "recv" /\ deadline' = now + Poll
  /\ UNCHANGED <<exchVars, positions, risk, stop, now>>

(* The head of the loop, then the wait for a message.                      *)
LoopTop ==
  /\ pc = "top"
  /\ IF stop \/ now >= Duration THEN Leave
     ELSE pc' = "recv" /\ deadline' = now + Poll
  /\ UNCHANGED <<exchVars, positions, risk, stop, now>>

(* _check_risk: the worst position, and the peak in place of the equity.   *)
Size(x) == IF x < 0 THEN -x ELSE x
WorstPosition(p) ==
  IF Tickers = {} THEN 0
  ELSE CHOOSE w \in {Size(p[m]) : m \in Tickers} : \A m \in Tickers : Size(p[m]) <= w

CheckRisk(r, p) == Check(r, WorstPosition(p), r.peak, now)

(* Faulty: a quiet feed is waited out.                                     *)
TimeoutIgnored ==
  /\ pc = "recv" /\ now = deadline
  /\ pc' = "top"
  /\ UNCHANGED <<exchVars, positions, risk, deadline, stop, now>>

(* recv_update times out.                                                  *)
Timeout ==
  /\ pc = "recv" /\ now = deadline
  /\ risk' = CheckRisk(risk, positions)
  /\ IF risk'.halted THEN Leave ELSE pc' = "top" /\ UNCHANGED deadline
  /\ UNCHANGED <<exchVars, positions, stop, now>>

(* Faulty: a fill moves the position by one contract.                      *)
ApplyMessageAsDelta(p, msg) ==
  CASE msg.ch = "fill" -> [p EXCEPT ![msg.ticker] =
                             IF msg.pos > @ THEN @ + 1 ELSE @ - 1]
    [] msg.ch = "position" -> [p EXCEPT ![msg.ticker] = msg.pos]
    [] OTHER -> p

(* LivePortfolio.apply_message: fills and positions carry the position     *)
(* they lead to.                                                           *)
ApplyMessage(p, msg) ==
  IF msg.ch \in {"fill", "position"} THEN [p EXCEPT ![msg.ticker] = msg.pos] ELSE p

(* A message is handled; a book update is followed by the risk check and a *)
(* sync of its market.                                                     *)
Receive(i) ==
  /\ pc = "recv" /\ Deliverable(i)
  /\ feed' = Without(feed, i)
  /\ positions' = ApplyMessage(positions, feed[i])
  /\ LET r == RecordEvent(risk, now)
     IN  IF feed[i].ch # "book"
         THEN risk' = r /\ pc' = "top" /\ UNCHANGED deadline
         ELSE /\ risk' = CheckRisk(r, positions')
              /\ IF risk'.halted THEN Leave
                 ELSE pc' = "sync" /\ deadline' = now + MaxCall
  /\ UNCHANGED <<held, resting, acceptedAt, nextOrder, pending, stop, now>>

(* sync_quotes returns; each order it created is recorded now.             *)
SyncReturns ==
  /\ pc = "sync" /\ pc' = "top"
  /\ risk' = RecordOrders(risk, pending, now)
  /\ pending' = {}
  /\ UNCHANGED <<held, resting, feed, acceptedAt, nextOrder, positions,
                 deadline, stop, now>>

(* Any await of the startup, the wait or the sync raises.                  *)
Raise ==
  /\ pc \in {"load", "sweep", "recv", "sync"} /\ Leave
  /\ UNCHANGED <<exchVars, positions, risk, stop, now>>

(* _cancel_on_shutdown and controller.close.                               *)
Close ==
  /\ pc = "stopping" /\ pc' = "closed"
  /\ resting' = [m \in Tickers |-> 0]
  /\ UNCHANGED <<held, feed, acceptedAt, nextOrder, pending, positions,
                 risk, deadline, stop, now>>

-----------------------------------------------------------------------------
(* A sync cancels some orders, asks for a of them that are accepted and r  *)
(* that are refused, at one moment while it is awaited.  The accepted ones *)
(* are numbered first.                                                     *)
ExchSync(m, a, r, left) ==
  /\ pc = "sync" /\ pending = {}
  /\ a + r <= MaxBatch /\ nextOrder + a + r <= MaxRequests + 1
  /\ a = 0 => left <= resting[m]
  /\ nextOrder' = nextOrder + a + r
  /\ pending' = nextOrder..(nextOrder + a - 1)
  /\ acceptedAt' = [n \in DOMAIN acceptedAt \cup pending' |->
                      IF n \in pending' THEN now ELSE acceptedAt[n]]
  /\ resting' = [resting EXCEPT ![m] = left]
  /\ UNCHANGED <<held, feed, positions, risk, pc, deadline, stop, now>>

Note(ch, m, p) == [ch |-> ch, ticker |-> m, pos |-> p]

(* A contract of the bot is bought (d = 1) or sold (d = -1).               *)
ExchFill(m, d) ==
  /\ resting[m] > 0 /\ Size(held[m] + d) <= MaxHeld /\ pc # "closed"
  /\ Subscribed => Len(feed) + 2 <= MaxFeed
  /\ held' = [held EXCEPT ![m] = @ + d]
  /\ resting' = [resting EXCEPT ![m] = @ - 1]
  /\ feed' = IF Subscribed
             THEN feed \o <<Note("fill", m, held'[m]), Note("position", m, held'[m])>>
             ELSE feed
  /\ UNCHANGED <<acceptedAt, nextOrder, pending, positions, risk, pc,
                 deadline, stop, now>>

(* The book of a market changes, or an order's state is told.              *)
ExchNotes(ch, m) ==
  /\ Subscribed /\ Len(feed) < MaxFeed
  /\ feed' = Append(feed, Note(ch, m, 0))
  /\ UNCHANGED <<held, resting, acceptedAt, nextOrder, pending, positions,
                 risk, pc, deadline, stop, now>>

RequestStop ==
  /\ ~stop /\ stop' = TRUE
  /\ now + Poll <= MaxTime
  /\ UNCHANGED <<exchVars, positions, risk, pc, deadline, now>>

(* No wait outlasts its deadline; the steps between waits take no time.    *)
Tick ==
  /\ now < MaxTime /\ pc \notin {"top", "closed"}
  /\ pc \in {"load", "sweep", "recv", "sync"} => now < deadline
  /\ now' = now + 1
  /\ UNCHANGED <<exchVars, positions, risk, pc, deadline, stop>>

Task ==
  \/ LoadPositions \/ SweepStale \/ LoopTop \/ Timeout \/ SyncReturns \/ Raise \/ Close
  \/ \E i \in DOMAIN feed : Receive(i)

Exchange ==
  \E m \in Tickers :
    \/ \E a, r \in 0..MaxBatch, left \in 0..MaxQuote : ExchSync(m, a, r, left)
    \/ \E d \in {-1, 1} : ExchFill(m, d)
    \/ \E ch \in {"book", "order"} : ExchNotes(ch, m)

Next == Task \/ Exchange \/ RequestStop \/ Tick

Spec == Init /\ [][Next]_vars

(* asyncio runs a task that is ready, REST calls return or raise, and time *)
(* goes by.                                                                *)
FairSpec == Spec /\ WF_vars(Task) /\ WF_vars(Tick)

-----------------------------------------------------------------------------
(* The times of some of the orders 1 to n.                                 *)
AreTimes(f, n) == DOMAIN f \subseteq 1..n /\ f \in [DOMAIN f -> Nat]

IsMonitor(r, n) ==
  /\ r \in [peak : Int, halted : BOOLEAN, orderTimes : {r.orderTimes},
            rejections : Nat, lastEvent : Nat]
  /\ AreTimes(r.orderTimes, n)

TypeOK ==
  /\ held \in [Tickers -> Int] /\ resting \in [Tickers -> Nat]
  /\ feed \in Seq(Message)
  /\ nextOrder \in Nat \ {0}
  /\ AreTimes(acceptedAt, nextOrder - 1)
  /\ pending \subseteq DOMAIN acceptedAt
  /\ positions \in [Tickers -> Int] /\ IsMonitor(risk, nextOrder - 1)
  /\ pc \in {"load", "sweep", "top", "recv", "sync", "stopping", "closed"}
  /\ deadline \in Nat /\ stop \in BOOLEAN /\ now \in Nat

(* The orders the exchange accepted in the minute up to s.                 *)
AcceptedInMinute(s) ==
  {n \in DOMAIN acceptedAt : s - Minute <= acceptedAt[n] /\ acceptedAt[n] <= s}

(* Although orders are counted only once their sync is over, and the check *)
(* looks at what was counted before, no minute ever sees more accepted     *)
(* orders than the limit and one batch.                                    *)
AcceptedRateBounded ==
  \A s \in 0..now : Cardinality(AcceptedInMinute(s)) <= MaxOrdersPerMinute + MaxBatch

(* Why: a recent order is remembered by the monitor unless its sync still  *)
(* runs, and a sync begins only when the monitor remembers few enough.     *)
Recent(n) == acceptedAt[n] >= now - Minute

Remembered ==
  pc \notin {"stopping", "closed"} =>
    /\ pc # "sync" => pending = {}
    /\ \A n \in DOMAIN acceptedAt \ pending :
         Recent(n) => /\ n \in DOMAIN risk.orderTimes
                      /\ risk.orderTimes[n] >= acceptedAt[n]

RateInv ==
  /\ TypeOK
  /\ \A n \in DOMAIN acceptedAt : acceptedAt[n] <= now
  /\ Remembered
  /\ pc = "sync" => Cardinality(DOMAIN risk.orderTimes) <= MaxOrdersPerMinute
  /\ AcceptedRateBounded

Longest == IF MaxFeedSilence > MaxCall THEN MaxFeedSilence ELSE MaxCall

(* The loop never waits on a feed that has been silent for longer than the *)
(* limit (or a call that kept it from looking) and one poll, and no sync   *)
(* begins later than one poll after the session's time is up.              *)
LoopIsPunctual ==
  /\ pc = "recv" => now - risk.lastEvent <= Longest + Poll
  /\ pc = "sync" => deadline - MaxCall < Duration + Poll

(* When nothing is on its way the portfolio is what the exchange holds, in *)
(* whatever order fills and positions came.                                *)
PositionsCatchUp == pc \in {"recv", "sync"} /\ feed = <<>> => positions = held

(* A stop request ends the session.                                        *)
StopEnds == stop ~> pc = "closed"
=============================================================================
