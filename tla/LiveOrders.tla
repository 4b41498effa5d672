------------------------------ MODULE LiveOrders ------------------------------
(***************************************************************************)
(* The live order manager of live/trader.py against the exchange.          *)
(*                                                                         *)
(* One asyncio task owns the manager: it awaits a feed message, reacts,    *)
(* and while it awaits a REST call it handles nothing else.  The exchange  *)
(* runs on: it matches and expires orders, takes requests and answers      *)
(* them, and puts fills and order updates on the wire.  A call may fail    *)
(* before the exchange saw it, or after it took effect.  The process may   *)
(* crash at any await; the next session starts with the startup sweep.     *)
(*                                                                         *)
(* Abstractions: a contract is filled one at a time (a fill of n is n      *)
(* consecutive ones); the k-th fill of order id is the trade <<id, k>>; an *)
(* order has the same number at the exchange (order_id) and at the client  *)
(* (client_order_id); time is a bounded clock.                             *)
(***************************************************************************)
EXTENDS Requote, FiniteSets

CONSTANTS
  Intents,              \* the QuoteIntents a strategy may ask for
  Tickers,              \* the tickers of the session
  MinRequote,           \* RequotePolicy.min_requote_seconds
  Cooldown,             \* rejection_cooldown_seconds
  PartialFillOnCreate,  \* may a create response report a partial fill?
  MaxOrders,            \* bound: client order ids ever allocated
  MaxTime,              \* bound: the clock stops here
  MaxSessions           \* bound: sessions started, the first included

ASSUME IntentAssumption ==
  /\ \A i \in Intents : i.ticker \in Tickers /\ i.count \in Nat \ {0}
                        /\ i.price \in Nat
  (* a strategy puts the market ticker into each quote_id *)
  /\ \A i, j \in Intents : i.quote = j.quote => i.ticker = j.ticker

ASSUME BoundAssumption ==
  /\ MinRequote \in Nat /\ Cooldown \in Nat
  /\ PartialFillOnCreate \in BOOLEAN
  /\ MaxOrders \in Nat /\ MaxTime \in Nat /\ MaxSessions \in Nat

Ids    == 1..MaxOrders
Quotes == {i.quote : i \in Intents}
Never  == -1            \* Python's None for a time
NoIntent == [quote |-> "none", ticker |-> "none", contract |-> "none",
             price |-> 0, count |-> 0]

(* What a create response says of one entry besides a remaining count.     *)
Rejected   == -1
Unreported == -2

VARIABLES
  exch,       \* the exchange: id -> [st, open, rem]
  wire,       \* trades put on this session's feed
  intent,     \* id -> the intent it was requested for
  lost,       \* ids of create requests nobody waits for any more
  orders,     \* LiveOrderManager.orders: tracked id -> LiveOrder
  nextId,     \* _next_order_number
  lastSync,   \* _last_sync_by_ticker
  rejUntil,   \* _rejected_quote_until
  canceled,   \* _recently_canceled_order_ids
  seen,       \* _seen_fill_trade_ids
  placedLog,    \* the order journal: ids with a "placed" event,
  cancelledLog, \*   with a "cancelled" event,
  filledLog,    \*   and trade -> number of "filled" events
  pc,         \* where the task is
  job,        \* its locals across awaits
  batch,      \* id -> intent, the orders sync_quotes is creating
  rpc,        \* its REST call: none, sent, ok (done), missing (id not listed)
  reply,      \* what a create response says of each id
  raised,     \* an exception is propagating out of the loop
  shutErr,    \* _cancel_on_shutdown collected an error
  now,        \* time.monotonic()
  session     \* sessions started so far

exchVars == <<exch, wire, intent, lost>>
journal  == <<placedLog, cancelledLog, filledLog>>
mgrVars  == <<orders, nextId, lastSync, rejUntil, canceled, seen, journal>>
taskVars == <<pc, job, batch, rpc, reply, raised, shutErr>>
vars     == <<exchVars, mgrVars, taskVars, now, session>>

-----------------------------------------------------------------------------
(* The exchange's side of an order.                                        *)
Status == {"none", "sent", "resting", "canceled", "executed", "rejected"}

Resting(id)    == exch[id].st = "resting"
Terminal(id)   == exch[id].st \in {"canceled", "executed"}
FilledOf(id)   == intent[id].count - exch[id].rem
TradesUpTo(id, n) == {<<id, k>> : k \in 1..n}

(* The session reads its feed from the end of the startup sweep until it   *)
(* is closed; what the exchange sends before or after reaches nobody.      *)
Connected == job.ctx # "startup" /\ pc \notin {"closed", "crashed"}

OnWire(trades) == wire' = IF Connected THEN wire \cup trades ELSE wire

Larger(a, b)  == IF a >= b THEN a ELSE b
Smaller(a, b) == IF a <= b THEN a ELSE b

(* A LiveOrder as from_intent makes it; remaining "Unreported" is None.    *)
FilledFromRemaining(count, r) ==
  IF r = Unreported THEN 0 ELSE Larger(0, count - r)

FromIntent(i, r, t) ==
  [quote |-> i.quote, ticker |-> i.ticker, contract |-> i.contract,
   price |-> i.price, initial |-> i.count,
   rem |-> IF r = Unreported THEN i.count ELSE r,
   created |-> t,
   fm |-> FilledFromRemaining(i.count, r),
   uf |-> FilledFromRemaining(i.count, r)]

SyncRemaining(o) ==
  LET filled == Smaller(o.initial, Larger(o.fm, o.uf))
  IN  [o EXCEPT !.rem = Larger(0, o.initial - filled)]

Tracked == DOMAIN orders
Untrack(S) == [id \in Tracked \ S |-> orders[id]]
(* Store the updated order, or drop it once nothing remains.               *)
Store(id, o) ==
  orders' = IF o.rem <= 0 THEN Untrack({id}) ELSE [orders EXCEPT ![id] = o]

-----------------------------------------------------------------------------
(* The task.  job.todo holds the orders left to cancel in this pass and    *)
(* job.cur the one whose cancel is awaited.  Passes take orders in any     *)
(* order: the code's (insertion) order is one of them.                     *)
Job(ctx, todo) ==
  [ctx |-> ctx, todo |-> todo, cur |-> 0, tickers |-> {}, mkt |-> "none",
   wanted |-> {}, at |-> 0, canCreate |-> FALSE, replace |-> {}]
IdleJob == Job("idle", {})
StartJob == [Job("startup", {}) EXCEPT !.tickers = Tickers]

Init ==
  /\ exch = [id \in Ids |-> [st |-> "none", open |-> 0, rem |-> 0]]
  /\ wire = {} /\ lost = {}
  /\ intent = [id \in Ids |-> NoIntent]
  /\ orders = [id \in {} |-> NoIntent]
  /\ nextId = 1
  /\ lastSync = [m \in Tickers |-> Never]
  /\ rejUntil = [q \in Quotes |-> Never]
  /\ canceled = {} /\ seen = {}
  /\ placedLog = {} /\ cancelledLog = {} /\ filledLog = [t \in {} |-> 0]
  /\ pc = "list" /\ job = StartJob /\ batch = [id \in {} |-> NoIntent]
  /\ rpc = "none" /\ reply = [id \in {} |-> 0]
  /\ raised = FALSE /\ shutErr = FALSE
  /\ now = 0 /\ session = 1

ToIdle ==
  /\ pc' = "idle" /\ job' = IdleJob /\ batch' = [id \in {} |-> NoIntent]
  /\ UNCHANGED <<raised, shutErr>>

(* finally: cancel_all, whether or not an exception is on its way out.     *)
Shutdown(exception) ==
  /\ pc' = "cancel" /\ job' = Job("all", Tracked)
  /\ batch' = [id \in {} |-> NoIntent]
  /\ raised' = (raised \/ exception)
  /\ UNCHANGED shutErr

(* _cancel_on_shutdown and controller.close are done; the run returns, or  *)
(* raises when raised or shutErr holds.                                    *)
Close(error) ==
  /\ pc' = "closed" /\ job' = IdleJob
  /\ shutErr' = (shutErr \/ error)
  /\ UNCHANGED <<raised, batch>>

CallDone == rpc' = "none" /\ reply' = [id \in {} |-> 0]

(* cancel_stale_bot_orders, one get_orders call per ticker, at startup and *)
(* as the shutdown sweep.                                                  *)
ListResting ==
  /\ pc = "list"
  /\ \E m \in job.tickers :
       /\ pc' = "cancel"
       /\ job' = [job EXCEPT !.tickers = @ \ {m},
                             !.todo = {id \in Ids : Resting(id) /\ intent[id].ticker = m}]
  /\ UNCHANGED <<exchVars, mgrVars, batch, rpc, reply, raised, shutErr, now, session>>

(* Faulty: a sweep that fails is taken for one that found nothing.         *)
ListFailsQuietly ==
  /\ pc = "list" /\ job.tickers # {}
  /\ IF job.ctx = "startup" THEN Shutdown(TRUE) ELSE Close(FALSE)
  /\ UNCHANGED <<exchVars, mgrVars, rpc, reply, now, session>>

ListFails ==
  /\ pc = "list" /\ job.tickers # {}
  /\ IF job.ctx = "startup" THEN Shutdown(TRUE) ELSE Close(TRUE)
  /\ UNCHANGED <<exchVars, mgrVars, rpc, reply, now, session>>

ListingDone ==
  /\ pc = "list" /\ job.tickers = {}
  /\ IF job.ctx = "startup" THEN ToIdle ELSE Close(FALSE)
  /\ UNCHANGED <<exchVars, mgrVars, rpc, reply, now, session>>

Sweeping == job.ctx \in {"startup", "sweep"}

(* batch_cancel_orders is sent; a sweep skips what was canceled already.   *)
SendCancel ==
  /\ pc = "cancel"
  /\ \E id \in job.todo :
       IF Sweeping /\ id \in canceled
       THEN /\ job' = [job EXCEPT !.todo = @ \ {id}]
            /\ UNCHANGED <<pc, rpc>>
       ELSE /\ job' = [job EXCEPT !.todo = @ \ {id}, !.cur = id]
            /\ pc' = "awaitCancel" /\ rpc' = "sent"
  /\ UNCHANGED <<exchVars, mgrVars, batch, reply, raised, shutErr, now, session>>

(* No order is left in this pass: the next one of the enclosing method.    *)
PassDone ==
  /\ pc = "cancel" /\ job.todo = {}
  /\ CASE Sweeping ->
            pc' = "list" /\ UNCHANGED <<job, batch, raised, shutErr>>
       [] job.ctx = "all" ->
            /\ pc' = "list" /\ UNCHANGED <<batch, raised, shutErr>>
            /\ job' = [Job("sweep", {}) EXCEPT !.tickers = Tickers]
       [] job.ctx = "missing" /\ job.canCreate ->
            /\ job' = [job EXCEPT !.ctx = "replace", !.todo = job.replace]
            /\ UNCHANGED <<pc, batch, raised, shutErr>>
       [] job.ctx = "missing" /\ ~job.canCreate -> ToIdle
       [] job.ctx = "replace" ->
            pc' = "plan" /\ UNCHANGED <<job, batch, raised, shutErr>>
  /\ UNCHANGED <<exchVars, mgrVars, rpc, reply, now, session>>

(* _cancel_order_id returned; _cancel also journals and drops the order.   *)
CancelReturns ==
  /\ pc = "awaitCancel" /\ rpc = "ok"
  /\ canceled' = canceled \cup {job.cur}
  /\ IF Sweeping THEN UNCHANGED <<orders, cancelledLog>>
     ELSE /\ orders' = Untrack({job.cur})
          /\ cancelledLog' = cancelledLog \cup {job.cur}
  /\ pc' = "cancel" /\ job' = [job EXCEPT !.cur = 0] /\ CallDone
  /\ UNCHANGED <<exchVars, nextId, lastSync, rejUntil, seen, placedLog, filledLog,
                 batch, raised, shutErr, now, session>>

(* Faulty: an order is remembered as canceled before its call is answered. *)
CancelRaisesMarked ==
  /\ pc = "awaitCancel" /\ Shutdown(TRUE) /\ CallDone
  /\ canceled' = canceled \cup {job.cur}
  /\ UNCHANGED <<exchVars, orders, nextId, lastSync, rejUntil, seen, journal, now, session>>

(* Faulty: a failed cancel is tried again until it succeeds.               *)
CancelRaisesRetried ==
  /\ pc = "awaitCancel" /\ pc' = "cancel" /\ CallDone
  /\ job' = [job EXCEPT !.todo = @ \cup {job.cur}, !.cur = 0]
  /\ UNCHANGED <<exchVars, mgrVars, batch, raised, shutErr, now, session>>

(* The call fails in transport at any moment, or the response lacks the id *)
(* (_validate_cancel_response): cancel_all goes on, the sweep gives up,    *)
(* startup and sync_quotes let the exception out.                          *)
CancelRaises ==
  /\ pc = "awaitCancel"
  /\ CASE job.ctx = "all" ->
            /\ pc' = "cancel" /\ job' = [job EXCEPT !.cur = 0]
            /\ shutErr' = TRUE /\ UNCHANGED <<raised, batch>>
       [] job.ctx = "sweep" -> Close(TRUE)
       [] OTHER -> Shutdown(TRUE)
  /\ CallDone
  /\ UNCHANGED <<exchVars, mgrVars, now, session>>

-----------------------------------------------------------------------------
(* sync_quotes for one ticker with the quotes the strategy wants.          *)
Distinct(W) == \A i, j \in W : i.quote = j.quote => i = j

BeginSync(m, W) ==
  /\ pc = "idle" /\ Distinct(W)
  /\ LET mine == {id \in Tracked : orders[id].ticker = m}
         unwanted == {id \in mine : \A i \in W : i.quote # orders[id].quote}
         due == {id \in mine : \E i \in W :
                   /\ i.quote = orders[id].quote
                   /\ ShouldReplace(orders[id], i, now, orders[id].created)}
     IN job' = [Job("missing", unwanted) EXCEPT
                  !.mkt = m, !.wanted = W, !.at = now, !.replace = due,
                  !.canCreate = \/ lastSync[m] = Never
                                \/ now - lastSync[m] >= MinRequote]
  /\ pc' = "cancel"
  /\ UNCHANGED <<exchVars, mgrVars, batch, rpc, reply, raised, shutErr, now, session>>

CoolingDown(q, t) == rejUntil[q] # Never /\ t < rejUntil[q]

(* Faulty: the quotes still at rest are not left out.                      *)
ToCreateAll == {i \in job.wanted : ~CoolingDown(i.quote, job.at)}

ToCreate ==
  {i \in job.wanted :
     /\ \A id \in Tracked : orders[id].ticker = job.mkt => orders[id].quote # i.quote
     /\ ~CoolingDown(i.quote, job.at)}

(* Number the quotes to create, in any order, and stamp the sync: both     *)
(* happen before the balance is read.                                      *)
PlanCreate ==
  /\ pc = "plan"
  /\ IF ToCreate = {} THEN ToIdle /\ UNCHANGED <<nextId, lastSync>>
     ELSE \E last \in nextId..MaxOrders :
          \E new \in [nextId..last -> ToCreate] :
            /\ \A i \in ToCreate : \E id \in nextId..last : new[id] = i
            /\ \A a, b \in nextId..last : new[a] = new[b] => a = b
            /\ nextId' = last + 1
            /\ lastSync' = [lastSync EXCEPT ![job.mkt] = job.at]
            /\ job' = [job EXCEPT !.ctx = "create"] /\ batch' = new
            /\ pc' = "awaitBalance" /\ UNCHANGED <<raised, shutErr>>
  /\ UNCHANGED <<exchVars, orders, rejUntil, canceled, seen, journal, rpc, reply,
                 now, session>>

Requested == DOMAIN batch

BalanceShort ==
  /\ pc = "awaitBalance" /\ ToIdle
  /\ UNCHANGED <<exchVars, mgrVars, rpc, reply, now, session>>

BalanceFails ==
  /\ pc = "awaitBalance" /\ Shutdown(TRUE)
  /\ UNCHANGED <<exchVars, mgrVars, rpc, reply, now, session>>

SendCreate ==
  /\ pc = "awaitBalance"
  /\ pc' = "awaitCreate" /\ rpc' = "sent"
  /\ exch' = [id \in Ids |-> IF id \in Requested
                             THEN [exch[id] EXCEPT !.st = "sent"] ELSE exch[id]]
  /\ intent' = [id \in Ids |-> IF id \in Requested THEN batch[id] ELSE intent[id]]
  /\ UNCHANGED <<wire, lost, mgrVars, job, batch, reply, raised, shutErr, now, session>>

(* Faulty: an order whose remaining count is not reported is not tracked.  *)
CreateReturnsReported ==
  /\ pc = "awaitCreate" /\ rpc = "ok"
  /\ LET open == {id \in Requested : reply[id] > 0}
     IN  /\ orders' = [id \in Tracked \cup open |->
                         IF id \in open
                         THEN FromIntent(batch[id], reply[id], job.at)
                         ELSE orders[id]]
         /\ placedLog' = placedLog \cup open
  /\ ToIdle /\ CallDone
  /\ UNCHANGED <<exchVars, nextId, lastSync, rejUntil, canceled, seen, cancelledLog,
                 filledLog, now, session>>

(* The response: an entry without order_id is a rejection, one with        *)
(* nothing remaining is not tracked, any other is tracked and journalled.  *)
CreateReturns ==
  /\ pc = "awaitCreate" /\ rpc = "ok"
  /\ LET accepted == {id \in Requested : reply[id] # Rejected}
         open     == {id \in accepted : reply[id] # 0}
         refused  == {batch[id].quote : id \in Requested \ accepted}
         placed   == {batch[id].quote : id \in accepted}
     IN /\ orders' = [id \in Tracked \cup open |->
                        IF id \in open
                        THEN FromIntent(batch[id], reply[id], job.at)
                        ELSE orders[id]]
        /\ placedLog' = placedLog \cup open
        /\ rejUntil' = [q \in Quotes |->
                          CASE q \in refused -> job.at + Cooldown
                            [] q \in placed  -> Never
                            [] OTHER         -> rejUntil[q]]
  /\ ToIdle /\ CallDone
  /\ UNCHANGED <<exchVars, nextId, lastSync, canceled, seen, cancelledLog, filledLog,
                 now, session>>

(* The call fails, before or after it took effect, or its response is      *)
(* malformed: nothing is tracked and the exception ends the loop.          *)
CreateRaises ==
  /\ pc = "awaitCreate"
  /\ lost' = lost \cup Requested
  /\ Shutdown(TRUE) /\ CallDone
  /\ UNCHANGED <<exch, wire, intent, mgrVars, now, session>>

-----------------------------------------------------------------------------
(* Feed messages, handled between syncs.                                   *)
Bump(f, t) ==
  [x \in DOMAIN f \cup {t} |-> IF x \in DOMAIN f
                               THEN IF x = t THEN f[x] + 1 ELSE f[x]
                               ELSE 1]

CountFill(o) == SyncRemaining([o EXCEPT !.fm = @ + 1])

(* Faulty: only fills of tracked orders are journalled.                    *)
HandleFillTracked(t) ==
  /\ pc = "idle" /\ t \notin seen
  /\ seen' = seen \cup {t}
  /\ IF t[1] \in Tracked
     THEN Store(t[1], CountFill(orders[t[1]])) /\ filledLog' = Bump(filledLog, t)
     ELSE UNCHANGED <<orders, filledLog>>
  /\ UNCHANGED <<exchVars, nextId, lastSync, rejUntil, canceled, placedLog, cancelledLog,
                 taskVars, now, session>>

(* Faulty: a fill is counted for whichever order has the quote now.        *)
HandleFillByQuote(t) ==
  /\ pc = "idle" /\ t \notin seen
  /\ seen' = seen \cup {t}
  /\ filledLog' = Bump(filledLog, t)
  /\ \/ \E id \in Tracked : /\ orders[id].quote = intent[t[1]].quote
                            /\ Store(id, CountFill(orders[id]))
     \/ /\ \A id \in Tracked : orders[id].quote # intent[t[1]].quote
        /\ UNCHANGED orders
  /\ UNCHANGED <<exchVars, nextId, lastSync, rejUntil, canceled, placedLog, cancelledLog,
                 taskVars, now, session>>

HandleFill(t) ==
  /\ pc = "idle" /\ t \notin seen
  /\ seen' = seen \cup {t}
  /\ filledLog' = Bump(filledLog, t)
  /\ IF t[1] \in Tracked THEN Store(t[1], CountFill(orders[t[1]]))
     ELSE UNCHANGED orders
  /\ UNCHANGED <<exchVars, nextId, lastSync, rejUntil, canceled, placedLog, cancelledLog,
                 taskVars, now, session>>

(* A user_order message is a snapshot of the order some time ago.  It may  *)
(* carry the remaining count, the fill count or both.                      *)
Snapshots(id) == Larger(1, exch[id].rem)..exch[id].open

ApplySnapshot(o, r, shape) ==
  LET filled == o.initial - r
      counted == [o EXCEPT !.uf = Larger(@, filled)]
  IN  IF shape = "fills" THEN SyncRemaining(counted)
      ELSE [counted EXCEPT !.rem = r]

HandleUserOrder(id) ==
  /\ pc = "idle" /\ id \in Tracked
  /\ \/ Terminal(id) /\ orders' = Untrack({id})
     \/ \E r \in Snapshots(id), shape \in {"remaining", "fills"} :
          Store(id, ApplySnapshot(orders[id], r, shape))
  /\ UNCHANGED <<exchVars, nextId, lastSync, rejUntil, canceled, seen, journal,
                 taskVars, now, session>>

(* Stop, duration or a risk breach ends the loop; an exception (a feed gap,*)
(* a closed socket, an invalid quote) ends it and is raised at the end.    *)
LeaveLoop ==
  /\ pc = "idle"
  /\ \E exception \in BOOLEAN : Shutdown(exception)
  /\ UNCHANGED <<exchVars, mgrVars, rpc, reply, now, session>>

-----------------------------------------------------------------------------
(* The exchange.                                                           *)
ExchCancel ==
  /\ pc = "awaitCancel" /\ rpc = "sent"
  /\ IF Resting(job.cur)
     THEN /\ exch' = [exch EXCEPT ![job.cur].st = "canceled"]
          /\ rpc' = "ok"
     ELSE rpc' \in {"ok", "missing"} /\ UNCHANGED exch
  /\ UNCHANGED <<wire, intent, lost, mgrVars, pc, job, batch, reply, raised,
                 shutErr, now, session>>

(* What may become of one create request: refused, or accepted with r left *)
(* of it, and r reported or not.                                           *)
Outcomes(i) ==
  {[st |-> "rejected", rem |-> 0, says |-> Rejected]} \cup
  {[st |-> IF r = 0 THEN "executed" ELSE "resting", rem |-> r, says |-> s] :
     r \in 0..i.count, s \in {Unreported} \cup 0..i.count}

Possible(i, o) ==
  /\ o \in Outcomes(i)
  /\ o.says \in {Rejected, Unreported, o.rem}
  /\ o.says \in 1..(i.count - 1) => PartialFillOnCreate

ExchCreate ==
  /\ pc = "awaitCreate" /\ rpc = "sent"
  /\ \E out \in [Requested -> UNION {Outcomes(i) : i \in job.wanted}] :
       /\ \A id \in Requested : Possible(batch[id], out[id])
       /\ exch' = [id \in Ids |->
                     IF id \in Requested
                     THEN [st |-> out[id].st, open |-> out[id].rem, rem |-> out[id].rem]
                     ELSE exch[id]]
       /\ OnWire(UNION {TradesUpTo(id, batch[id].count - out[id].rem) :
                          id \in {x \in Requested : out[x].st # "rejected"}})
       /\ reply' = [id \in Requested |-> out[id].says]
  /\ rpc' = "ok"
  /\ UNCHANGED <<intent, lost, mgrVars, pc, job, batch, raised, shutErr, now, session>>

(* A create request its client gave up on may still be taken.              *)
ExchLateCreate(id) ==
  /\ id \in lost /\ exch[id].st = "sent"
  /\ exch' = [exch EXCEPT ![id] = [st |-> "resting", open |-> intent[id].count,
                                   rem |-> intent[id].count]]
  /\ UNCHANGED <<wire, intent, lost, mgrVars, taskVars, now, session>>

ExchFill(id) ==
  /\ Resting(id)
  /\ LET left == exch[id].rem - 1
     IN  exch' = [exch EXCEPT ![id].rem = left,
                              ![id].st = IF left = 0 THEN "executed" ELSE "resting"]
  /\ OnWire({<<id, FilledOf(id) + 1>>})
  /\ UNCHANGED <<intent, lost, mgrVars, taskVars, now, session>>

(* Expiry, or a cancel by the exchange or by hand.                         *)
ExchExpire(id) ==
  /\ Resting(id)
  /\ exch' = [exch EXCEPT ![id].st = "canceled"]
  /\ UNCHANGED <<wire, intent, lost, mgrVars, taskVars, now, session>>

-----------------------------------------------------------------------------
Crash ==
  /\ pc \notin {"closed", "crashed"}
  /\ pc' = "crashed" /\ job' = IdleJob /\ CallDone
  /\ batch' = [id \in {} |-> NoIntent]
  /\ lost' = IF pc = "awaitCreate" THEN lost \cup Requested ELSE lost
  /\ UNCHANGED <<exch, wire, intent, mgrVars, raised, shutErr, now, session>>

(* A new session: an empty manager, and the journal file opened to append. *)
StartSession ==
  /\ pc \in {"closed", "crashed"} /\ session < MaxSessions
  /\ session' = session + 1
  /\ pc' = "list" /\ job' = StartJob
  /\ raised' = FALSE /\ shutErr' = FALSE /\ wire' = {}
  /\ orders' = Untrack(Tracked)
  /\ lastSync' = [m \in Tickers |-> Never]
  /\ rejUntil' = [q \in Quotes |-> Never]
  /\ canceled' = {} /\ seen' = {}
  /\ UNCHANGED <<exch, intent, lost, nextId, journal, batch, rpc, reply, now>>

Tick ==
  /\ now < MaxTime /\ now' = now + 1
  /\ UNCHANGED <<exchVars, mgrVars, taskVars, session>>

(* MaxOrders bounds the syncs: each may need a new id for every quote.     *)
Sync ==
  \E m \in Tickers : \E W \in SUBSET {i \in Intents : i.ticker = m} :
    nextId + Cardinality(W) <= MaxOrders + 1 /\ BeginSync(m, W)

Task ==
  \/ ListResting \/ ListFails \/ ListingDone
  \/ SendCancel \/ PassDone \/ CancelReturns \/ CancelRaises
  \/ PlanCreate \/ BalanceShort \/ BalanceFails \/ SendCreate
  \/ CreateReturns \/ CreateRaises

Exchange ==
  \/ ExchCancel \/ ExchCreate
  \/ \E id \in Ids : ExchLateCreate(id) \/ ExchFill(id) \/ ExchExpire(id)

Feed == (\E t \in wire : HandleFill(t)) \/ (\E id \in Ids : HandleUserOrder(id))

Next == Task \/ Exchange \/ Feed \/ Sync \/ LeaveLoop \/ Crash \/ StartSession \/ Tick

Spec == Init /\ [][Next]_vars

(* Every REST call returns or raises (httpx times out after 10 s) and the  *)
(* task then runs on.                                                      *)
FairSpec == Spec /\ WF_vars(Task)

-----------------------------------------------------------------------------
Trades == {t \in Ids \X Nat : t[2] >= 1}
Contexts == {"idle", "startup", "missing", "replace", "create", "all", "sweep"}

LiveOrderType ==
  [quote : Quotes, ticker : Tickers, contract : {i.contract : i \in Intents},
   price : Nat, initial : Nat, rem : Nat, created : Nat, fm : Nat, uf : Nat]

JobType ==
  [ctx : Contexts, todo : SUBSET Ids, cur : Ids \cup {0},
   tickers : SUBSET Tickers, mkt : Tickers \cup {"none"},
   wanted : SUBSET Intents, at : Nat, canCreate : BOOLEAN,
   replace : SUBSET Ids]

ExchTypes ==
  /\ exch \in [Ids -> [st : Status, open : Nat, rem : Nat]]
  /\ intent \in [Ids -> Intents \cup {NoIntent}]
  /\ wire \subseteq Trades /\ lost \subseteq Ids

MgrTypes ==
  /\ Tracked \subseteq Ids /\ orders \in [Tracked -> LiveOrderType]
  /\ nextId \in Nat \ {0}
  /\ lastSync \in [Tickers -> Nat \cup {Never}]
  /\ rejUntil \in [Quotes -> Nat \cup {Never}]
  /\ seen \subseteq Trades /\ canceled \subseteq Ids
  /\ placedLog \subseteq Ids /\ cancelledLog \subseteq Ids
  /\ DOMAIN filledLog \subseteq Trades /\ filledLog \in [DOMAIN filledLog -> Nat]

TaskTypes ==
  /\ pc \in {"idle", "list", "cancel", "awaitCancel", "plan", "awaitBalance",
             "awaitCreate", "closed", "crashed"}
  /\ job \in JobType
  /\ Requested \subseteq Ids /\ batch \in [Requested -> Intents]
  /\ rpc \in {"none", "sent", "ok", "missing"}
  /\ DOMAIN reply \subseteq Ids /\ reply \in [DOMAIN reply -> Int]
  /\ raised \in BOOLEAN /\ shutErr \in BOOLEAN

(* Types of the exchange's, the manager's and the task's variables.        *)
TypeOK == ExchTypes /\ MgrTypes /\ TaskTypes /\ now \in Nat /\ session \in Nat

(* Orders nobody lost sight of: their create call was answered.            *)
Known(id) == id \notin lost

(* The bot never has two orders of one quote_id at work: a replacement is  *)
(* sent only when the old order is known dead (sync_quotes cancels before  *)
(* it creates, and never creates what is still tracked).                   *)
OneRestingOrderPerQuote ==
  \A a, b \in Ids :
    Resting(a) /\ Resting(b) /\ Known(a) /\ Known(b)
    /\ intent[a].quote = intent[b].quote => a = b

(* Whenever the loop waits for the feed, what rests at the exchange is     *)
(* tracked: neither a fill, nor a stale snapshot, nor a cancel that failed *)
(* makes the manager drop a live order, and the startup sweep removed what *)
(* an earlier session left.                                                *)
RestingIsTracked ==
  pc = "idle" => \A id \in Ids : Resting(id) /\ Known(id) => id \in Tracked

(* The manager never believes less of an order is left than is: fills told *)
(* by the fill channel, by user_order snapshots and by the create response *)
(* are each counted once, in whatever order they come.                     *)
NeverUnderstatesRemaining ==
  \A id \in Tracked : orders[id].rem >= exch[id].rem

(* handle_fill journals each trade it is told of once, whether or not the  *)
(* order is still tracked, and every trade of an order the session dealt   *)
(* with once the feed is drained.                                          *)
FillsJournalledOnce ==
  /\ \A t \in DOMAIN filledLog : filledLog[t] = 1
  /\ seen \subseteq DOMAIN filledLog

(* The ids the sweeps skip (_recently_canceled_order_ids) and those the    *)
(* journal calls cancelled are at rest no longer.                          *)
CancelledIsDead ==
  \A id \in canceled \cup cancelledLog : ~Resting(id)

(* A shutdown that reports no cancel error leaves none of the bot's orders *)
(* resting, whatever ended the loop; the orders of create calls that were  *)
(* never answered are the exception, and then the run raises.              *)
CleanShutdownLeavesNothing ==
  pc = "closed" /\ ~shutErr => \A id \in Ids : Resting(id) => ~Known(id)

(* The task always comes back to the feed or ends: one failing call of a   *)
(* sync, a sweep or a shutdown hides none of the others, and nothing is    *)
(* tried again without end (trader.py:536, trader.py:815).                 *)
TaskReturns == []<>(pc \in {"idle", "closed", "crashed"})

-----------------------------------------------------------------------------
(* The inductive invariant: what the session knows of the exchange at each *)
(* of its awaits.  LiveOrders_proofs proves it.                            *)

(* The exchange took the order on; from here it only loses contracts.      *)
Accepted(id) == exch[id].st \in {"resting", "canceled", "executed"}

ExchangeOK ==
  \A id \in Ids :
    /\ Accepted(id) => /\ intent[id] \in Intents
                       /\ exch[id].rem <= exch[id].open
                       /\ exch[id].open <= intent[id].count
    /\ Resting(id) => exch[id].rem >= 1
    /\ exch[id].st = "sent" => \/ id \in lost /\ intent[id] \in Intents
                               \/ pc = "awaitCreate" /\ id \in Requested
    /\ id >= nextId => exch[id].st = "none"

(* Feed: every trade told or journalled really happened.                   *)
Happened(t) == Accepted(t[1]) /\ t[2] <= FilledOf(t[1])

FeedOK ==
  /\ seen \subseteq wire
  /\ \A t \in wire : Happened(t)
  /\ \A t \in DOMAIN filledLog : Happened(t)
  /\ wire \cap DOMAIN filledLog \subseteq seen
  /\ pc = "awaitCreate" => \A t \in seen : t[1] \notin Requested

(* What is tracked was accepted under the intent it is tracked with, and   *)
(* neither count of its fills exceeds the fills there were.                *)
SeenOf(id) == {t \in seen : t[1] = id}

TrackedOK ==
  \A id \in Tracked :
    /\ Accepted(id)
    /\ orders[id].quote = intent[id].quote /\ orders[id].ticker = intent[id].ticker
    /\ orders[id].initial = intent[id].count
    /\ orders[id].fm = Cardinality(SeenOf(id))
    /\ orders[id].uf <= FilledOf(id)
    /\ orders[id].rem >= exch[id].rem

(* The orders being created are new, one per quote, none of them tracked.  *)
Creating == pc \in {"awaitBalance", "awaitCreate"}

BatchOK ==
  /\ Creating => \A id \in Requested :
       /\ id < nextId /\ id \notin Tracked /\ id \notin lost
       /\ \A x \in Tracked : orders[x].quote # batch[id].quote
       /\ \A x \in Requested : batch[x].quote = batch[id].quote => x = id
  /\ pc = "awaitBalance" => \A id \in Requested : exch[id].st = "none"
  /\ pc = "awaitCreate" => \A id \in Requested : intent[id] = batch[id]
  /\ pc = "awaitCreate" /\ rpc = "sent" => \A id \in Requested : exch[id].st = "sent"
  /\ \A id \in lost : id < nextId
  /\ job.wanted # {} => job.mkt \in Tickers
  /\ \A i \in job.wanted : i.ticker = job.mkt
  /\ Distinct(job.wanted)

(* A create response tells what became of each order at that moment.       *)
ReplyOK ==
  pc = "awaitCreate" /\ rpc = "ok" =>
    /\ DOMAIN reply = Requested
    /\ \A id \in Requested :
         \/ reply[id] = Rejected /\ exch[id].st = "rejected"
         \/ /\ Accepted(id) /\ reply[id] \in {Unreported, 0, batch[id].count}
            /\ reply[id] # Unreported => reply[id] = exch[id].open

(* Orders to cancel were accepted once; a cancel is answered "ok" only for *)
(* what is dead, and the dead stay dead.                                   *)
CancelOK ==
  /\ \A id \in job.todo \cup job.replace : Accepted(id)
  /\ pc = "awaitCancel" => job.cur \in Ids /\ Accepted(job.cur)
  /\ pc = "awaitCancel" /\ rpc = "ok" => Terminal(job.cur)
  /\ \A id \in canceled \cup cancelledLog : Terminal(id)

(* Where every known resting order is accounted for, at each stage.        *)
InLoop == pc \in {"idle", "plan"} \/ Creating
          \/ (pc \in {"cancel", "awaitCancel"} /\ job.ctx \in {"missing", "replace"})

InSweep == Sweeping /\ pc \in {"list", "cancel", "awaitCancel"}

CoverOK ==
  \A id \in Ids : Resting(id) /\ Known(id) =>
    /\ InLoop => id \in Tracked \/ (pc = "awaitCreate" /\ id \in Requested)
    /\ InSweep => \/ intent[id].ticker \in job.tickers \/ id \in job.todo
                  \/ pc = "awaitCancel" /\ id = job.cur
    /\ ~(pc = "closed" /\ ~shutErr)

(* Each stage goes with the passes it belongs to.                          *)
StageOK ==
  /\ pc = "list" => Sweeping /\ job.todo = {}
  /\ pc \in {"cancel", "awaitCancel"} =>
       job.ctx \in {"startup", "missing", "replace", "all", "sweep"}
  /\ pc = "plan" => job.ctx = "replace"
  /\ Creating => job.ctx = "create"
  /\ pc \in {"idle", "closed", "crashed"} => job.ctx = "idle"

IInv ==
  /\ TypeOK /\ ExchangeOK /\ FeedOK /\ TrackedOK /\ BatchOK /\ ReplyOK
  /\ CancelOK /\ CoverOK /\ StageOK
  /\ OneRestingOrderPerQuote
=============================================================================
