------------------------------- MODULE Quoting --------------------------------
(***************************************************************************)
(* A strategy and the live order manager around one market: the strategy   *)
(* reads the touch and the position as they are known, the manager cancels *)
(* what is no longer wanted or is to be replaced, then creates what is     *)
(* missing, while the market moves, orders are filled, and news of the     *)
(* fills is late.  Calls do not fail here: LiveOrders has their failures.  *)
(***************************************************************************)
EXTENDS Gates, Requote, FiniteSetsExt

CONSTANTS
  Sessions,       \* <<<<strategy, wrapper>>, close time>>, the time None when not read
  Touches,        \* what the order book may show, the bot's orders left out
  Holdings,       \* positions a session may start with
  Estimates,      \* what market/dynamics.py may estimate
  Cooldown,       \* rejection_cooldown_seconds
  MaxNow,         \* bound: seconds
  MaxUnseen,      \* bound: contracts filled and not yet reported
  MaxSamples      \* bound: mids inside the lookback

ASSUME QuotingAssumption ==
  /\ Sessions \subseteq
       (({"dumb", "adaptive", "horizon", "momo"} \X
           {"plain", "phased", "obigate", "defended", "symmetric"}) \X (Nat \cup {None}))
  /\ Touches \subseteq [bid : Grid \cup {NoPrice}, ask : Grid \cup {NoPrice},
                        bidSize : Nat, askSize : Nat]
  /\ Holdings \subseteq Int /\ Estimates \subseteq [move : Nat, risk : Nat]
  /\ MaxNow \in Nat /\ MaxUnseen \in Nat

VARIABLES
  stack,      \* the strategy chosen, never changed
  closeAt,    \* the close time, never changed
  now, touch,
  position,   \* what the exchange holds for the account
  orders,     \* at rest; rem as the bot tracks it, of which filled is not yet reported
  late,       \* fills of orders no longer tracked, not yet reported, by side
  memory,     \* what the strategy keeps: mids, episode, tracker
  pending,    \* the creation under way
  cooling,    \* quotes refused, with the time they may be tried again
  seen        \* history: the last mid observed in each second, and the first of all

vars == <<stack, closeAt, now, touch, position, orders, late, memory, pending, cooling, seen>>

Filled(S, action) == MapThenSumSet(LAMBDA o : o.filled, {o \in S : o.contract = action})

Unseen(action) == late[action] + Filled(orders, action)

(* The portfolio's position: what has been reported.                       *)
View == position - Unseen("buy") + Unseen("sell")
(* No threshold is negative: past the close nothing changes any more.       *)
Left == IF closeAt = None THEN None ELSE Greater(closeAt - now, 0)

Idle == [intents |-> {}, touch |-> [bid |-> NoPrice, ask |-> NoPrice, bidSize |-> 0, askSize |-> 0],
         left |-> None, view |-> 0, missed |-> [buy |-> 0, sell |-> 0]]

Init ==
  /\ \E s \in Sessions : stack = s[1] /\ closeAt = s[2]
  /\ touch \in Touches
  /\ position \in Holdings
  /\ now = 0 /\ orders = {} /\ late = [buy |-> 0, sell |-> 0]
  /\ memory = [mids |-> <<>>, episode |-> NoEpisode, tracker |-> NewTracker]
  /\ pending = Idle /\ cooling = {}
  /\ seen = [last |-> [s \in 0..MaxNow |-> NoPrice], first |-> None, mid |-> NoPrice]

-----------------------------------------------------------------------------
(* What is observed by the strategies that keep something.                 *)
Watching == stack[1] = "momo" \/ stack[2] \in {"defended", "symmetric"}

Observed ==
  IF ~TwoSided(touch) THEN memory
  ELSE [memory EXCEPT
          !.mids    = IF stack[1] = "adaptive" THEN RecordMid(@, touch) ELSE @,
          !.tracker = IF Watching THEN Observe(@, Mid(touch), now) ELSE @]

Signals(m) == m.tracker.signal # memory.tracker.signal

Base(m, e) ==
  CASE stack[1] = "dumb"     -> Dumb(touch, View)
    [] stack[1] = "adaptive" -> Adaptive(touch, View, m.mids)
    [] stack[1] = "horizon"  -> Horizon(touch, View, Left, e)
    [] stack[1] = "momo"     -> IF Signals(m) THEN Momentum(touch, View, m.tracker, now) ELSE {}

Gate(m, e) == Gated(m.episode, Base(m, e), touch, View)

Wanted(m, e) ==
  CASE stack[2] = "plain"     -> Base(m, e)
    [] stack[2] = "phased"    -> Phased(Base(m, e), View, Left)
    [] stack[2] = "obigate"   -> Gate(m, e).intents
    [] stack[2] \in {"defended", "symmetric"} ->
         Defended(Base(m, e), m.tracker, now, stack[2] = "symmetric")

Kept(wanted) ==
  {o \in orders : \E i \in wanted : i.quote = o.quote /\ ~ShouldReplace(o, i, now, o.at)}

Cooling(quote) == \E c \in cooling : c.quote = quote /\ now < c.until

Missing(wanted, kept) ==
  {i \in wanted : ~Cooling(i.quote) /\ \A o \in kept : o.quote # i.quote}

-----------------------------------------------------------------------------
(* An update of the book: the strategy is asked, orders are canceled.  News *)
(* of what filled a canceled order is still to come.                       *)
Update(e) ==
  LET m      == Observed
      wanted == Wanted(m, e)
      kept   == Kept(wanted)
      create == Missing(wanted, kept)
  IN  /\ pending = Idle
      /\ Len(memory.tracker.history) < MaxSamples
      /\ orders' = kept
      /\ late' = [action \in {"buy", "sell"} |-> late[action] + Filled(orders \ kept, action)]
      /\ memory' = [m EXCEPT !.episode = IF stack[2] = "obigate" THEN Gate(m, e).episode ELSE @]
      /\ pending' = IF create = {} THEN Idle
                    ELSE [intents |-> create, touch |-> touch, left |-> Left, view |-> View,
                          missed |-> [buy |-> Unseen("buy"), sell |-> Unseen("sell")]]
      /\ cooling' = {c \in cooling : now < c.until}
      /\ seen' = IF ~Watching \/ ~TwoSided(touch) THEN seen
                 ELSE [last  |-> [seen.last EXCEPT ![now] = Mid(touch)],
                       first |-> IF seen.first = None THEN now ELSE seen.first,
                       mid   |-> IF seen.first = None THEN Mid(touch) ELSE seen.mid]
      /\ UNCHANGED <<stack, closeAt, now, touch, position>>

(* The batch is sent post_only, the default of CreateOrderRequest: what     *)
(* would trade at once with an order of the book is refused.               *)
Crosses(i) ==
  \/ i.contract = "buy"  /\ touch.ask # NoPrice /\ i.price >= touch.ask
  \/ i.contract = "sell" /\ touch.bid # NoPrice /\ i.price <= touch.bid
  \/ \E o \in orders : /\ o.contract # i.contract /\ o.rem > o.filled
                       /\ Signed(i.contract, i.price - o.price) >= 0

OrderOf(i, p) ==
  [quote |-> i.quote, ticker |-> i.ticker, contract |-> i.contract, price |-> i.price,
   rem |-> i.count, filled |-> 0, at |-> now, missed |-> p.missed, left |-> p.left]

Place ==
  LET refused == {i \in pending.intents : Crosses(i)}
  IN  /\ pending # Idle
      /\ orders' = orders \cup {OrderOf(i, pending) : i \in pending.intents \ refused}
      /\ cooling' = {c \in cooling : \A i \in pending.intents : c.quote # i.quote}
                      \cup {[quote |-> i.quote, until |-> now + Cooldown] : i \in refused}
      /\ pending' = Idle
      /\ UNCHANGED <<stack, closeAt, now, touch, position, late, memory, seen>>

(* Someone trades with an order at rest.                                   *)
Fill(o) ==
  /\ o.rem > o.filled
  /\ Unseen("buy") + Unseen("sell") < MaxUnseen
  /\ orders' = (orders \ {o}) \cup {[o EXCEPT !.filled = @ + 1]}
  /\ position' = position + Signed(o.contract, 1)
  /\ UNCHANGED <<stack, closeAt, now, touch, late, memory, pending, cooling, seen>>

(* News of an order's fills: the portfolio and the tracked order follow.   *)
Report(o) ==
  /\ o.filled > 0
  /\ orders' = (orders \ {o}) \cup
                 (IF o.rem = o.filled THEN {} ELSE {[o EXCEPT !.rem = @ - o.filled, !.filled = 0]})
  /\ UNCHANGED <<stack, closeAt, now, touch, position, late, memory, pending, cooling, seen>>

(* News of fills of orders that are gone: the portfolio alone follows.     *)
ReportLate(action) ==
  /\ late[action] > 0
  /\ late' = [late EXCEPT ![action] = 0]
  /\ UNCHANGED <<stack, closeAt, now, touch, position, orders, memory, pending, cooling, seen>>

(* The others move their orders; what the bot has at rest was traded first. *)
MarketMoves(t) ==
  /\ t # touch
  /\ \A o \in orders : o.rem > o.filled =>
       IF o.contract = "buy" THEN t.ask = NoPrice \/ o.price < t.ask
                             ELSE t.bid = NoPrice \/ t.bid < o.price
  /\ touch' = t
  /\ UNCHANGED <<stack, closeAt, now, position, orders, late, memory, pending, cooling, seen>>

Tick ==
  /\ now < MaxNow
  /\ now' = now + 1
  /\ UNCHANGED <<stack, closeAt, touch, position, orders, late, memory, pending, cooling, seen>>

Next ==
  \/ \E e \in Estimates : Update(e)
  \/ Place
  \/ \E o \in orders : Fill(o) \/ Report(o)
  \/ \E action \in {"buy", "sell"} : ReportLate(action)
  \/ \E t \in Touches : MarketMoves(t)
  \/ Tick

Spec == Init /\ [][Next]_vars

-----------------------------------------------------------------------------
AtRest(action) ==
  MapThenSumSet(LAMBDA o : o.rem - o.filled, {o \in orders : o.contract = action})

WithinUnheard ==
  \A o \in orders :
    Signed(o.contract, position) + AtRest(o.contract) <= MaxPosition + o.missed[o.contract]

ReduceOnlyReduces ==
  \A o \in orders :
    stack[1] = "horizon" /\ IsReduceOnly(o.left) /\ o.missed = [buy |-> 0, sell |-> 0]
      => /\ o.rem - o.filled <= Magnitude(position)
         /\ o.rem > o.filled => Signed(o.contract, position) < 0

(* What a side has at rest, filled altogether, takes the position past the *)
(* limit by no more than the fills of that side the bot had not heard of   *)
(* when it made the order: the position is what the quotes are sized by,   *)
(* and kept orders keep a size made for an earlier one.  And an order the  *)
(* horizon strategy made in the reduce-only phase, no fill being unheard   *)
(* of, never takes the position past flat, however late it is filled       *)
(* (horizon.py:436).                                                       *)
ExposureBounded == WithinUnheard /\ ReduceOnlyReduces

NearItsTouch ==
  \A i \in pending.intents : i.quote \in {"buy", "sell"} =>
    LET t == pending.touch
        away == IF i.contract = "buy" THEN t.bid - i.price ELSE i.price - t.ask
        moved == stack[2] \in {"defended", "symmetric"}
    IN  /\ IF i.contract = "buy" THEN i.price < t.ask ELSE i.price > t.bid
        /\ away <= MaxQuoteAway + (IF moved THEN WidenTicks ELSE 0)
        /\ i.price \in IF moved THEN Prices ELSE Grid

SilentForCause ==
  \A e \in Estimates, action \in {"buy", "sell"} :
    LET r == Reservation(touch, 0, e)
        p == HorizonPrice(touch, action, r, RequiredEdge(touch, e))
        edge == Signed(action, r - p)
    IN  /\ stack[1] = "horizon" /\ View = 0 /\ ~IsReduceOnly(Left)
        /\ TwoSided(touch) /\ touch.ask - touch.bid <= MaxSpread
        /\ p # NoPrice /\ edge > 0 /\ TopSize(touch, action) >= MinTopSize
        /\ Viable(p, edge, MinCount)
        => \E i \in Base(Observed, e) : i.contract = action

(* A maker's quote never trades against the touch it was made from, and is *)
(* within max_quote_away of it; only the defence moves it further, and     *)
(* only the defence off the price levels of the market.  And the horizon   *)
(* strategy, flat and before its reduce-only phase, is silent on a side    *)
(* for a reason: no price, an edge that does not pay the fee of the        *)
(* smallest size, a thin touch; size ramp and tapers together never        *)
(* silence it (horizon.py:412).                                            *)
QuotesAreSound == NearItsTouch /\ SilentForCause

(* "A flat book keeps quoting nothing" (phase.py:39).  An order made in    *)
(* the reduce-only phase, filled altogether and however late, takes the    *)
(* position past flat by less than one order of the strategy and the fills *)
(* of its side the bot had not heard of: the phase looks at the side of a  *)
(* quote and not at its size.                                              *)
PhaseWindsDown ==
  \A o \in orders :
    stack[2] = "phased" /\ o.left # None /\ o.left <= PhaseSeconds
      => Signed(o.contract, position) + AtRest(o.contract) < Count + o.missed[o.contract]

(* A signal is raised exactly for a move of trigger size since the mid     *)
(* that stood before the lookback began (the first mid, when none did),    *)
(* with none in force: what the tracker forgets never changes a signal.    *)
TrackerIsExact ==
  LET before == {s \in 0..MaxNow : s < now - Lookback /\ seen.last[s] # NoPrice}
      stood  == IF before = {} THEN seen.mid ELSE seen.last[Highest(before)]
      since  == IF before = {} THEN seen.first ELSE Highest(before)
      move   == Mid(touch) - stood
  IN  Watching /\ TwoSided(touch) =>
        /\ Signals(Observed) <=>
              /\ seen.first # None /\ ~InForce(memory.tracker, now)
              /\ now - since >= Lookback /\ Magnitude(move) >= TriggerTicks
        /\ Signals(Observed) => /\ Observed.tracker.signal.up <=> move > 0
                                /\ Observed.tracker.signal.move = Magnitude(move)

(* Past stop_quoting_seconds the horizon strategy crosses the spread to    *)
(* get flat (horizon.py:532): the position shrinks when its order is sent  *)
(* to the touch it was made for.                                           *)
FlattenTrades ==
  [][\A i \in pending.intents :
       i.quote = "flatten" /\ touch = pending.touch /\ pending' = Idle
         => Magnitude(position') < Magnitude(position)]_vars

=============================================================================
