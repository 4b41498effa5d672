-------------------------------- MODULE Gates ---------------------------------
(***************************************************************************)
(* What wraps a market maker or stands in for one: the reduce-only phase   *)
(* (phase.py), the order book imbalance gate (obi_gate.py), the momentum   *)
(* tracker (momentum.py) with the defence (defended.py) and the taker      *)
(* (momentum_taker.py) that read it.                                       *)
(***************************************************************************)
EXTENDS Makers

CONSTANTS
  PhaseSeconds,                          \* WindowPhaseStrategy.reduce_only_seconds
  ObiHundredths, ObiFloor, GateBuys,     \* OBIGatedStrategy
  TriggerTicks, Lookback, SignalSeconds, \* MomentumConfig, cooldown_seconds last
  WidenTicks,
  TakerEdge, TakerFeeLimit               \* MomentumTakerStrategy

ASSUME GatesAssumption ==
  /\ ObiHundredths \in Nat \ {0} /\ GateBuys \in BOOLEAN
  /\ TriggerTicks \in Nat \ {0} /\ Lookback \in Nat \ {0}
  /\ WidenTicks \in Nat /\ PhaseSeconds \in Nat
  /\ SignalSeconds \in Nat \ {0}     \* so a signal is traded once: none is raised in its time

Reduces(intent, position) == Signed(intent.contract, position) < 0

(* Faulty: a flat book is quoted on both sides.                            *)
PhasedAndFlat(intents, position, left) ==
  IF left = None \/ left > PhaseSeconds THEN intents
  ELSE {i \in intents : Signed(i.contract, position) <= 0}

(* By its side alone: a quote of more than is held is let through whole.   *)
Phased(intents, position, left) ==
  IF left = None \/ left > PhaseSeconds THEN intents
  ELSE {i \in intents : Reduces(i, position)}

-----------------------------------------------------------------------------
(* The side the imbalance of the touch endangers, or "none".               *)
Endangered(t) ==
  LET total == t.bidSize + t.askSize
      tilt  == 100 * (t.bidSize - t.askSize)
  IN  IF t.bid = NoPrice \/ t.ask = NoPrice \/ total = 0 \/ total < ObiFloor THEN "none"
      ELSE IF tilt >= ObiHundredths * total THEN "sell"
      ELSE IF GateBuys /\ tilt <= -(ObiHundredths * total) THEN "buy" ELSE "none"

NoEpisode == [side |-> "none", blocked |-> {}, counted |-> 0]

HeldBack(intents, side, position) ==
  {i \in intents : i.contract = side /\ ~Reduces(i, position)}

Counted(episode, hit) ==
  [episode EXCEPT !.blocked = @ \cup hit, !.counted = @ + Cardinality(hit \ episode.blocked)]

(* The quotes let through, and the episode after them: the quotes it has   *)
(* held back, counted once each (counted: of this episode alone).          *)
Gated(episode, intents, t, position) ==
  LET side == IF intents = {} THEN "none" ELSE Endangered(t)
      now  == IF side = episode.side THEN episode ELSE [NoEpisode EXCEPT !.side = side]
      hit  == HeldBack(intents, side, position)
  IN  [intents |-> intents \ hit, episode |-> Counted(now, {i.quote : i \in hit})]

-----------------------------------------------------------------------------
(* The momentum tracker: the mids since one before the lookback, oldest    *)
(* first, and the last signal.                                             *)
NoSignal   == [up |-> FALSE, at |-> -1, move |-> 0]
NewTracker == [history |-> <<>>, signal |-> NoSignal]

InForce(tracker, now) == tracker.signal # NoSignal /\ now < tracker.signal.at + SignalSeconds

(* The first sample that stays: those after it are inside the window.      *)
(* Faulty: only what is inside the window stays.                           *)
FirstInside(history, cutoff) ==
  CHOOSE k \in 1..Len(history) :
    /\ history[k].at >= cutoff \/ k = Len(history)
    /\ \A j \in 1..(k - 1) : history[j].at < cutoff

FirstKept(history, cutoff) ==
  CHOOSE k \in 1..Len(history) :
    /\ k = Len(history) \/ history[k + 1].at >= cutoff
    /\ \A j \in 2..k : history[j].at < cutoff

Observe(tracker, mid, now) ==
  LET all  == Append(tracker.history, [at |-> now, mid |-> mid])
      kept == SubSeq(all, FirstKept(all, now - Lookback), Len(all))
      move == mid - kept[1].mid
  IN  [history |-> kept,
       signal  |-> IF /\ Len(kept) >= 2 /\ ~InForce(tracker, now)
                      /\ now - kept[1].at >= Lookback /\ Magnitude(move) >= TriggerTicks
                   THEN [up |-> move > 0, at |-> now, move |-> Magnitude(move)]
                   ELSE tracker.signal]

Suppresses(tracker, action, now) ==
  InForce(tracker, now) /\ (tracker.signal.up <=> action = "sell")

(* Faulty: the quote is moved towards the market.                          *)
Narrowed(intent) == [intent EXCEPT !.price = @ + Signed(intent.contract, WidenTicks)]

Widened(intent) == [intent EXCEPT !.price = @ - Signed(intent.contract, WidenTicks)]

Defended(intents, tracker, now, symmetric) ==
  LET exposed(i) == IF symmetric THEN InForce(tracker, now)
                                 ELSE Suppresses(tracker, i.contract, now)
  IN  {i \in intents : ~exposed(i)}
        \cup {w \in {Widened(i) : i \in {j \in intents : exposed(j)}} :
                0 < w.price /\ w.price < OneDollar}

(* The taker crosses the spread once for a signal raised by this update.   *)
Momentum(t, position, tracker, now) ==
  LET s == tracker.signal
      action == IF s.up THEN "buy" ELSE "sell"
      fee == EdgeTicks(Mid(t), TRUE)
  IN  IF /\ fee <= TakerFeeLimit
         /\ s.move - (t.ask - t.bid) \div 2 - fee >= TakerEdge
         /\ Capacity(action, position) >= Count
      THEN {IF s.up THEN Intent("momo buy", "buy", t.ask, Count)
                    ELSE Intent("momo sell", "sell", t.bid, Count)} ELSE {}
=============================================================================
