----------------------------- MODULE RiskMonitor -----------------------------
(***************************************************************************)
(* The risk monitor of live/risk.py as a record and the operators that     *)
(* update it:                                                              *)
(*   peak        the highest equity seen                                   *)
(*   halted      a limit was exceeded; which one is left out               *)
(*   orderTimes  order number -> when it was recorded (_order_times)       *)
(*   rejections  consecutive rejections                                    *)
(*   lastEvent   when the last event was recorded, the start before any    *)
(* A limit is NoLimit (Python's None) when it is switched off.             *)
(***************************************************************************)
EXTENDS Integers, FiniteSets

CONSTANTS
  MaxAbsPosition, MaxSessionLoss, MaxDrawdown, MaxOrdersPerMinute,
  MaxConsecutiveRejections, MaxFeedSilence,
  Minute              \* 60 seconds

NoLimit == -1

(* A negative limit is refused by RiskLimits.__post_init__.                *)
ASSUME LimitAssumption ==
  /\ {MaxAbsPosition, MaxSessionLoss, MaxDrawdown, MaxOrdersPerMinute,
      MaxConsecutiveRejections, MaxFeedSilence} \subseteq Nat \cup {NoLimit}
  /\ Minute \in Nat

Exceeds(x, limit) == limit # NoLimit /\ x > limit

StartedAt(t) ==
  [peak |-> 0, halted |-> FALSE, orderTimes |-> [n \in {} |-> 0],
   rejections |-> 0, lastEvent |-> t]

RecordEvent(r, t) == [r EXCEPT !.lastEvent = t]

(* Faulty: an order of exactly a minute ago counts no more.                *)
TrimOrderTimesEarly(times, t) ==
  [n \in {k \in DOMAIN times : times[k] > t - Minute} |-> times[n]]

TrimOrderTimes(times, t) ==
  [n \in {k \in DOMAIN times : times[k] >= t - Minute} |-> times[n]]

(* record_order for each of a batch of new orders.                         *)
RecordOrders(r, batch, t) ==
  [r EXCEPT !.orderTimes =
     IF batch = {} THEN @
     ELSE TrimOrderTimes([n \in DOMAIN @ \cup batch |->
                            IF n \in batch THEN t ELSE @[n]], t)]

PeakWith(r, equity) == IF equity > r.peak THEN equity ELSE r.peak

Breached(r, position, equity, t) ==
  \/ Exceeds(IF position < 0 THEN -position ELSE position, MaxAbsPosition)
  \/ Exceeds(-equity, MaxSessionLoss)
  \/ Exceeds(PeakWith(r, equity) - equity, MaxDrawdown)
  \/ Exceeds(Cardinality(DOMAIN TrimOrderTimes(r.orderTimes, t)), MaxOrdersPerMinute)
  \/ Exceeds(r.rejections, MaxConsecutiveRejections)
  \/ Exceeds(t - r.lastEvent, MaxFeedSilence)

(* The monitor after check; it reports a breach when halted holds.         *)
Check(r, position, equity, t) ==
  IF r.halted THEN r
  ELSE [r EXCEPT !.peak = PeakWith(r, equity),
                 !.halted = Breached(r, position, equity, t),
                 !.orderTimes = IF MaxOrdersPerMinute = NoLimit THEN @
                                ELSE TrimOrderTimes(@, t)]
=============================================================================
