------------------------------- MODULE Account --------------------------------
(***************************************************************************)
(* The account as the scripts that trade unattended see it over REST: the  *)
(* position of each market and the orders at rest.  Every order stays at   *)
(* rest until it trades or is canceled (api/rest.py sends                  *)
(* good_till_canceled).  A batch create answers without raising when the   *)
(* exchange refuses its order.                                             *)
(***************************************************************************)
EXTENDS Integers

CONSTANTS
  Markets,
  MaxPlaced      \* bound: orders ever placed

ASSUME AccountAssumption == MaxPlaced \in Nat

VARIABLES
  position,      \* market -> contracts held, negative when short
  resting,       \* contracts at rest, by market, prefix of client_order_id
                 \* and direction
  placed,        \* orders placed so far
  ticker,        \* the market an exit is at
  held,          \* market -> the position its exit set out to close
  excused        \* history: markets where a call of an exit failed, or orders
                 \* the exit does not look for were there before it

account == <<position, resting, placed>>
exit == <<ticker, held, excused>>

NoTicker == "none"

Kinds == {"rflat-", "flat-", "tlt-in-", "tlt-rest-", "tlt-flat-"}
Orders == [ticker : Markets, kind : Kinds, dir : {-1, 1}]

AccountInit ==
  /\ position = [t \in Markets |-> 0]
  /\ resting = [o \in Orders |-> 0] /\ placed = 0
  /\ ticker = NoTicker /\ held = [t \in Markets |-> 0] /\ excused = {}

AccountTypeOK ==
  /\ position \in [Markets -> Int] /\ held \in [Markets -> Int]
  /\ ticker \in Markets \cup {NoTicker} /\ excused \subseteq Markets
  /\ resting \in [Orders -> Nat] /\ placed \in 0..MaxPlaced

Excuse == excused' = excused \cup {ticker}

Size(n) == IF n < 0 THEN -n ELSE n
Sign(n) == IF n < 0 THEN -1 ELSE IF n > 0 THEN 1 ELSE 0

Order(t, kind, d) == [ticker |-> t, kind |-> kind, dir |-> d]

(* done of n contracts of an order trade as it arrives, the others rest.   *)
Taken(o, n, done) ==
  /\ placed < MaxPlaced /\ placed' = placed + 1
  /\ position' = [position EXCEPT ![o.ticker] = @ + o.dir * done]
  /\ resting' = [resting EXCEPT ![o] = @ + n - done]

Crossing(o, n) == UNCHANGED account \/ \E done \in 0..n : Taken(o, n, done)
PostOnly(o, n) == UNCHANGED account \/ Taken(o, n, 0)

(* One contract at rest trades.                                            *)
FillAtRest(o) ==
  /\ resting[o] > 0 /\ resting' = [resting EXCEPT ![o] = @ - 1]
  /\ position' = [position EXCEPT ![o.ticker] = @ + o.dir]
  /\ UNCHANGED placed

RestingOf(t, kind) == {o \in Orders : o.ticker = t /\ o.kind = kind}

CancelAll(os) ==
  /\ resting' = [o \in Orders |-> IF o \in os THEN 0 ELSE resting[o]]
  /\ UNCHANGED <<position, placed>>
=============================================================================
