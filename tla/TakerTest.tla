------------------------------- MODULE TakerTest -------------------------------
(***************************************************************************)
(* scripts/taker_live_test.py: run takes a trade from the queue, enters,   *)
(* measures the entry, holds, rests an exit, cancels it and crosses what   *)
(* is left.  A call that raises outside a try ends the script.             *)
(***************************************************************************)
EXTENDS Account

CONSTANTS
  CountScale,    \* COUNT_SCALE: units of a contract, of which an entry is one
  MaxTrades      \* --max-trades

VARIABLES
  tPc,           \* the call the script is at
  dir,           \* the direction of the trade taken from the queue
  trades,        \* guard.trades
  owed           \* history: markets entered and not yet given to flatten

taker == <<tPc, dir, trades, owed>>

ASSUME TakerAssumption == CountScale \in Nat \ {0} /\ MaxTrades \in Nat

TakerInit == tPc = "start" /\ dir = 1 /\ trades = 0 /\ owed = {}

(* The call raises: nothing around it catches, and the script ends.        *)
Uncaught == tPc' = "ended"

Starts ==
  /\ tPc = "start" /\ (tPc' = "top" \/ Uncaught)
  /\ UNCHANGED <<dir, trades, owed, exit, account>>

(* The duration, silence or the end of the feed ends the loop, or a trade  *)
(* that pump left in the queue is taken from it, however old it is.        *)
Wait ==
  /\ tPc = "top"
  /\ \/ tPc' = "ended" /\ UNCHANGED <<dir, ticker>>
     \/ tPc' = "guard" /\ dir' \in {-1, 1} /\ ticker' \in Markets
  /\ UNCHANGED <<trades, owed, held, excused, account>>

CheckTrades == trades < MaxTrades

(* The balance cannot be read, is at the floor, or the trades are at their *)
(* limit: the loop ends.  Else the entry is sent; it counts when it is     *)
(* answered, whatever it did.                                              *)
Enter ==
  /\ tPc = "guard" /\ UNCHANGED <<dir, ticker>>
  /\ \/ tPc' = "ended" /\ UNCHANGED <<trades, owed, held, excused, account>>
     \/ /\ CheckTrades
        /\ Crossing(Order(ticker, "tlt-in-", dir), CountScale)
        /\ held' = [held EXCEPT ![ticker] = 0]
        /\ IF position[ticker] # 0 \/ \E o \in Orders : o.ticker = ticker /\ resting[o] > 0
           THEN Excuse ELSE UNCHANGED excused
        /\ \/ tPc' = "measure" /\ trades' = trades + 1 /\ owed' = owed \cup {ticker}
           \/ tPc' = "top" /\ UNCHANGED <<trades, owed>>

(* realised_fill, outside any try.                                         *)
Measure ==
  /\ tPc = "measure" /\ (tPc' = "hold" \/ Uncaught)
  /\ UNCHANGED <<dir, trades, owed, exit, account>>

(* The hold is over: the position is read.                                 *)
Hold ==
  /\ tPc = "hold"
  /\ \/ /\ held' = [held EXCEPT ![ticker] = position[ticker]]
        /\ tPc' = IF held'[ticker] = 0 THEN "flatten" ELSE "exit"
     \/ Uncaught /\ UNCHANGED held
  /\ UNCHANGED <<dir, trades, owed, ticker, excused, account>>

(* passive_exit: no book, or the exit is put to rest at the touch.         *)
RestExit ==
  /\ tPc = "exit"
  /\ \/ tPc' = "flatten" /\ UNCHANGED <<excused, account>>
     \/ /\ PostOnly(Order(ticker, "tlt-rest-", -Sign(held[ticker])), Size(held[ticker]))
        /\ \/ tPc' = "poll" /\ UNCHANGED excused
           \/ tPc' = "flatten" /\ Excuse
  /\ UNCHANGED <<dir, trades, owed, ticker, held>>

(* A poll sees the position closed, or the time to rest is over.           *)
Poll ==
  /\ tPc = "poll"
  /\ \/ position[ticker] = 0 /\ tPc' = "flatten"
     \/ tPc' = "cancel"
     \/ Uncaught
  /\ UNCHANGED <<dir, trades, owed, exit, account>>

RestingExits == RestingOf(ticker, "tlt-rest-")

CancelRest ==
  /\ tPc = "cancel" /\ (tPc' = "flatten" \/ Uncaught)
  /\ \/ CancelAll(RestingExits) /\ UNCHANGED excused
     \/ (CancelAll(RestingExits) \/ UNCHANGED account) /\ Excuse
  /\ UNCHANGED <<dir, trades, owed, ticker, held>>

Whole(n) == (n \div CountScale) * CountScale

(* flatten: nothing is left, or there is no book, or the whole contracts   *)
(* that are left are crossed; a failure of the order is logged.            *)
Flatten ==
  /\ tPc = "flatten" /\ owed' = owed \ {ticker}
  /\ \/ Uncaught /\ UNCHANGED account
     \/ tPc' = "balance" /\ UNCHANGED account
     \/ /\ tPc' = "balance" /\ position[ticker] # 0
        /\ Crossing(Order(ticker, "tlt-flat-", -Sign(position[ticker])),
                    Whole(Size(position[ticker])))
  /\ UNCHANGED <<dir, trades, exit>>

Balance ==
  /\ tPc = "balance" /\ (tPc' = "top" \/ Uncaught)
  /\ UNCHANGED <<dir, trades, owed, exit, account>>

OrderTrades(o) == FillAtRest(o) /\ UNCHANGED <<taker, exit>>

TakerStep ==
  \/ Starts \/ Wait \/ Enter \/ Measure \/ Hold \/ RestExit \/ Poll
  \/ CancelRest \/ Flatten \/ Balance \/ \E o \in Orders : OrderTrades(o)

-----------------------------------------------------------------------------
TakerTypeOK ==
  /\ tPc \in {"start", "top", "guard", "measure", "hold", "exit", "poll", "cancel",
              "flatten", "balance", "ended"}
  /\ dir \in {-1, 1} /\ trades \in 0..MaxTrades /\ owed \subseteq Markets

(* The exits of a trade that began in a flat market with nothing at rest   *)
(* leave no position the other way round (taker_live_test.py:423).         *)
TakerNeverReverses ==
  \A t \in Markets \ excused : held[t] * position[t] >= 0

(* Between trades no exit of theirs rests, a failed call aside.            *)
TakerLeavesNoExit ==
  tPc = "top" => \A o \in Orders :
    o.kind = "tlt-rest-" /\ resting[o] > 0 => o.ticker \in excused

(* A trade whose entry was answered is given to flatten before the next    *)
(* one and before the script ends.                                         *)
EntryIsExited == tPc \in {"top", "ended"} => owed = {}
=============================================================================
