----------------------------- MODULE FillCalibration -----------------------------
(***************************************************************************)
(* scripts/calibrate_fills.py: how much of what leaves the queue is traded *)
(* and how much is canceled, measured from books and trades polled in      *)
(* turn, or from a recording of the feed and the trades asked for later.   *)
(* The market moves between any two of its calls.                          *)
(***************************************************************************)
EXTENDS Integers, FiniteSets, SequencesExt

CONSTANTS
  Rolling,        \* the markets of the series
  TradePage,      \* the limit of a page of trades
  Depth,          \* the depth of a book that is asked for
  Ranks,          \* bound: prices of a side, the best is 1
  MaxSize, MaxMoves, MaxPolls     \* bounds: a level, moves of the market, rows

ASSUME CalibrationAssumption == "" \notin Rolling /\ TradePage \in Nat /\ MaxSize \in Nat

VARIABLES
  level,          \* market -> side and price -> what rests there
  prints,         \* market -> its trades: the side consumed, or "unknown"
  moves,          \* moves of the market
  gone,           \* history: market -> side and price -> what has left it since it
                  \* was first polled
  polling,        \* the market whose book was read and whose trades were not yet, or ""
  bookHad,        \* that book, the levels below its page included
  seenTrades,     \* seen_trades: market and number
  warmed,         \* warmed
  calRows,        \* the rows written
  unseen,         \* history: market -> side and price -> what the pages of its rows
                  \* left out there, row by row
  prior,         \* history: market -> its trades before the first row
  wsOn,           \* the feed is recorded
  wsRows,         \* its rows: market, side and delta, or a snapshot
  wsSince         \* market -> its trades before the recording

market == <<level, prints, moves, gone>>
polled == <<polling, bookHad, seenTrades, warmed, calRows, unseen, prior>>
streamed == <<wsOn, wsRows, wsSince>>
calibration == <<market, polled, streamed>>

BookSides == {"bid", "ask"}
Rungs == BookSides \X Ranks
Nowhere == [l \in Rungs |-> 0]

CalibrationInit ==
  /\ level = [t \in Rolling |-> [l \in Rungs |-> 1]] /\ prints = [t \in Rolling |-> <<"bid">>]
  /\ moves = 0 /\ gone = [t \in Rolling |-> Nowhere]
  /\ polling = "" /\ bookHad = Nowhere /\ seenTrades = {} /\ warmed = {} /\ calRows = <<>>
  /\ unseen = [t \in Rolling |-> Nowhere] /\ prior = [t \in Rolling |-> 0]
  /\ wsOn = TRUE /\ wsRows = <<>>
  /\ wsSince = [t \in Rolling |-> Len(prints[t])]

-----------------------------------------------------------------------------
(* The market: a unit of a level is traded, canceled or added.             *)

Moves(t, l, by) ==
  /\ moves < MaxMoves /\ moves' = moves + 1 /\ level[t][l] + by \in 0..MaxSize
  /\ level' = [level EXCEPT ![t][l] = @ + by]
  /\ gone' = IF by < 0 /\ (t \in warmed \/ polling = t)
             THEN [gone EXCEPT ![t][l] = @ + 1] ELSE gone
  /\ wsRows' = IF wsOn THEN Append(wsRows, [ticker |-> t, type |-> "delta", side |-> l[1], delta |-> by])
               ELSE wsRows
  /\ UNCHANGED <<polled, wsOn, wsSince>>

LevelChanges(t, l, by) == Moves(t, l, by) /\ UNCHANGED prints

Better(book, l) == {k \in Ranks : k < l[2] /\ book[<<l[1], k>>] > 0}

(* The best price of the side trades.                                      *)
Prints(t, l) ==
  /\ Better(level[t], l) = {} /\ Moves(t, l, -1)
  /\ \E known \in BOOLEAN :
       prints' = [prints EXCEPT ![t] = Append(@, IF known THEN l[1] ELSE "unknown")]

-----------------------------------------------------------------------------
(* record: the book of a market, then its last trades; the round is over   *)
(* when a call raises.                                                     *)

PollBook(t) ==
  /\ polling = "" /\ Len(calRows) < MaxPolls /\ polling' = t /\ bookHad' = level[t]
  /\ UNCHANGED <<market, seenTrades, warmed, calRows, unseen, prior, streamed>>

PollRaises ==
  /\ polling # "" /\ polling' = ""
  /\ gone' = IF polling \in warmed THEN gone
             ELSE [gone EXCEPT ![polling] = Nowhere]
  /\ UNCHANGED <<level, prints, moves, bookHad, seenTrades, warmed, calRows, unseen, prior, streamed>>

(* Faulty: the trades before the first poll are counted.                   *)
BacklogToo(t, fresh) == fresh

(* The first poll of a market only makes its trades known.                 *)
Counted(t, fresh) == IF t \in warmed THEN fresh ELSE {}

(* The page of a book: of each side the best prices at which anything      *)
(* rests; the script takes what is missing for empty.                      *)
PageOf(book) == [l \in Rungs |-> IF Cardinality(Better(book, l)) < Depth THEN book[l] ELSE 0]

(* A row; the answer to a book with nothing in it may have no book at all. *)
PollTrades ==
  /\ polling # "" /\ polling' = ""
  /\ LET t == polling
         last == {n \in DOMAIN prints[t] : n > Len(prints[t]) - TradePage}
         fresh == {n \in last : <<t, n>> \notin seenTrades}
     IN  /\ seenTrades' = seenTrades \cup {<<t, n>> : n \in fresh}
         /\ warmed' = warmed \cup {t}
         /\ prior' = IF t \in warmed THEN prior ELSE [prior EXCEPT ![t] = Len(prints[t])]
         /\ unseen' = [unseen EXCEPT ![t] = [l \in Rungs |-> @[l] + bookHad[l] - PageOf(bookHad)[l]]]
         /\ \E absent \in BOOLEAN :
              /\ absent => bookHad = Nowhere
              /\ calRows' = Append(calRows,
                   [ticker |-> t, absent |-> absent, book |-> PageOf(bookHad),
                    trades |-> [n \in Counted(t, fresh) |-> prints[t][n]]])
  /\ UNCHANGED <<market, bookHad, streamed>>

(* The recording of the feed ends, or is subscribed anew.                  *)
StreamEnds == wsOn /\ wsOn' = FALSE /\ UNCHANGED <<market, polled, wsRows, wsSince>>

Snapshot(t) ==
  /\ wsOn /\ moves < MaxMoves /\ moves' = moves + 1
  /\ wsRows' = Append(wsRows, [ticker |-> t, type |-> "snapshot", side |-> "", delta |-> 0])
  /\ UNCHANGED <<level, prints, gone, polled, wsOn, wsSince>>

CalibrationStep ==
  \/ PollRaises \/ PollTrades \/ StreamEnds
  \/ \E t \in Rolling : PollBook(t) \/ Snapshot(t)
  \/ \E t \in Rolling, l \in Rungs :
       LevelChanges(t, l, 1) \/ LevelChanges(t, l, -1) \/ Prints(t, l)

-----------------------------------------------------------------------------
(* What is made of the rows.  Of the polls what was lost is kept by price  *)
(* here; the script adds up the prices of a side.                          *)

NoStats == [shrink |-> Nowhere, traded |-> [s \in BookSides |-> 0],
            unattributed |-> 0, snapshots |-> 0, last |-> <<>>]
NoStream == [NoStats EXCEPT !.shrink = [s \in BookSides |-> 0]]

TradedAt(row, side) == Cardinality({n \in DOMAIN row.trades : row.trades[n] = side})

(* calibrate: what a level lost between two rows of its market, and the    *)
(* trades of the rows; a row without a book is passed over with its trades. *)
Calibrate(t) ==
  FoldLeft(LAMBDA acc, row :
             IF row.ticker # t \/ row.absent THEN acc
             ELSE [shrink |-> [l \in Rungs |->
                     IF acc.last # <<>> /\ acc.last[1][l] > row.book[l]
                     THEN acc.shrink[l] + acc.last[1][l] - row.book[l] ELSE acc.shrink[l]],
                   traded |-> [s \in BookSides |-> acc.traded[s] + TradedAt(row, s)],
                   unattributed |-> acc.unattributed + TradedAt(row, "unknown"),
                   snapshots |-> acc.snapshots + 1, last |-> <<row.book>>],
           NoStats, calRows)

(* fetch_trades_since: all of them, to the day it is asked.                *)
TradesSince(t) == Len(prints[t]) - wsSince[t]

(* calibrate_websocket: every decrease, and half of the trades a side (an  *)
(* odd one is not halved here).                                            *)
CalibrateWebsocket(t) ==
  LET lost == FoldLeft(LAMBDA acc, row :
                IF row.ticker # t THEN acc
                ELSE IF row.type = "snapshot" THEN [acc EXCEPT !.snapshots = @ + 1]
                ELSE IF row.delta >= 0 THEN acc
                ELSE [acc EXCEPT !.shrink[row.side] = @ - row.delta],
              NoStream, wsRows)
  IN  [lost EXCEPT !.traded = [s \in BookSides |-> IF s = "bid" THEN TradesSince(t) \div 2
                                               ELSE TradesSince(t) - TradesSince(t) \div 2]]

(* report, of a recording: the markets whose fraction of traded is taken;  *)
(* more traded than lost is reported and left out.                         *)
LostBySides(stats) == stats.shrink["bid"] + stats.shrink["ask"]
Reported(stats) ==
  {t \in Rolling :
     LET s == stats[t]
     IN  LostBySides(s) > 0 /\ s.traded["bid"] + s.traded["ask"] <= LostBySides(s)}
=============================================================================
