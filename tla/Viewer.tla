-------------------------------- MODULE Viewer --------------------------------
(***************************************************************************)
(* scripts/orderbook_viewer.py: a window of four tabs.  Each tab has a     *)
(* worker, a daemon thread with an asyncio loop of its own, which tells    *)
(* the window what it does by a queue and is told to stop by an event.     *)
(* The window's thread runs the callbacks of its buttons and, every 50 ms, *)
(* a poll that takes what is in the queues, tab after tab.  A row of the   *)
(* replay's fills is inserted under its id: an id that is there already    *)
(* raises, the poll does not arm the next one, and no tab is served again. *)
(***************************************************************************)
EXTENDS Optimizer, FiniteSets

CONSTANTS
  TabSets,       \* bound: which tabs may be used together
  MaxFillRows,   \* MAX_FILL_ROWS
  MaxFills,      \* bound: fills of a backtest
  MaxStarts,     \* bound: workers started
  MaxQueue       \* bound: events in a queue before its worker waits

ASSUME ViewerAssumption == MaxFillRows \in Nat

VARIABLES
  used,          \* the tabs used; the queues of the others stay empty
  ui,            \* "idle", the tab whose queue is being read, or "gone"
  phase,         \* tab -> "off", "busy" in its loop, "leaving"
  stopSet,       \* tab -> its stop event
  startOn,       \* tab -> the Start button is enabled
  stopOn,        \* tab -> the Stop button is enabled
  events,        \* tab -> its queue
  lastWords,     \* tab -> what its worker is still to put on its way out
  fills,         \* fills of the backtest under way
  rows,          \* _fills_table: ids from the top
  seenFills,     \* _replay_seen_fills
  optimizing,    \* the backtest under way is a search
  overtaken,     \* history: tabs started with an error of the last run unread
  starts

viewer == <<used, ui, phase, stopSet, startOn, stopOn, events, lastWords, fills, rows,
            seenFills, optimizing, overtaken, starts>>

Polled == <<"live", "record", "replay", "trade">>
Tabs == {Polled[i] : i \in DOMAIN Polled}
After(t) ==
  LET at(u) == CHOOSE k \in DOMAIN Polled : Polled[k] = u
      later == SelectSeq(Polled, LAMBDA u : u \in used /\ at(u) > at(t))
  IN  IF later = <<>> THEN "idle" ELSE Head(later)

Event(kind) == [kind |-> kind, ids |-> <<>>]
Fills(kind, ids) == [kind |-> kind, ids |-> ids]
Ids(n) == [i \in 1..n |-> i]

ViewerInit ==
  /\ used \in TabSets /\ ui = "idle" /\ phase = [t \in Tabs |-> "off"] /\ starts = 0
  /\ stopSet = [t \in Tabs |-> FALSE]
  /\ startOn = [t \in Tabs |-> TRUE] /\ stopOn = [t \in Tabs |-> FALSE]
  /\ events = [t \in Tabs |-> <<>>] /\ lastWords = [t \in Tabs |-> <<>>]
  /\ fills = 0 /\ rows = <<>> /\ seenFills = {} /\ optimizing = FALSE
  /\ overtaken = {}
  /\ TrialsInit

-----------------------------------------------------------------------------
(* The window's thread.                                                    *)

SetRunning(t, running) ==
  /\ startOn' = [startOn EXCEPT ![t] = ~running]
  /\ stopOn' = [stopOn EXCEPT ![t] = running]

(* _clear_replay_tables.                                                   *)
ClearTables == rows' = <<>> /\ seenFills' = {}

(* A tab that runs is not started again.  Its settings are valid: an       *)
(* invalid one leaves all as it is.                                        *)
Begin(t) ==
  /\ ui = "idle" /\ t \in used /\ startOn[t] /\ phase[t] = "off" /\ starts < MaxStarts
  /\ starts' = starts + 1
  /\ SetRunning(t, TRUE)
  /\ stopSet' = [stopSet EXCEPT ![t] = FALSE]
  /\ phase' = [phase EXCEPT ![t] = "busy"]
  /\ overtaken' = IF events[t] = <<>> THEN overtaken \ {t} ELSE overtaken \cup {t}
  /\ UNCHANGED <<ui, events, lastWords>>

StartFeed(t) ==
  /\ t \in {"live", "record"} /\ Begin(t)
  /\ UNCHANGED <<rows, seenFills, fills, optimizing, search>>

(* A search is one of the adaptive strategy's parameters; to search "all", *)
(* the settings of execution too, is to search.                            *)
StartReplay(optimize, mode, strategy) ==
  /\ Begin("replay")
  /\ optimize => strategy = "adaptive"
  /\ mode = "all" => optimize
  /\ ClearTables /\ fills' = 0 /\ optimizing' = optimize
  /\ IF optimize THEN BeginSearch(mode = "all") ELSE NoSearch

(* Orders are submitted when the person agrees in a dialog, and on the     *)
(* production exchange when it is ticked besides.  What becomes of them is *)
(* in LiveSession.                                                         *)
StartTrading(prod, execute, confirmed, agreed) ==
  /\ Begin("trade")
  /\ prod /\ execute => confirmed
  /\ execute => agreed
  /\ UNCHANGED <<rows, seenFills, fills, optimizing, search>>

Start ==
  \/ \E t \in Tabs : StartFeed(t)
  \/ \E optimize \in BOOLEAN, mode \in {"adaptive", "all"}, strategy \in {"static", "adaptive"} :
       StartReplay(optimize, mode, strategy)
  \/ \E prod, execute, confirmed, agreed \in BOOLEAN :
       StartTrading(prod, execute, confirmed, agreed)

Stop(t) ==
  /\ ui = "idle" /\ stopOn[t]
  /\ stopSet' = [stopSet EXCEPT ![t] = TRUE]
  /\ stopOn' = [stopOn EXCEPT ![t] = FALSE]
  /\ UNCHANGED <<ui, phase, startOn, events, lastWords, fills, rows, seenFills,
                 optimizing, overtaken, starts, search>>

(* _on_close: the window is destroyed, main returns, and the process ends  *)
(* with the daemon threads wherever they are.                              *)
CloseWindow ==
  /\ ui = "idle" /\ ui' = "gone"
  /\ stopSet' = [t \in Tabs |-> TRUE]
  /\ phase' = [t \in Tabs |-> "off"] /\ lastWords' = [t \in Tabs |-> <<>>]
  /\ UNCHANGED <<startOn, stopOn, events, fills, rows, seenFills, optimizing,
                 overtaken, starts, search>>

(* _append_fill_rows: ids not seen go to the end, in their order, then the *)
(* first rows go until MAX_FILL_ROWS are left.                             *)
Unseen(ids) ==
  LET new == {k \in DOMAIN ids : ids[k] \notin seenFills}
      place == CHOOSE f \in [1..Cardinality(new) -> new] :
                 \A i, j \in DOMAIN f : i < j => f[i] < f[j]
  IN  [i \in DOMAIN place |-> ids[place[i]]]
Appended(ids) == rows \o Unseen(ids)
Dropped(all) == IF Len(all) > MaxFillRows THEN Len(all) - MaxFillRows ELSE 0

AppendFillRows(ids) ==
  LET all == Appended(ids) d == Dropped(all)
  IN  /\ rows' = SubSeq(all, d + 1, Len(all))
      /\ seenFills' = (seenFills \cup {ids[k] : k \in DOMAIN ids})
                        \ {all[k] : k \in 1..d}

BeginPoll ==
  /\ ui = "idle" /\ ui' = Head(SelectSeq(Polled, LAMBDA t : t \in used))
  /\ UNCHANGED <<phase, stopSet, startOn, stopOn, events, lastWords, fills, rows,
                 seenFills, optimizing, overtaken, starts, search>>

(* Faulty: a worker that failed leaves its buttons as they are.            *)
EndOnlyByStopped(t) ==
  IF Head(events[t]).kind = "stopped" THEN SetRunning(t, FALSE)
  ELSE UNCHANGED <<startOn, stopOn>>

(* "error" and "stopped" are the ends of a worker to the window, whoever   *)
(* put them.                                                               *)
EndOfRun(t) ==
  IF Head(events[t]).kind \in {"error", "stopped"} THEN SetRunning(t, FALSE)
  ELSE UNCHANGED <<startOn, stopOn>>

(* One event of the queue that is being read.  "error" opens a dialog, and *)
(* nothing else is read or clicked until it is dismissed.                  *)
HandleEvent(t) ==
  /\ ui = t /\ events[t] # <<>>
  /\ events' = [events EXCEPT ![t] = Tail(@)]
  /\ EndOfRun(t)
  /\ IF Head(events[t]).kind \in {"update", "result"} /\ t = "replay"
     THEN AppendFillRows(Head(events[t]).ids)
     ELSE UNCHANGED <<rows, seenFills>>
  /\ UNCHANGED <<ui, phase, stopSet, lastWords, fills, optimizing,
                 overtaken, starts, search>>

NextTab(t) ==
  /\ ui = t /\ events[t] = <<>> /\ ui' = After(t)
  /\ UNCHANGED <<phase, stopSet, startOn, stopOn, events, lastWords, fills, rows,
                 seenFills, optimizing, overtaken, starts, search>>

-----------------------------------------------------------------------------
(* The workers.                                                            *)

Put(t, e) == events' = [events EXCEPT ![t] = Append(@, e)]
Room(t) == Len(events[t]) < MaxQueue

(* A row, a status line or an update; an update of a replay carries the    *)
(* fills of the last market event alone.  Between its events a worker      *)
(* sleeps longer than the window reads its queue.                          *)
Tell(t) ==
  /\ phase[t] = "busy" /\ Room(t) /\ ui # t
  /\ IF t = "replay"
     THEN /\ ~optimizing
          /\ \E n \in fills..MaxFills : \E k \in fills..n :
               /\ n > fills /\ fills' = n
               /\ Put(t, Fills("update", SubSeq(Ids(n), k + 1, n)))
     ELSE Put(t, Event("status")) /\ UNCHANGED fills
  /\ UNCHANGED <<ui, phase, stopSet, startOn, stopOn, lastWords, rows, seenFills,
                 optimizing, overtaken, starts, search>>

(* A fill no update is made for: update_interval_seconds is not over.      *)
FillUntold ==
  /\ phase["replay"] = "busy" /\ ~optimizing
  /\ fills < MaxFills /\ fills' = fills + 1
  /\ UNCHANGED <<ui, phase, stopSet, startOn, stopOn, events, lastWords, rows,
                 seenFills, optimizing, overtaken, starts, search>>

(* The search: a trial is run and told.                                    *)
RunTrial ==
  /\ phase["replay"] = "busy" /\ optimizing
  /\ ~stopSet["replay"] /\ Room("replay") /\ ui # "replay"
  /\ NextTrial /\ Put("replay", Event("status"))
  /\ UNCHANGED <<ui, phase, stopSet, startOn, stopOn, lastWords, fills, rows,
                 seenFills, optimizing, overtaken, starts>>

(* What a worker puts last.  An exception passes the finally of _run_feed  *)
(* and _run_recording, which put "stopped", then reaches the thread, which *)
(* puts "error".  A receiver that died raises when the finally awaits it:  *)
(* _run_feed then puts "error" alone.  The others put one end.             *)
FeedEnds == {<<Event("stopped")>>, <<Event("stopped"), Event("error")>>,
             <<Event("error")>>}
RecordEnds == {<<Event("recorded")>> \o e : e \in FeedEnds \ {<<Event("error")>>}}
                \cup {<<Event("error")>>}
ReplayEnds ==
  {<<Event("error")>>} \cup
  IF optimizing
  THEN IF trials = <<>> \/ (~stopSet["replay"] /\ Len(trials) < Len(chosen)) THEN {}
       ELSE {<<Event("optimized"), Fills("result", Ids(Best.fills)), Event("stopped")>>}
  ELSE {<<Fills("result", Ids(fills)), Event("stopped")>>}

(* Faulty: the end of the trade worker is put in a finally as well.        *)
TradeEndsTwice == {<<Event("result"), Event("stopped")>>, <<Event("stopped"), Event("error")>>}

TradeEnds == {<<Event("result"), Event("stopped")>>, <<Event("error")>>}

Ends(t) ==
  CASE t = "live" -> FeedEnds
    [] t = "record" -> RecordEnds
    [] t = "replay" -> ReplayEnds
    [] t = "trade" -> TradeEnds

(* The loop is left, by the stop event, in its own time, or by an error.   *)
Leave(t) ==
  /\ phase[t] = "busy"
  /\ phase' = [phase EXCEPT ![t] = "leaving"]
  /\ \E words \in Ends(t) : lastWords' = [lastWords EXCEPT ![t] = words]
  /\ UNCHANGED <<ui, stopSet, startOn, stopOn, events, fills, rows, seenFills,
                 optimizing, overtaken, starts, search>>

PutLast(t) ==
  /\ phase[t] = "leaving" /\ lastWords[t] # <<>>
  /\ Put(t, Head(lastWords[t]))
  /\ lastWords' = [lastWords EXCEPT ![t] = Tail(@)]
  /\ UNCHANGED <<ui, phase, stopSet, startOn, stopOn, fills, rows, seenFills,
                 optimizing, overtaken, starts, search>>

ThreadEnds(t) ==
  /\ phase[t] = "leaving" /\ lastWords[t] = <<>>
  /\ phase' = [phase EXCEPT ![t] = "off"]
  /\ UNCHANGED <<ui, stopSet, startOn, stopOn, events, lastWords, fills, rows,
                 seenFills, optimizing, overtaken, starts, search>>

Window == BeginPoll \/ \E t \in Tabs : HandleEvent(t) \/ NextTab(t)
WorkerOut(t) == (stopSet[t] /\ Leave(t)) \/ PutLast(t) \/ ThreadEnds(t)

ViewerStep ==
  /\ UNCHANGED used
  /\ \/ Start \/ Window \/ CloseWindow \/ FillUntold \/ RunTrial
     \/ \E t \in Tabs :
          Stop(t) \/ Tell(t) \/ Leave(t) \/ PutLast(t) \/ ThreadEnds(t)
=============================================================================
