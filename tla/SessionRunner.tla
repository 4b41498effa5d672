----------------------------- MODULE SessionRunner -----------------------------
(***************************************************************************)
(* scripts/session_runner.py: cycles of a live session as a child process, *)
(* each followed by flatten, until the time is up, the balance is below    *)
(* the floor or too many calls in a row fail; and the supervisor that      *)
(* starts it again by its exit code.  Every REST call is a step of its own *)
(* and may raise.                                                          *)
(***************************************************************************)
EXTENDS Account, FiniteSets

CONSTANTS
  Leftovers,      \* bound: the positions a session leaves
  MaxFailures,    \* MAX_CONSECUTIVE_FAILURES
  MaxStarts,      \* bound: times the supervisor starts the script
  MaxOffers       \* bound: windows traded, over all cycles

VARIABLES
  sPc,        \* the call the runner is at
  reason,     \* stop_reason
  failures,   \* failures
  tickers,    \* the markets of this cycle
  todo,       \* flatten: markets it has still to look at
  remaining,  \* what it has still to close in the one it is at
  against,    \* history: market -> contracts that may have traded against the
              \* position flatten set out to close, behind its back
  timeUp,     \* time.time() has reached the deadline
  starts,     \* times started
  offers,     \* windows traded so far
  halted      \* history: a floor or permanent stop has happened

cycle == <<tickers, todo, remaining, against>>
session == <<sPc, reason, failures, cycle, timeUp, starts, offers, halted>>

ASSUME SessionRunnerAssumption ==
  Leftovers \subseteq Int /\ MaxFailures \in Nat \ {0} /\ MaxStarts \in Nat \ {0}
  /\ MaxOffers \in Nat /\ IsFiniteSet(Markets)

SessionInit ==
  /\ sPc = "start" /\ reason = "deadline" /\ failures = 0
  /\ tickers = {} /\ todo = {} /\ remaining = 0
  /\ against = [t \in Markets |-> 0] /\ timeUp = FALSE /\ starts = 1 /\ offers = 0
  /\ halted = FALSE

Go(pc) == sPc' = pc /\ UNCHANGED <<reason, halted>>

Final == {"floor", "permanent"}

(* Faulty: the reason stays the one it was set to at the start.            *)
StopUnnamed(why) == sPc' = "exited" /\ reason' = "deadline" /\ halted' = (halted \/ why \in Final)

Stop(why) == sPc' = "exited" /\ reason' = why /\ halted' = (halted \/ why \in Final)

(* A failed attempt: back off, or give up after too many in a row.         *)
Fail ==
  /\ failures' = failures + 1
  /\ IF failures' >= MaxFailures THEN Stop("permanent") ELSE Go("top")

StartBalance ==
  /\ sPc = "start" /\ (Go("top") \/ Stop("crash"))
  /\ UNCHANGED <<failures, cycle, exit, account>>

(* Faulty: a failed attempt goes on to the next without looking.           *)
TimeIsUpOnce == timeUp /\ failures = 0

TimeIsUp == timeUp

(* live_windows may offer any window that is open, used before or not.     *)
LoopTop ==
  /\ sPc = "top"
  /\ \/ /\ TimeIsUp /\ Stop("deadline")
        /\ UNCHANGED <<failures, tickers, offers>>
     \/ /\ ~TimeIsUp /\ Stop("floor")               \* the balance is below the floor
        /\ UNCHANGED <<failures, tickers, offers>>
     \/ /\ ~TimeIsUp /\ Fail                        \* balance or live_windows raises
        /\ UNCHANGED <<tickers, offers>>
     \/ /\ ~TimeIsUp /\ UNCHANGED failures
        /\ \E ts \in SUBSET Markets :
             /\ offers' = offers + Cardinality(ts) /\ offers' <= MaxOffers
             /\ Go(IF ts = {} THEN "sleep" ELSE "child") /\ tickers' = ts
  /\ UNCHANGED <<todo, remaining, against, exit, account>>

(* No window is open: look again in 20 seconds.                            *)
SleepOn ==
  /\ sPc = "sleep" /\ Go("top")
  /\ UNCHANGED <<failures, cycle, exit, account>>

(* live_trade.py runs to its end and leaves what it holds, whatever it     *)
(* found; the exits of earlier cycles are none of its orders.              *)
Child ==
  /\ sPc = "child"
  /\ \E left \in [tickers -> Leftovers] :
       position' = [t \in Markets |-> IF t \in tickers THEN left[t] ELSE position[t]]
  /\ held' = [t \in Markets |-> IF t \in tickers THEN 0 ELSE held[t]]
  /\ \/ Go("positions") /\ failures' = 0
     \/ Fail
     \/ Stop("permanent") /\ UNCHANGED failures
  /\ UNCHANGED <<cycle, ticker, excused, resting, placed>>

(* The orders at rest in a market that trade against side s, and for it.   *)
Opposing(t, s) == resting[Order(t, "rflat-", -s)] + resting[Order(t, "flat-", -s)]

(* get_positions raises, or the positions to close are known.  Exits of an *)
(* earlier cycle that are still at rest go unnoticed.                      *)
Positions ==
  /\ sPc = "positions"
  /\ \/ /\ Go("next") /\ todo' = {t \in tickers : position[t] # 0}
        /\ held' = [t \in Markets |-> IF t \in todo' THEN position[t] ELSE held[t]]
        /\ against' = [t \in Markets |->
             IF t \in todo' THEN Opposing(t, Sign(position[t])) ELSE against[t]]
        /\ excused' = excused \cup {t \in todo' : \E o \in Orders : o.ticker = t /\ resting[o] > 0}
     \/ Go("after") /\ UNCHANGED <<todo, held, against, excused>>
  /\ UNCHANGED <<failures, tickers, ticker, remaining, account>>

(* The next market: its book cannot be read, is one-sided, or the position *)
(* is small and near certain; or an exit is put to rest at the touch.      *)
NextTicker ==
  /\ sPc = "next"
  /\ \/ /\ todo = {} /\ Go("after") /\ UNCHANGED <<todo, ticker, account>>
     \/ \E t \in todo :
          /\ todo' = todo \ {t} /\ ticker' = t
          /\ \/ Go("next") /\ UNCHANGED account
             \/ Go("rest") /\ PostOnly(Order(t, "rflat-", -Sign(held[t])), Size(held[t]))
  /\ UNCHANGED <<failures, tickers, held, remaining, against, excused>>

(* rest_exit_seconds later.                                                *)
Remaining ==
  /\ sPc = "rest"
  /\ \/ /\ remaining' = position[ticker] /\ UNCHANGED <<todo, excused>>
        /\ Go(IF remaining' = 0 THEN "next" ELSE "cancel")
     \/ Go("after") /\ todo' = {} /\ Excuse /\ UNCHANGED remaining
  /\ UNCHANGED <<failures, tickers, held, ticker, against, account>>

Stale == RestingOf(ticker, "rflat-")

(* A failure is logged and the crossing goes on, what rests or not.        *)
CancelExit ==
  /\ sPc = "cancel" /\ Go("cross")
  /\ \/ CancelAll(Stale) /\ UNCHANGED <<against, excused>>
     \/ CancelAll(Stale) /\ Excuse /\ UNCHANGED against
     \/ /\ UNCHANGED account /\ Excuse
        /\ against' = [against EXCEPT ![ticker] =
             @ + resting[Order(ticker, "rflat-", -Sign(held[ticker]))]]
  /\ UNCHANGED <<failures, tickers, todo, remaining, ticker, held>>

(* Faulty: the position of the start is crossed, not what is left of it.   *)
StubHeld == held[ticker]

Stub == remaining

(* The crossing order; the position is read once more for the log, and a   *)
(* failure of either is logged.                                            *)
Cross ==
  /\ sPc = "cross" /\ Go("next") /\ remaining' = 0
  /\ Crossing(Order(ticker, "flat-", -Sign(Stub)), Size(Stub))
  /\ UNCHANGED <<failures, tickers, todo, against, exit>>

(* The balance is read, or not; the cycle is recorded either way.          *)
After ==
  /\ sPc = "after" /\ Go("top") /\ tickers' = {}
  /\ UNCHANGED <<failures, todo, remaining, against, exit, account>>

Runner ==
  /\ \/ LoopTop
     \/ /\ UNCHANGED offers
        /\ \/ StartBalance \/ SleepOn \/ Child \/ Positions \/ NextTicker \/ Remaining
           \/ CancelExit \/ Cross \/ After
  /\ UNCHANGED <<timeUp, starts>>

-----------------------------------------------------------------------------
(* A resting exit trades.  Between the reading of what remains and the     *)
(* cancel, flatten does not hear of it before it crosses.                  *)
ExitTrades(o) ==
  /\ FillAtRest(o)
  /\ against' =
       IF sPc = "cancel" /\ o = Order(ticker, "rflat-", -Sign(held[ticker]))
       THEN [against EXCEPT ![ticker] = @ + 1] ELSE against
  /\ UNCHANGED <<sPc, reason, failures, tickers, todo, remaining, timeUp, starts, offers,
                 halted, exit>>

Deadline ==
  /\ timeUp' = TRUE
  /\ UNCHANGED <<sPc, reason, failures, cycle, starts, offers, halted, exit, account>>

(* systemd starts the script again after a deadline or a crash, never      *)
(* after the exit codes of a floor or permanent stop.                      *)
Restart ==
  /\ sPc = "exited" /\ reason \notin Final /\ starts < MaxStarts
  /\ sPc' = "start" /\ reason' = "deadline" /\ failures' = 0 /\ timeUp' = FALSE
  /\ starts' = starts + 1 /\ todo' = {} /\ tickers' = {}
  /\ UNCHANGED <<remaining, against, offers, halted, exit, account>>

SessionStep ==
  Runner \/ (\E o \in Orders : ExitTrades(o)) \/ Deadline \/ Restart

-----------------------------------------------------------------------------
SessionTypeOK ==
  /\ sPc \in {"start", "top", "sleep", "child", "positions", "next", "rest", "cancel", "cross",
              "after", "exited"}
  /\ reason \in {"deadline", "crash", "floor", "permanent"}
  /\ failures \in 0..MaxFailures /\ starts \in 1..MaxStarts /\ offers \in 0..MaxOffers
  /\ todo \subseteq tickers /\ tickers \subseteq Markets

(* What is held in t, counted from the side flatten set out to close.      *)
Left(t) == Sign(held[t]) * position[t]

(* flatten (session_runner.py:186) turns a market the other way round by   *)
(* no more than what was at rest against it from an earlier cycle, what    *)
(* its exit traded between the reading of what remains and the cancel, and *)
(* what a cancel that failed left at rest.                                 *)
FlattenReversesLittle ==
  \A t \in Markets : Left(t) >= -against[t]

(* "Cancel the unfilled resting exit before crossing the stub, or we would *)
(* hold two opposing orders" (session_runner.py:295): no market is turned  *)
(* the other way round by its exits, unless a call of flatten failed there *)
(* or something was at rest before it.  The code reads what remains before *)
(* that cancel, and crosses it after.                                      *)
FlattenNeverReverses ==
  \A t \in Markets \ excused : Left(t) >= 0

(* Between two cycles no exit is left at rest beside a closed or crossed   *)
(* position, unless a call of flatten failed there or something was at     *)
(* rest before it (session_runner.py:295).                                 *)
FlattenLeavesNoExit ==
  sPc \in {"top", "sleep", "child"} => \A o \in Orders :
    o.kind = "rflat-" /\ resting[o] > 0 => o.ticker \in excused

(* After a floor or permanent stop nothing trades again without a person,  *)
(* whatever the balance does later and however often the supervisor looks. *)
SessionHaltIsFinal == halted => sPc = "exited"
=============================================================================
