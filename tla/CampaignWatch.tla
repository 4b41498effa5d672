----------------------------- MODULE CampaignWatch -----------------------------
(***************************************************************************)
(* live/campaign.py and scripts/monitor_campaign.py: every check reads the *)
(* account's ledger, gives each premise of the campaign a verdict, and     *)
(* halts for good on one that tripped or cannot be told.                   *)
(***************************************************************************)
EXTENDS Integers

CONSTANTS
  MinMakerFills, MinScored,   \* min_maker_fills, min_markout_fills
  MaxMeanFee,                 \* max_mean_maker_fee_micros, in units of the samples
  GoodMarkout,                \* the markouts outside -GoodMarkout..GoodMarkout trip
                              \* or are favourable
  Grace,                      \* pending_grace_seconds
  MaxAge,                     \* bound: how long the watch goes on
  Samples                     \* what a check may read: [makers, blind, fee, takers,
                              \* takerFee, scored, markout, balance]

VARIABLES
  mPc,         \* "check", "sleep" or "exited"
  args,        \* --watch, --quotes-placed, whether --min-balance and --max-loss
               \* are given
  age,         \* time since the script started
  elapsed,     \* args.elapsed
  sample,      \* what the last check read
  code,        \* the exit code of the last check
  latched      \* monitor.halted

watching == <<mPc, args, age, elapsed, sample, code, latched>>

ASSUME CampaignAssumption ==
  /\ Grace \in Nat \ {0} /\ MaxAge \in Nat /\ MinScored \in Nat \ {0}
  /\ MinMakerFills \in Nat /\ MaxMeanFee \in Int /\ GoodMarkout \in Nat
  /\ Samples \subseteq [makers : Nat, blind : Nat, fee : Int, takers : Nat, takerFee : Int,
                        scored : Nat, markout : Int, balance : {0, 1}]

NoSample == [makers |-> 0, blind |-> 0, fee |-> 0, takers |-> 0, takerFee |-> 0,
             scored |-> 0, markout |-> 0, balance |-> 0]

MonitorInit ==
  /\ mPc = "check" /\ age = 0
  /\ args \in [watch : BOOLEAN, quotes : {0, 1, 40}, floor : BOOLEAN, cap : BOOLEAN]
  /\ elapsed \in {0, Grace} /\ sample = NoSample /\ code = "none" /\ latched = FALSE

PendingOrUnknown == IF elapsed < Grace THEN "pending" ELSE "unknown"

(* makers with a readable fee of fee in total, and blind ones without.     *)
MakerFee(s) ==
  CASE s.blind > 0 -> "unknown"
    [] s.blind = 0 /\ s.makers < MinMakerFills -> PendingOrUnknown
    [] s.blind = 0 /\ s.makers >= MinMakerFills ->
         IF s.fee < 0 THEN "favourable"
         ELSE IF s.fee > MaxMeanFee * s.makers THEN "tripped" ELSE "ok"

(* A free maker is evidence only beside a taker that is charged.           *)
FeeReaderControl(s) ==
  CASE s.takers = 0 -> PendingOrUnknown
    [] s.takers > 0 -> IF s.takerFee <= 0 THEN "unknown" ELSE "ok"

Markout(s) ==
  CASE s.scored < MinScored -> PendingOrUnknown
    [] s.scored >= MinScored ->
         IF s.markout < -GoodMarkout THEN "tripped"
         ELSE IF s.markout > GoodMarkout THEN "favourable" ELSE "ok"

FillRate(s) ==
  CASE args.quotes <= 0 -> PendingOrUnknown
    [] args.quotes > 0 ->
         IF 20 * (s.makers + s.blind + s.takers) < args.quotes THEN "tripped" ELSE "ok"

(* balance is 0 below the floor.                                           *)
BalanceFloor(s) == IF args.floor /\ s.balance = 0 THEN "tripped" ELSE "ok"

(* The script reports no P&L.                                              *)
SessionLoss == IF args.cap THEN "unknown" ELSE "ok"

Readings(s) ==
  {MakerFee(s), FeeReaderControl(s), Markout(s), FillRate(s), BalanceFloor(s), SessionLoss}

ShouldHalt(s) == Readings(s) \cap {"tripped", "unknown"} # {}

Unreachable == code' = "unreachable" /\ UNCHANGED <<sample, latched>>

Check ==
  /\ mPc = "check" /\ UNCHANGED <<args, age, elapsed>>
  /\ \/ Unreachable
     \/ /\ sample' \in Samples
        /\ code' = IF ShouldHalt(sample') THEN "halt" ELSE "ok"
        /\ latched' = (latched \/ code' = "halt")
  /\ mPc' = IF args.watch /\ code' # "halt" THEN "sleep" ELSE "exited"

Elapsed == age'

Sleep ==
  /\ mPc = "sleep" /\ age < MaxAge /\ mPc' = "check"
  /\ age' = age + 1 /\ elapsed' = Elapsed
  /\ UNCHANGED <<args, sample, code, latched>>

MonitorStep == Check \/ Sleep

-----------------------------------------------------------------------------
(* Once the grace is over the watch calls the premises sound only when it  *)
(* has measured every one of them, a charged taker fill that shows the fee *)
(* reader works included (live/campaign.py:373).                           *)
MeasuredOrHalted ==
  mPc # "check" /\ code = "ok" /\ age >= Grace =>
    /\ sample.blind = 0 /\ sample.makers >= MinMakerFills
    /\ sample.takers > 0 /\ sample.takerFee > 0
    /\ sample.scored >= MinScored /\ args.quotes > 0

(* A halt ends the watch: no later reading takes it back.                  *)
MonitorHaltIsFinal == latched => mPc = "exited" /\ code = "halt"
=============================================================================
