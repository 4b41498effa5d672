------------------------------- MODULE Optimizer -------------------------------
(***************************************************************************)
(* sim/optimization.py: which combinations of a grid are tried, and which  *)
(* trial is the best.  sim/validation.py: the same grid fitted on some     *)
(* recordings and scored on the next one, as scripts/optimize_loop.py and  *)
(* scripts/analyze_session.py read it.                                     *)
(***************************************************************************)
EXTENDS Integers, SequencesExt

CONSTANTS
  Accounts,      \* the settings a search may begin with: [count, limit, threshold, balance,
                 \* execution], balance being the starting_balance_cents in a sequence, or an
                 \* empty one, execution whether the settings are searched as well
  LotSize,       \* COUNT_SCALE
  Space,         \* search_space: the values of each parameter, in their order
  MaxTrials,     \* max_trials
  Outcomes,      \* bound: summaries a trial may have
  MinTrain,      \* min_train_recordings
  Library,       \* the recordings, in the order they are given
  Gains          \* bound: objective values of a replay

ASSUME OptimizerAssumption ==
  /\ Outcomes \subseteq [value : Int, position : Int, fills : Nat]
  /\ \A a \in Accounts : a.count \in Nat /\ a.limit \in Nat /\ a.threshold \in Nat /\ a.balance \in Seq(Nat)
  /\ LotSize \in Nat /\ Space \in Seq(Seq(Int)) /\ MaxTrials \in Nat \ {0}
  /\ MinTrain \in Nat \ {0} /\ Library \in Seq(Range(Library)) /\ Gains \subseteq Int

VARIABLES
  trials,        \* trials so far, each with its combination and its summary
  chosen,        \* what _limited_combinations left of the grid
  account,       \* settings of the search
  fitting,       \* the walk-forward: where it is
  scoreboard     \* what a parameter set makes of a recording, once replayed

search == <<trials, chosen, account>>
validation == <<fitting, scoreboard>>

-----------------------------------------------------------------------------
(* The grid.                                                               *)

(* The items of s at the indexes of S, in order.                           *)
Nth(S, k) == CHOOSE i \in S : Cardinality({j \in S : j <= i}) = k
ItemsAt(s, S) == [k \in 1..Cardinality(S) |-> s[Nth(S, k)]]

(* dict.fromkeys: the values in their order, each once.                    *)
Unique(values) ==
  ItemsAt(values, {i \in DOMAIN values : \A j \in 1..(i - 1) : values[j] # values[i]})

(* _parameter_combinations: the product, in the order of product.          *)
Product(space) ==
  FoldLeft(LAMBDA acc, values :
             FlattenSeq([i \in DOMAIN acc |->
                          [j \in DOMAIN values |-> Append(acc[i], values[j])]]),
           <<<<>>>>, space)

(* _bounded_count_candidates: parts of the balance, in ten-thousandths.    *)
PartsOf(balance, bps) ==
  Unique([i \in DOMAIN bps |-> Max({1, Min({balance, (balance * bps[i]) \div 10000})})])

(* _default_order_size_candidates, _default_max_position_candidates.       *)
OrderSizes(a) ==
  IF a.balance = <<>> THEN Unique(<<Max({1, a.count \div 2}), a.count, a.count * 2>>)
  ELSE PartsOf(a.balance[1], <<50, 100, 200>>)
MaxPositions(a) ==
  IF a.balance = <<>> THEN Unique(<<Max({LotSize, a.limit \div 2}), a.limit, a.limit * 2>>)
  ELSE PartsOf(a.balance[1], <<500, 1000, 2000>>)

(* default_execution_search_space, or the settings as they are; the other  *)
(* thresholds of the policy have candidates as this one has.               *)
ExecutionSpace(a) ==
  IF a.execution THEN <<OrderSizes(a), MaxPositions(a), Unique(<<a.threshold, 0, 100>>)>>
  ELSE <<<<a.count>>, <<a.limit>>, <<a.threshold>>>>

(* _valid_execution_settings.                                              *)
Valid(a, s) ==
  /\ s[1] > 0 /\ s[2] >= 0 /\ s[1] <= s[2]
  /\ a.balance # <<>> => s[2] <= a.balance[1]

(* strategy_parameter_grid.                                                *)
ParameterGrid == Product([i \in DOMAIN Space |-> Unique(Space[i])])

(* _combined_combinations: the execution settings that are valid, each     *)
(* with every combination of the adaptive grid.                            *)
CombinationsFor(a) ==
  LET tried == Product(ExecutionSpace(a))
      settings == ItemsAt(tried, {i \in DOMAIN tried : Valid(a, tried[i])})
  IN  FlattenSeq([i \in DOMAIN settings |->
        [j \in DOMAIN ParameterGrid |-> [settings |-> settings[i], params |-> ParameterGrid[j]]]])
Combinations == [a \in Accounts |-> CombinationsFor(a)]

(* round: to the nearest, from the middle to the even one.                 *)
Round(a, b) ==
  LET q == a \div b r == a % b
  IN  IF 2 * r < b \/ (2 * r = b /\ q % 2 = 0) THEN q ELSE q + 1

(* Faulty: every step-th combination from the first, the last ones never.  *)
TruncatedIndexes(n) == {(i * n) \div MaxTrials : i \in 0..(MaxTrials - 1)}

Indexes(n) == {Round(i * (n - 1), MaxTrials - 1) : i \in 0..(MaxTrials - 1)}

(* _limited_combinations: evenly spread indexes, in order.                 *)
Limited(all) ==
  IF Len(all) <= MaxTrials THEN all
  ELSE IF MaxTrials = 1 THEN <<all[1]>>
  ELSE ItemsAt(all, {i + 1 : i \in Indexes(Len(all))})

-----------------------------------------------------------------------------
(* The search.                                                             *)

(* _trial_sort_key, compared: value, then position, its distance from      *)
(* flat, then fewer fills.                                                 *)
Above(a, b) ==
  \/ a.value > b.value
  \/ a.value = b.value /\ a.position < b.position
  \/ a.value = b.value /\ a.position = b.position /\ a.fills < b.fills

(* max keeps the first of equals.                                          *)
Best ==
  LET k == CHOOSE i \in DOMAIN trials :
             /\ \A j \in DOMAIN trials : ~Above(trials[j].summary, trials[i].summary)
             /\ \A j \in 1..(i - 1) : Above(trials[i].summary, trials[j].summary)
  IN  trials[k].summary

TrialsInit == trials = <<>> /\ chosen = <<>> /\ account = CHOOSE a \in Accounts : TRUE

(* A backtest of the one setting.                                          *)
NoSearch == trials' = <<>> /\ chosen' = <<>> /\ account' = CHOOSE a \in Accounts : TRUE

(* A grid without a valid combination raises: no trial is run.             *)
BeginSearch(execution) ==
  /\ trials' = <<>> /\ account' \in {a \in Accounts : a.execution = execution}
  /\ chosen' = Limited(Combinations[account'])

NextTrial ==
  /\ Len(trials) < Len(chosen)
  /\ \E s \in Outcomes :
       trials' = Append(trials, [of |-> chosen[Len(trials) + 1], summary |-> s])
  /\ UNCHANGED <<chosen, account>>

-----------------------------------------------------------------------------
(* The walk-forward.                                                       *)

Recordings == DOMAIN Library

ValidationInit ==
  /\ fitting = [split |-> MinTrain, next |-> 1, best |-> <<>>, folds |-> <<>>,
                rule |-> "worst", stop |-> FALSE, over |-> FALSE]
  /\ scoreboard = [k \in {} |-> 0]

(* ParameterScore, of what a scoreboard has.                               *)
Summed(s) == FoldLeft(+, 0, s)
Scores(board, p, train) == [i \in DOMAIN train |-> board[<<p, train[i]>>]]
Total(board, p, train) == Summed(Scores(board, p, train))
Worst(board, p, train) == Min(Range(Scores(board, p, train)))

(* _selection_key, compared.                                               *)
Prefers(board, rule, p, q, train) ==
  LET total == Total(board, p, train) - Total(board, q, train)
      worst == Worst(board, p, train) - Worst(board, q, train)
  IN  IF rule = "total" THEN total > 0 \/ (total = 0 /\ worst > 0)
      ELSE worst > 0 \/ (worst = 0 /\ total > 0)

(* score_params: a replay of a parameter set on a recording makes what it  *)
(* made before.                                                            *)
Replays(p, which) ==
  \E gains \in [{r \in which : <<p, r>> \notin DOMAIN scoreboard} -> Gains] :
    scoreboard' = [k \in DOMAIN scoreboard \cup {<<p, r>> : r \in DOMAIN gains} |->
                    IF k \in DOMAIN scoreboard THEN scoreboard[k] ELSE gains[k[2]]]

Train == [r \in 1..fitting.split |-> r]

ChooseRule ==
  /\ fitting.split = MinTrain /\ fitting.next = 1
  /\ fitting' = [fitting EXCEPT !.rule = "total"] /\ UNCHANGED scoreboard

(* A candidate is scored on the recordings before the split.               *)
Fit ==
  /\ ~fitting.over /\ ~fitting.stop
  /\ fitting.split < Len(Library) /\ fitting.next <= Len(ParameterGrid)
  /\ Replays(fitting.next, {Train[i] : i \in DOMAIN Train})
  /\ fitting' = [fitting EXCEPT
       !.next = @ + 1,
       !.best = IF @ = <<>> \/ Prefers(scoreboard', fitting.rule, fitting.next, @[1], Train)
                THEN <<fitting.next>> ELSE @]

(* The best of those that were scored is tested on the next recording; a   *)
(* stop may have left some out, or all, and then the fold is left out.     *)
Test ==
  /\ ~fitting.over /\ fitting.split < Len(Library)
  /\ fitting.next > Len(ParameterGrid) \/ fitting.stop
  /\ fitting.best # <<>>
  /\ Replays(fitting.best[1], {fitting.split + 1})
  /\ fitting' = [fitting EXCEPT
       !.folds = Append(@, [train |-> Train, test |-> fitting.split + 1,
                            chosen |-> fitting.best[1], tried |-> fitting.next - 1,
                            inSample |-> Total(scoreboard', fitting.best[1], Train),
                            outOfSample |-> scoreboard'[<<fitting.best[1], fitting.split + 1>>]]),
       !.split = @ + 1, !.next = 1, !.best = <<>>]

WalkEnds ==
  /\ ~fitting.over
  /\ fitting.split >= Len(Library) \/ (fitting.stop /\ fitting.next = 1)
  /\ fitting' = [fitting EXCEPT !.over = TRUE] /\ UNCHANGED scoreboard

StopWalk ==
  /\ ~fitting.over /\ ~fitting.stop
  /\ fitting' = [fitting EXCEPT !.stop = TRUE] /\ UNCHANGED scoreboard

ValidationStep == ChooseRule \/ Fit \/ Test \/ WalkEnds \/ StopWalk

(* WalkForwardResult, and what the scripts say of it: nothing to retain,   *)
(* noise, or worth going on.                                               *)
InSample == Summed([i \in DOMAIN fitting.folds |-> fitting.folds[i].inSample])
OutOfSample == Summed([i \in DOMAIN fitting.folds |-> fitting.folds[i].outOfSample])
Verdict ==
  IF InSample <= 0 THEN "no edge"
  ELSE IF 10 * OutOfSample < 3 * InSample THEN "noise" ELSE "worth continuing"
=============================================================================
