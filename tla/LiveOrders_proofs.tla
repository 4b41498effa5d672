-------------------------- MODULE LiveOrders_proofs --------------------------
(***************************************************************************)
(* TLAPS proofs that the invariant of LiveOrders is inductive and what      *)
(* follows from it.  One lemma per action; the actions that touch neither  *)
(* the exchange nor the manager share the lemma QuietStep, and those that  *)
(* end a stage the lemmas ShutdownStep, IdleStep and CloseStep.            *)
(***************************************************************************)
EXTENDS LiveOrders, FiniteSetTheorems, TLAPS

LEMMA JobFields ==
  ASSUME NEW c \in Contexts, NEW S \in SUBSET Ids
  PROVE  /\ Job(c, S) \in JobType
         /\ Job(c, S).ctx = c /\ Job(c, S).todo = S /\ Job(c, S).cur = 0
         /\ Job(c, S).tickers = {} /\ Job(c, S).wanted = {} /\ Job(c, S).replace = {}
  BY DEF Job, JobType

(* The trades of one order that were seen are at most its fills.           *)
LEMMA TradesBound ==
  ASSUME NEW id, NEW n \in Nat, NEW S \in SUBSET TradesUpTo(id, n)
  PROVE  IsFiniteSet(S) /\ Cardinality(S) \in Nat /\ Cardinality(S) <= n
<1> DEFINE f == [t \in S |-> t[2]]
<1>1. f \in Injection(S, 1..n) BY DEF Injection, IsInjective, TradesUpTo
<1>2. IsFiniteSet(1..n) /\ Cardinality(1..n) = n BY FS_Interval
<1>3. IsFiniteSet(S) /\ Cardinality(S) <= Cardinality(1..n)
  BY <1>1, <1>2, FS_Injection
<1> QED BY <1>2, <1>3, FS_CardinalityType

LEMMA SeenBound ==
  ASSUME ExchTypes, FeedOK, ExchangeOK, NEW id \in Ids, Accepted(id)
  PROVE  /\ FilledOf(id) \in Nat
         /\ IsFiniteSet(SeenOf(id)) /\ Cardinality(SeenOf(id)) \in Nat
         /\ Cardinality(SeenOf(id)) <= FilledOf(id)
<1>1. FilledOf(id) \in Nat
  BY IntentAssumption DEF ExchTypes, ExchangeOK, FilledOf
<1>2. SeenOf(id) \in SUBSET TradesUpTo(id, FilledOf(id))
  <2> SUFFICES ASSUME NEW t \in SeenOf(id) PROVE t \in TradesUpTo(id, FilledOf(id))
    OBVIOUS
  <2>1. t \in wire /\ t \in Ids \X Nat /\ t[2] >= 1 /\ t[1] = id
    BY DEF FeedOK, SeenOf, ExchTypes, Trades
  <2>2. t = <<id, t[2]>> /\ t[2] \in 1..FilledOf(id)
    BY <1>1, <2>1 DEF FeedOK, Happened
  <2> QED BY <2>2 DEF TradesUpTo
<1> QED BY <1>1, <1>2, TradesBound

(* A step of the task that leaves the exchange and the manager alone and   *)
(* neither starts nor ends a create call keeps what is said of them.       *)
LEMMA QuietStep ==
  ASSUME IInv, UNCHANGED <<exchVars, mgrVars, now, session>>, TaskTypes',
         pc # "awaitCreate", pc' # "awaitCreate"
  PROVE  /\ TypeOK' /\ ExchangeOK' /\ FeedOK' /\ TrackedOK' /\ ReplyOK'
         /\ OneRestingOrderPerQuote'
<1> USE DEF IInv, exchVars, mgrVars, journal
<1>1. TypeOK' BY DEF TypeOK, ExchTypes, MgrTypes, Tracked
<1>2. ExchangeOK' BY DEF ExchangeOK, Accepted, Resting
<1>3. FeedOK' BY DEF FeedOK, Happened, Accepted, FilledOf
<1>4. TrackedOK' BY DEF TrackedOK, Tracked, Accepted, SeenOf, FilledOf
<1>5. ReplyOK' BY DEF ReplyOK
<1>6. OneRestingOrderPerQuote' BY DEF OneRestingOrderPerQuote, Resting, Known
<1> QED BY <1>1, <1>2, <1>3, <1>4, <1>5, <1>6

(* Entering cancel_all: every tracked order is to be canceled.             *)
LEMMA ShutdownStep ==
  ASSUME IInv, NEW e \in BOOLEAN, Shutdown(e),
         UNCHANGED <<exch, intent, mgrVars>>,
         lost \subseteq lost', \A id \in lost' : id < nextId,
         rpc' \in {"none", "sent", "ok", "missing"},
         DOMAIN reply' \subseteq Ids, reply' \in [DOMAIN reply' -> Int]
  PROVE  TaskTypes' /\ BatchOK' /\ CancelOK' /\ CoverOK' /\ StageOK'
<1> USE DEF IInv, Shutdown
<1>0. Tracked \in SUBSET Ids BY DEF TypeOK, MgrTypes
<1>1. /\ job' \in JobType /\ job'.ctx = "all" /\ job'.todo = Tracked /\ job'.cur = 0
      /\ job'.wanted = {} /\ job'.replace = {}
  BY <1>0, JobFields DEF Contexts
<1>2. TaskTypes' BY <1>1 DEF TypeOK, TaskTypes, Requested
<1>3. BatchOK'
  BY <1>1 DEF BatchOK, Creating, Requested, Distinct, TypeOK, TaskTypes, mgrVars, Ids, ExchTypes, MgrTypes
<1>4. CancelOK' BY <1>1 DEF CancelOK, TrackedOK, Accepted, Terminal, mgrVars, journal
<1>5. CoverOK' BY <1>1 DEF CoverOK, InLoop, InSweep, Sweeping, Creating
<1>6. StageOK' BY <1>1 DEF StageOK, Sweeping, Creating
<1> QED BY <1>2, <1>3, <1>4, <1>5, <1>6

(* Back to the feed: every known resting order must be tracked by now.     *)
LEMMA IdleStep ==
  ASSUME IInv, ToIdle, UNCHANGED <<exchVars, canceled, cancelledLog>>,
         rpc' \in {"none", "sent", "ok", "missing"},
         DOMAIN reply' \subseteq Ids, reply' \in [DOMAIN reply' -> Int],
         nextId' \in Nat, nextId' >= nextId,
         \A id \in Ids : Resting(id) /\ Known(id) => id \in Tracked'
  PROVE  TaskTypes' /\ BatchOK' /\ CancelOK' /\ CoverOK' /\ StageOK'
<1> USE DEF IInv, ToIdle, IdleJob, exchVars
<1>1. /\ job' \in JobType /\ job'.ctx = "idle" /\ job'.todo = {} /\ job'.cur = 0
      /\ job'.wanted = {} /\ job'.replace = {}
  BY JobFields DEF Contexts
<1>2. TaskTypes' BY <1>1 DEF TypeOK, TaskTypes, Requested
<1>3. BatchOK'
  BY <1>1 DEF BatchOK, Creating, Requested, Distinct, TypeOK, ExchTypes, MgrTypes, Ids
<1>4. CancelOK' BY <1>1 DEF CancelOK, Accepted, Terminal
<1>5. CoverOK' BY <1>1 DEF CoverOK, InLoop, InSweep, Sweeping, Creating, Resting, Known
<1>6. StageOK' BY <1>1 DEF StageOK, Sweeping, Creating
<1> QED BY <1>2, <1>3, <1>4, <1>5, <1>6

(* The end of a run: without an error nothing known is left resting.       *)
LEMMA CloseStep ==
  ASSUME IInv, NEW e \in BOOLEAN, Close(e), UNCHANGED <<exchVars, mgrVars>>,
         ~Creating,
         rpc' \in {"none", "sent", "ok", "missing"},
         DOMAIN reply' \subseteq Ids, reply' \in [DOMAIN reply' -> Int],
         e \/ \A id \in Ids : Resting(id) => ~Known(id)
  PROVE  TaskTypes' /\ BatchOK' /\ CancelOK' /\ CoverOK' /\ StageOK'
<1> USE DEF IInv, Close, IdleJob, exchVars, mgrVars, journal
<1>1. /\ job' \in JobType /\ job'.ctx = "idle" /\ job'.todo = {} /\ job'.cur = 0
      /\ job'.wanted = {} /\ job'.replace = {}
  BY JobFields DEF Contexts
<1>2. TaskTypes' BY <1>1 DEF TypeOK, TaskTypes, Requested
<1>3. BatchOK' BY <1>1 DEF BatchOK, Creating, Requested, Distinct
<1>4. CancelOK' BY <1>1 DEF CancelOK, Accepted, Terminal
<1>5. CoverOK' BY <1>1 DEF CoverOK, InLoop, InSweep, Sweeping, Creating, Resting, Known, TypeOK, TaskTypes
<1>6. StageOK' BY <1>1 DEF StageOK, Sweeping, Creating
<1> QED BY <1>2, <1>3, <1>4, <1>5, <1>6

-----------------------------------------------------------------------------
(* The sweeps.                                                             *)
LEMMA ListRestingStep == ASSUME IInv, ListResting PROVE IInv'
<1> USE DEF IInv, exchVars, mgrVars, journal
<1>0. pc = "list" /\ job \in JobType /\ Sweeping /\ job.todo = {}
  BY DEF ListResting, TypeOK, TaskTypes, StageOK
<1>m. PICK m \in job.tickers :
        /\ pc' = "cancel"
        /\ job' = [job EXCEPT !.tickers = @ \ {m},
                             !.todo = {id \in Ids : Resting(id) /\ intent[id].ticker = m}]
  BY DEF ListResting
<1> DEFINE found == {id \in Ids : Resting(id) /\ intent[id].ticker = m}
<1>1. /\ job' \in JobType /\ job'.ctx = job.ctx /\ job'.todo = found
      /\ job'.tickers = job.tickers \ {m} /\ job'.wanted = job.wanted
      /\ job'.mkt = job.mkt /\ job'.replace = job.replace
  <2> found \in SUBSET Ids OBVIOUS
  <2> HIDE DEF found, IInv
  <2> QED BY <1>0, <1>m DEF JobType, found
<1>2. TaskTypes' BY <1>1 DEF ListResting, TypeOK, TaskTypes, Requested
<1>3. /\ TypeOK' /\ ExchangeOK' /\ FeedOK' /\ TrackedOK' /\ ReplyOK'
      /\ OneRestingOrderPerQuote'
  BY <1>2, QuietStep DEF ListResting
<1>4. BatchOK' BY <1>1, <1>0 DEF ListResting, BatchOK, Creating, Distinct
<1>5. CancelOK' BY <1>1 DEF ListResting, CancelOK, Accepted, Terminal, Resting
<1>6. CoverOK'
  <2> SUFFICES ASSUME NEW id \in Ids, Resting(id), Known(id)
               PROVE intent[id].ticker \in job'.tickers \/ id \in job'.todo
    BY <1>0, <1>1, <1>m
       DEF CoverOK, InLoop, InSweep, Sweeping, Creating, ListResting, Resting, Known
  <2>1. intent[id].ticker \in job.tickers BY <1>0 DEF CoverOK, InSweep
  <2> QED BY <2>1, <1>1
<1>7. StageOK' BY <1>0, <1>1, <1>m DEF StageOK, Sweeping, Creating
<1> QED BY <1>3, <1>4, <1>5, <1>6, <1>7

LEMMA ListFailsStep == ASSUME IInv, ListFails PROVE IInv'
<1> USE DEF IInv, exchVars, mgrVars, journal
<1>0. pc = "list" /\ ~Creating BY DEF ListFails, Creating
<1>1. /\ DOMAIN reply' \subseteq Ids /\ reply' \in [DOMAIN reply' -> Int]
      /\ rpc' \in {"none", "sent", "ok", "missing"}
  BY DEF ListFails, TypeOK, TaskTypes
<1>2. TaskTypes' /\ BatchOK' /\ CancelOK' /\ CoverOK' /\ StageOK'
  <2>1. CASE job.ctx = "startup"
    BY <1>1, <2>1, ShutdownStep DEF ListFails, BatchOK
  <2>2. CASE job.ctx # "startup"
    BY <1>0, <1>1, <2>2, CloseStep DEF ListFails
  <2> QED BY <2>1, <2>2
<1>3. pc' # "awaitCreate" BY DEF ListFails, Shutdown, Close
<1> QED BY <1>0, <1>2, <1>3, QuietStep DEF ListFails

LEMMA ListingDoneStep == ASSUME IInv, ListingDone PROVE IInv'
<1> USE DEF IInv, exchVars, mgrVars, journal
<1>0. pc = "list" /\ ~Creating /\ Sweeping /\ job.todo = {} /\ job.tickers = {}
  BY DEF ListingDone, Creating, StageOK
<1>1. /\ DOMAIN reply' \subseteq Ids /\ reply' \in [DOMAIN reply' -> Int]
      /\ rpc' \in {"none", "sent", "ok", "missing"}
  BY DEF ListingDone, TypeOK, TaskTypes
<1>2. \A id \in Ids : Resting(id) => ~Known(id) BY <1>0 DEF CoverOK, InSweep
<1>3. TaskTypes' /\ BatchOK' /\ CancelOK' /\ CoverOK' /\ StageOK'
  <2>1. CASE job.ctx = "startup"
    BY <1>1, <1>2, <2>1, IdleStep DEF ListingDone, TypeOK, MgrTypes
  <2>2. CASE job.ctx # "startup"
    BY <1>0, <1>1, <1>2, <2>2, CloseStep DEF ListingDone
  <2> QED BY <2>1, <2>2
<1>4. pc' # "awaitCreate" BY DEF ListingDone, ToIdle, Close
<1> QED BY <1>0, <1>3, <1>4, QuietStep DEF ListingDone

-----------------------------------------------------------------------------
(* Cancels.                                                                *)
LEMMA SendCancelStep == ASSUME IInv, SendCancel PROVE IInv'
<1> USE DEF IInv, exchVars, mgrVars, journal
<1>0. pc = "cancel" /\ job \in JobType BY DEF SendCancel, TypeOK, TaskTypes
<1>m. PICK id \in job.todo :
        IF Sweeping /\ id \in canceled
        THEN /\ job' = [job EXCEPT !.todo = @ \ {id}]
             /\ UNCHANGED <<pc, rpc>>
        ELSE /\ job' = [job EXCEPT !.todo = @ \ {id}, !.cur = id]
             /\ pc' = "awaitCancel" /\ rpc' = "sent"
  BY DEF SendCancel
<1>1. /\ job' \in JobType /\ job'.ctx = job.ctx /\ job'.todo = job.todo \ {id}
      /\ job'.tickers = job.tickers /\ job'.wanted = job.wanted
      /\ job'.mkt = job.mkt /\ job'.replace = job.replace
      /\ job'.cur = IF pc' = "awaitCancel" THEN id ELSE job.cur
  BY <1>0, <1>m DEF JobType
<1>2. id \in Ids /\ Accepted(id) /\ (pc' = "cancel" => Sweeping /\ ~Resting(id))
  <2>1. id \in Ids BY <1>0 DEF JobType
  <2>2. Accepted(id) BY DEF CancelOK
  <2>3. pc' = "cancel" => Sweeping /\ id \in canceled BY <1>0, <1>m
  <2> QED BY <2>1, <2>2, <2>3 DEF CancelOK, Terminal, Resting
<1>3. TaskTypes' BY <1>0, <1>1, <1>m DEF SendCancel, TypeOK, TaskTypes, Requested
<1>4. /\ TypeOK' /\ ExchangeOK' /\ FeedOK' /\ TrackedOK' /\ ReplyOK'
      /\ OneRestingOrderPerQuote'
  BY <1>0, <1>m, <1>3, QuietStep DEF SendCancel
<1>5. BatchOK' BY <1>1, <1>m, <1>0 DEF SendCancel, BatchOK, Creating, Distinct
<1>6. CancelOK' BY <1>0, <1>1, <1>2, <1>m DEF SendCancel, CancelOK, Accepted, Terminal
<1>7. CoverOK'
  <2> SUFFICES ASSUME NEW x \in Ids, Resting(x), Known(x)
               PROVE /\ InLoop' => x \in Tracked'
                     /\ InSweep' => \/ intent[x].ticker \in job'.tickers
                                    \/ x \in job'.todo \/ (pc' = "awaitCancel" /\ x = job'.cur)
                     /\ pc' # "closed"
    BY <1>1, <1>m DEF CoverOK, SendCancel, Resting, Known, InLoop, InSweep, Sweeping
  <2>1. pc' \in {"cancel", "awaitCancel"} BY <1>0, <1>m
  <2>2. InLoop' = InLoop /\ InSweep' = InSweep
    BY <1>0, <1>1, <2>1 DEF InLoop, InSweep, Sweeping, Creating
  <2>3. /\ InLoop => x \in Tracked
        /\ InSweep => intent[x].ticker \in job.tickers \/ x \in job.todo
    BY <1>0 DEF CoverOK
  <2> QED BY <1>0, <1>1, <1>2, <2>1, <2>2, <2>3 DEF SendCancel, Tracked
<1>8. StageOK' BY <1>0, <1>1, <1>m DEF StageOK, Sweeping, Creating
<1> QED BY <1>4, <1>5, <1>6, <1>7, <1>8

LEMMA PassDoneStep == ASSUME IInv, PassDone PROVE IInv'
<1> USE DEF IInv, exchVars, mgrVars, journal
<1>0. /\ pc = "cancel" /\ job.todo = {} /\ job \in JobType /\ ~Creating
      /\ job.ctx \in {"startup", "missing", "replace", "all", "sweep"}
  BY DEF PassDone, Creating, TypeOK, TaskTypes, StageOK
<1>1. /\ DOMAIN reply' \subseteq Ids /\ reply' \in [DOMAIN reply' -> Int]
      /\ rpc' \in {"none", "sent", "ok", "missing"}
  BY DEF PassDone, TypeOK, TaskTypes
<1>2. TaskTypes' /\ BatchOK' /\ CancelOK' /\ CoverOK' /\ StageOK' /\ pc' # "awaitCreate"
  <2>1. CASE Sweeping
    <3>1. pc' = "list" /\ UNCHANGED <<job, batch, raised, shutErr>>
      BY <2>1 DEF PassDone, Sweeping
    <3>2. TaskTypes' BY <1>1, <3>1 DEF TypeOK, TaskTypes, Requested
    <3>3. BatchOK' BY <1>0, <3>1 DEF PassDone, BatchOK, Creating, Distinct
    <3>4. CancelOK' BY <3>1 DEF PassDone, CancelOK, Accepted, Terminal
    <3>5. CoverOK' BY <1>0, <2>1, <3>1
            DEF PassDone, CoverOK, InLoop, InSweep, Sweeping, Creating, Resting, Known
    <3>6. StageOK' BY <1>0, <2>1, <3>1 DEF StageOK, Sweeping, Creating
    <3> QED BY <3>1, <3>2, <3>3, <3>4, <3>5, <3>6
  <2>2. CASE job.ctx = "all"
    <3>1. /\ pc' = "list" /\ UNCHANGED <<batch, raised, shutErr>>
          /\ job' = [Job("sweep", {}) EXCEPT !.tickers = Tickers]
      BY <2>2 DEF PassDone, Sweeping
    <3>2. /\ job' \in JobType /\ job'.ctx = "sweep" /\ job'.todo = {} /\ job'.replace = {}
          /\ job'.wanted = {} /\ job'.tickers = Tickers
      BY <3>1 DEF Job, JobType, Contexts
    <3>3. TaskTypes' BY <1>1, <3>1, <3>2 DEF TypeOK, TaskTypes, Requested
    <3>4. BatchOK' BY <1>0, <3>1, <3>2 DEF PassDone, BatchOK, Creating, Distinct
    <3>5. CancelOK' BY <3>1, <3>2 DEF PassDone, CancelOK, Accepted, Terminal
    <3>6. \A id \in Ids : Resting(id) => intent[id].ticker \in Tickers
      BY IntentAssumption DEF ExchangeOK, Resting, Accepted
    <3>7. CoverOK' BY <3>1, <3>2, <3>6
            DEF PassDone, CoverOK, InLoop, InSweep, Sweeping, Creating, Resting, Known
    <3>8. StageOK' BY <3>1, <3>2 DEF StageOK, Sweeping, Creating
    <3> QED BY <3>1, <3>3, <3>4, <3>5, <3>7, <3>8
  <2>3. CASE job.ctx = "missing" /\ ~job.canCreate
    <3>1. ToIdle BY <2>3 DEF PassDone, Sweeping
    <3>2. \A id \in Ids : Resting(id) /\ Known(id) => id \in Tracked
      BY <1>0, <2>3 DEF CoverOK, InLoop
    <3>3. pc' # "awaitCreate" BY <3>1 DEF ToIdle
    <3> QED BY <1>1, <3>1, <3>2, <3>3, IdleStep DEF PassDone, TypeOK, MgrTypes, Tracked
  <2>4. CASE job.ctx = "missing" /\ job.canCreate
    <3>1. /\ job' = [job EXCEPT !.ctx = "replace", !.todo = job.replace]
          /\ UNCHANGED <<pc, batch, raised, shutErr>>
      BY <2>4 DEF PassDone, Sweeping
    <3>2. /\ job' \in JobType /\ job'.ctx = "replace" /\ job'.todo = job.replace
          /\ job'.replace = job.replace /\ job'.wanted = job.wanted /\ job'.mkt = job.mkt
      BY <1>0, <3>1 DEF JobType, Contexts
    <3>3. TaskTypes' BY <1>1, <3>1, <3>2 DEF TypeOK, TaskTypes, Requested
    <3>4. BatchOK' BY <1>0, <3>1, <3>2 DEF PassDone, BatchOK, Creating, Distinct
    <3>5. CancelOK' BY <1>0, <3>1, <3>2 DEF PassDone, CancelOK, Accepted, Terminal
    <3>6. CoverOK' BY <1>0, <2>4, <3>1, <3>2
            DEF PassDone, CoverOK, InLoop, InSweep, Sweeping, Creating, Resting, Known, Tracked
    <3>7. StageOK' BY <1>0, <3>1, <3>2 DEF StageOK, Sweeping, Creating
    <3> QED BY <1>0, <3>1, <3>3, <3>4, <3>5, <3>6, <3>7
  <2>5. CASE job.ctx = "replace"
    <3>1. pc' = "plan" /\ UNCHANGED <<job, batch, raised, shutErr>>
      BY <2>5 DEF PassDone, Sweeping
    <3>2. TaskTypes' BY <1>1, <3>1 DEF TypeOK, TaskTypes, Requested
    <3>3. BatchOK' BY <1>0, <3>1 DEF PassDone, BatchOK, Creating, Distinct
    <3>4. CancelOK' BY <1>0, <3>1 DEF PassDone, CancelOK, Accepted, Terminal
    <3>5. CoverOK' BY <1>0, <2>5, <3>1
            DEF PassDone, CoverOK, InLoop, InSweep, Sweeping, Creating, Resting, Known, Tracked
    <3>6. StageOK' BY <2>5, <3>1 DEF StageOK, Sweeping, Creating
    <3> QED BY <3>1, <3>2, <3>3, <3>4, <3>5, <3>6
  <2> QED BY <1>0, <2>1, <2>2, <2>3, <2>4, <2>5 DEF Sweeping
<1> QED BY <1>0, <1>2, QuietStep DEF PassDone

LEMMA CancelReturnsStep == ASSUME IInv, CancelReturns PROVE IInv'
<1> USE DEF IInv, exchVars, journal
<1>0. /\ pc = "awaitCancel" /\ rpc = "ok" /\ job \in JobType
      /\ job.cur \in Ids /\ Terminal(job.cur) /\ ~Creating
  BY DEF CancelReturns, TypeOK, TaskTypes, CancelOK, Creating
<1>1. /\ pc' = "cancel" /\ job' \in JobType /\ job'.ctx = job.ctx /\ job'.todo = job.todo
      /\ job'.tickers = job.tickers /\ job'.wanted = job.wanted
      /\ job'.mkt = job.mkt /\ job'.replace = job.replace
  BY <1>0 DEF CancelReturns, JobType
<1>2. /\ Tracked' \subseteq Tracked /\ Tracked \ Tracked' \subseteq {job.cur}
      /\ orders' \in [Tracked' -> LiveOrderType]
      /\ \A id \in Tracked' : orders'[id] = orders[id]
  BY DEF CancelReturns, Untrack, Tracked, TypeOK, MgrTypes
<1>3. TypeOK'
  <2>1. ExchTypes' BY DEF CancelReturns, TypeOK, ExchTypes
  <2>2. MgrTypes' BY <1>0, <1>2 DEF CancelReturns, TypeOK, MgrTypes
  <2>3. TaskTypes' BY <1>1 DEF CancelReturns, CallDone, TypeOK, TaskTypes, Requested
  <2> QED BY <2>1, <2>2, <2>3 DEF CancelReturns, TypeOK
<1>4. ExchangeOK' BY <1>0, <1>1 DEF CancelReturns, ExchangeOK, Accepted, Resting
<1>5. FeedOK' BY <1>1 DEF CancelReturns, FeedOK, Happened, Accepted, FilledOf
<1>6. TrackedOK' BY <1>2 DEF CancelReturns, TrackedOK, Accepted, FilledOf, SeenOf
<1>7. BatchOK' BY <1>0, <1>1 DEF CancelReturns, BatchOK, Creating, Distinct
<1>8. ReplyOK' BY <1>1 DEF ReplyOK
<1>9. CancelOK' BY <1>0, <1>1 DEF CancelReturns, CancelOK, Accepted, Terminal
<1>10. CoverOK'
  <2> SUFFICES ASSUME NEW x \in Ids, Resting(x), Known(x)
               PROVE /\ InLoop' => x \in Tracked'
                     /\ InSweep' => intent[x].ticker \in job.tickers \/ x \in job.todo
    BY <1>1 DEF CoverOK, CancelReturns, Resting, Known
  <2>1. x # job.cur BY <1>0 DEF Resting, Terminal
  <2>2. InLoop' = InLoop /\ InSweep' = InSweep
    BY <1>0, <1>1 DEF InLoop, InSweep, Sweeping, Creating
  <2> QED BY <1>0, <1>2, <2>1, <2>2 DEF CoverOK
<1>11. StageOK' BY <1>0, <1>1 DEF StageOK, Sweeping, Creating
<1>12. OneRestingOrderPerQuote'
  BY DEF CancelReturns, OneRestingOrderPerQuote, Resting, Known
<1> QED BY <1>3, <1>4, <1>5, <1>6, <1>7, <1>8, <1>9, <1>10, <1>11, <1>12

LEMMA CancelRaisesStep == ASSUME IInv, CancelRaises PROVE IInv'
<1> USE DEF IInv, exchVars, mgrVars, journal
<1>0. /\ pc = "awaitCancel" /\ job \in JobType /\ ~Creating
      /\ job.ctx \in {"startup", "missing", "replace", "all", "sweep"}
  BY DEF CancelRaises, TypeOK, TaskTypes, Creating, StageOK
<1>1. /\ DOMAIN reply' \subseteq Ids /\ reply' \in [DOMAIN reply' -> Int]
      /\ rpc' \in {"none", "sent", "ok", "missing"}
  BY DEF CancelRaises, CallDone
<1>2. TaskTypes' /\ BatchOK' /\ CancelOK' /\ CoverOK' /\ StageOK' /\ pc' # "awaitCreate"
  <2>1. CASE job.ctx = "all"
    <3>1. /\ pc' = "cancel" /\ job' = [job EXCEPT !.cur = 0]
          /\ shutErr' = TRUE /\ UNCHANGED <<raised, batch>>
      BY <2>1 DEF CancelRaises
    <3>2. /\ job' \in JobType /\ job'.ctx = "all" /\ job'.todo = job.todo
          /\ job'.replace = job.replace /\ job'.wanted = job.wanted /\ job'.mkt = job.mkt
      BY <1>0, <2>1, <3>1 DEF JobType
    <3>3. TaskTypes' BY <1>1, <3>1, <3>2 DEF TypeOK, TaskTypes, Requested
    <3>4. BatchOK' BY <1>0, <3>1, <3>2 DEF CancelRaises, BatchOK, Creating, Distinct
    <3>5. CancelOK' BY <1>0, <3>1, <3>2 DEF CancelRaises, CancelOK, Accepted, Terminal
    <3>6. CoverOK' BY <3>1, <3>2 DEF CoverOK, InLoop, InSweep, Sweeping, Creating
    <3>7. StageOK' BY <3>1, <3>2 DEF StageOK, Sweeping, Creating
    <3> QED BY <3>1, <3>3, <3>4, <3>5, <3>6, <3>7
  <2>2. CASE job.ctx = "sweep"
    <3>1. Close(TRUE) BY <2>2 DEF CancelRaises
    <3>2. pc' # "awaitCreate" BY <3>1 DEF Close
    <3> QED BY <1>0, <1>1, <3>1, <3>2, CloseStep DEF CancelRaises
  <2>3. CASE job.ctx \notin {"all", "sweep"}
    <3>1. Shutdown(TRUE) BY <2>3 DEF CancelRaises
    <3>2. pc' # "awaitCreate" BY <3>1 DEF Shutdown
    <3> QED BY <1>1, <3>1, <3>2, ShutdownStep DEF CancelRaises, BatchOK
  <2> QED BY <2>1, <2>2, <2>3
<1> QED BY <1>0, <1>2, QuietStep DEF CancelRaises

-----------------------------------------------------------------------------
(* A sync.                                                                 *)
LEMMA BeginSyncStep ==
  ASSUME IInv, NEW m \in Tickers, NEW W \in SUBSET {i \in Intents : i.ticker = m},
         BeginSync(m, W)
  PROVE  IInv'
<1> USE DEF IInv, exchVars, mgrVars, journal
<1> DEFINE mine == {id \in Tracked : orders[id].ticker = m}
           unwanted == {id \in mine : \A i \in W : i.quote # orders[id].quote}
           due == {id \in mine : \E i \in W :
                     /\ i.quote = orders[id].quote
                     /\ ShouldReplace(orders[id], i, now, orders[id].created)}
           can == lastSync[m] = Never \/ now - lastSync[m] >= MinRequote
<1>0. /\ pc = "idle" /\ ~Creating /\ pc' = "cancel" /\ Distinct(W)
      /\ job' = [Job("missing", unwanted) EXCEPT
                   !.mkt = m, !.wanted = W, !.at = now, !.replace = due, !.canCreate = can]
  BY DEF BeginSync, Creating
<1>1. unwanted \in SUBSET Tracked /\ due \in SUBSET Tracked /\ can \in BOOLEAN
      /\ Tracked \in SUBSET Ids /\ now \in Nat
  BY DEF TypeOK, MgrTypes
<1>2. /\ job' \in JobType /\ job'.ctx = "missing" /\ job'.todo = unwanted
      /\ job'.replace = due /\ job'.wanted = W /\ job'.mkt = m
  <2> HIDE DEF unwanted, due, can, IInv
  <2> QED BY <1>0, <1>1 DEF Job, JobType, Contexts
<1>3. TaskTypes' BY <1>0, <1>2 DEF BeginSync, TypeOK, TaskTypes, Requested
<1>4. BatchOK' BY <1>0, <1>2 DEF BeginSync, BatchOK, Creating, Distinct
<1>5. CancelOK' BY <1>0, <1>1, <1>2 DEF BeginSync, CancelOK, TrackedOK, Accepted, Terminal
<1>6. CoverOK' BY <1>0, <1>2
        DEF BeginSync, CoverOK, InLoop, InSweep, Sweeping, Creating, Resting, Known, Tracked
<1>7. StageOK' BY <1>0, <1>2 DEF StageOK, Sweeping, Creating
<1> QED BY <1>0, <1>3, <1>4, <1>5, <1>6, <1>7, QuietStep DEF BeginSync

LEMMA LeaveLoopStep == ASSUME IInv, LeaveLoop PROVE IInv'
<1> USE DEF IInv, exchVars, mgrVars, journal
<1>0. PICK e \in BOOLEAN : Shutdown(e) BY DEF LeaveLoop
<1>1. TaskTypes' /\ BatchOK' /\ CancelOK' /\ CoverOK' /\ StageOK'
  BY <1>0, ShutdownStep DEF LeaveLoop, TypeOK, TaskTypes, BatchOK
<1>2. pc = "idle" /\ pc' # "awaitCreate" BY <1>0 DEF LeaveLoop, Shutdown
<1> QED BY <1>1, <1>2, QuietStep DEF LeaveLoop

LEMMA BalanceShortStep == ASSUME IInv, BalanceShort PROVE IInv'
<1> USE DEF IInv, exchVars, mgrVars, journal
<1>1. \A id \in Ids : Resting(id) /\ Known(id) => id \in Tracked
  BY DEF BalanceShort, CoverOK, InLoop, Creating
<1>2. TaskTypes' /\ BatchOK' /\ CancelOK' /\ CoverOK' /\ StageOK'
  BY <1>1, IdleStep DEF BalanceShort, TypeOK, TaskTypes, MgrTypes, Tracked
<1>3. pc = "awaitBalance" /\ pc' # "awaitCreate" BY DEF BalanceShort, ToIdle
<1> QED BY <1>2, <1>3, QuietStep DEF BalanceShort

LEMMA BalanceFailsStep == ASSUME IInv, BalanceFails PROVE IInv'
<1> USE DEF IInv, exchVars, mgrVars, journal
<1>1. TaskTypes' /\ BatchOK' /\ CancelOK' /\ CoverOK' /\ StageOK'
  BY ShutdownStep DEF BalanceFails, TypeOK, TaskTypes, BatchOK
<1>2. pc = "awaitBalance" /\ pc' # "awaitCreate" BY DEF BalanceFails, Shutdown
<1> QED BY <1>1, <1>2, QuietStep DEF BalanceFails

LEMMA PlanCreateStep == ASSUME IInv, PlanCreate PROVE IInv'
<1> USE DEF IInv, exchVars, journal
<1>0. pc = "plan" /\ job \in JobType /\ nextId \in Nat \ {0} /\ ~Creating
  BY DEF PlanCreate, TypeOK, TaskTypes, MgrTypes, Creating
<1>1. CASE ToCreate = {}
  <2>1. ToIdle /\ UNCHANGED mgrVars BY <1>1 DEF PlanCreate, mgrVars
  <2>2. \A id \in Ids : Resting(id) /\ Known(id) => id \in Tracked
    BY <1>0 DEF CoverOK, InLoop
  <2>3. TaskTypes' /\ BatchOK' /\ CancelOK' /\ CoverOK' /\ StageOK'
    BY <1>0, <2>1, <2>2, IdleStep DEF PlanCreate, mgrVars, TypeOK, TaskTypes, Tracked
  <2>4. pc' # "awaitCreate" BY <2>1 DEF ToIdle
  <2> QED BY <1>0, <2>1, <2>3, <2>4, QuietStep DEF PlanCreate
<1>2. CASE ToCreate # {}
  <2>a. PICK last \in nextId..MaxOrders :
          \E new \in [nextId..last -> ToCreate] :
          /\ \A a, b \in nextId..last : new[a] = new[b] => a = b
          /\ nextId' = last + 1
          /\ lastSync' = [lastSync EXCEPT ![job.mkt] = job.at]
          /\ job' = [job EXCEPT !.ctx = "create"] /\ batch' = new
          /\ pc' = "awaitBalance" /\ UNCHANGED <<raised, shutErr>>
    BY <1>2 DEF PlanCreate
  <2>1. PICK new \in [nextId..last -> ToCreate] :
          /\ \A a, b \in nextId..last : new[a] = new[b] => a = b
          /\ nextId' = last + 1
          /\ lastSync' = [lastSync EXCEPT ![job.mkt] = job.at]
          /\ job' = [job EXCEPT !.ctx = "create"] /\ batch' = new
          /\ pc' = "awaitBalance" /\ UNCHANGED <<raised, shutErr>>
    BY <2>a
  <2>2. /\ job' \in JobType /\ job'.ctx = "create" /\ job'.todo = job.todo
        /\ job'.replace = job.replace /\ job'.wanted = job.wanted /\ job'.mkt = job.mkt
    BY <1>0, <2>1 DEF JobType, Contexts
  <2>3. /\ ToCreate \subseteq job.wanted /\ job.wanted \subseteq Intents
        /\ job.mkt \in Tickers /\ job.at \in Nat
    BY <1>0, <1>2 DEF ToCreate, JobType, BatchOK
  <2>4. Requested' = nextId..last /\ Requested' \subseteq Ids /\ last + 1 \in Nat \ {0}
    BY <1>0, <2>1, BoundAssumption DEF Requested, Ids
  <2>5. TypeOK'
    <3>1. ExchTypes' BY DEF PlanCreate, TypeOK, ExchTypes
    <3>2. MgrTypes' BY <2>1, <2>3, <2>4 DEF PlanCreate, TypeOK, MgrTypes, Tracked
    <3>3. TaskTypes' BY <2>1, <2>2, <2>3, <2>4 DEF PlanCreate, TypeOK, TaskTypes
    <3> QED BY <3>1, <3>2, <3>3 DEF PlanCreate, TypeOK
  <2>6. ExchangeOK'
    BY <1>0, <2>1, <2>4 DEF PlanCreate, ExchangeOK, Accepted, Resting, Ids
  <2>7. FeedOK' BY <2>1 DEF PlanCreate, FeedOK, Happened, Accepted, FilledOf
  <2>8. TrackedOK' BY DEF PlanCreate, TrackedOK, Tracked, Accepted, FilledOf, SeenOf
  <2>9. BatchOK'
    <3>1. ASSUME NEW id \in nextId..last
          PROVE  /\ id < nextId' /\ id \notin Tracked' /\ id \notin lost'
                 /\ exch'[id].st = "none"
                 /\ \A x \in Tracked' : orders'[x].quote # batch'[id].quote
                 /\ \A x \in nextId..last : batch'[x].quote = batch'[id].quote => x = id
      <4>1. id < nextId' /\ id \in Ids /\ exch[id].st = "none"
        BY <2>1, <2>4, <1>0 DEF ExchangeOK
      <4>2. id \notin Tracked /\ id \notin lost
        BY <4>1, <1>0 DEF TrackedOK, Accepted, BatchOK
      <4>3. new[id] \in ToCreate BY <2>1
      <4>4. \A x \in Tracked : orders[x].quote # new[id].quote
        <5> SUFFICES ASSUME NEW x \in Tracked, orders[x].quote = new[id].quote PROVE FALSE
          OBVIOUS
        <5>1. /\ intent[x] \in Intents /\ intent[x].quote = orders[x].quote
              /\ intent[x].ticker = orders[x].ticker
          BY DEF TrackedOK, ExchangeOK, TypeOK, MgrTypes
        <5>2. new[id] \in Intents /\ new[id].ticker = job.mkt
          BY <2>3, <4>3 DEF BatchOK
        <5>3. orders[x].ticker = job.mkt BY <5>1, <5>2, IntentAssumption
        <5> QED BY <4>3, <5>3 DEF ToCreate
      <4>5. \A x \in nextId..last : new[x].quote = new[id].quote => x = id
        <5> SUFFICES ASSUME NEW x \in nextId..last, new[x].quote = new[id].quote
                     PROVE x = id
          OBVIOUS
        <5>1. new[x] \in job.wanted /\ new[id] \in job.wanted BY <2>1, <2>3
        <5>2. new[x] = new[id] BY <5>1 DEF BatchOK, Distinct
        <5> QED BY <2>1, <5>2
      <4> QED BY <2>1, <4>1, <4>2, <4>4, <4>5 DEF PlanCreate, Tracked
    <3>2. \A id \in lost' : id < nextId'
      BY <1>0, <2>1, <2>4 DEF PlanCreate, BatchOK, TypeOK, ExchTypes, Ids
    <3>3. pc' = "awaitBalance" /\ Creating' BY <2>1 DEF Creating
    <3> QED BY <2>2, <2>4, <3>1, <3>2, <3>3 DEF BatchOK, Distinct
  <2>10. ReplyOK' BY <2>1 DEF ReplyOK
  <2>11. CancelOK' BY <2>1, <2>2 DEF PlanCreate, CancelOK, Accepted, Terminal
  <2>12. CoverOK'
    BY <1>0, <2>1, <2>2 DEF PlanCreate, CoverOK, InLoop, InSweep, Sweeping, Creating,
                            Resting, Known, Tracked
  <2>13. StageOK' BY <2>1, <2>2 DEF StageOK, Sweeping, Creating
  <2>14. OneRestingOrderPerQuote'
    BY DEF PlanCreate, OneRestingOrderPerQuote, Resting, Known
  <2> QED BY <2>5, <2>6, <2>7, <2>8, <2>9, <2>10, <2>11, <2>12, <2>13, <2>14
<1> QED BY <1>1, <1>2

LEMMA SendCreateStep == ASSUME IInv, SendCreate PROVE IInv'
<1> USE DEF IInv, mgrVars, journal
<1>0. /\ pc = "awaitBalance" /\ pc' = "awaitCreate" /\ rpc' = "sent"
      /\ job \in JobType /\ Creating /\ Creating' /\ Requested \subseteq Ids
      /\ Requested' = Requested /\ job.ctx = "create" /\ job' = job
  BY DEF SendCreate, TypeOK, TaskTypes, Creating, Requested, StageOK
<1>1. \A id \in Requested : exch[id].st = "none" BY <1>0 DEF BatchOK
<1>2. /\ \A id \in Requested : exch'[id].st = "sent" /\ intent'[id] = batch[id]
      /\ \A id \in Ids \ Requested : exch'[id] = exch[id] /\ intent'[id] = intent[id]
  BY <1>0 DEF SendCreate, TypeOK, ExchTypes
<1>3. \A id \in Ids : /\ Accepted(id) => id \notin Requested
                      /\ Accepted(id)' = Accepted(id) /\ Resting(id)' = Resting(id)
  BY <1>1, <1>2 DEF Accepted, Resting
<1>4. TypeOK'
  <2>1. exch' \in [Ids -> [st : Status, open : Nat, rem : Nat]]
    BY DEF SendCreate, TypeOK, ExchTypes, Status
  <2>2. intent' \in [Ids -> Intents \cup {NoIntent}]
    BY DEF SendCreate, TypeOK, ExchTypes, TaskTypes
  <2>3. ExchTypes' BY <2>1, <2>2 DEF SendCreate, TypeOK, ExchTypes
  <2>4. MgrTypes' BY DEF SendCreate, TypeOK, MgrTypes, Tracked
  <2>5. TaskTypes' BY <1>0 DEF SendCreate, TypeOK, TaskTypes
  <2> QED BY <2>3, <2>4, <2>5 DEF SendCreate, TypeOK
<1>5. ExchangeOK'
  <2> SUFFICES ASSUME NEW id \in Ids
               PROVE  /\ Accepted(id)' => /\ intent'[id] \in Intents
                                          /\ exch'[id].rem <= exch'[id].open
                                          /\ exch'[id].open <= intent'[id].count
                      /\ Resting(id)' => exch'[id].rem >= 1
                      /\ exch'[id].st = "sent" => \/ id \in lost' /\ intent'[id] \in Intents
                                                  \/ id \in Requested
                      /\ id >= nextId' => exch'[id].st = "none"
    BY <1>0 DEF ExchangeOK
  <2>1. CASE id \in Requested
    <3>1. exch'[id].st = "sent" /\ id < nextId BY <1>0, <1>2, <2>1 DEF BatchOK
    <3>2. id \in Nat /\ nextId \in Nat /\ nextId' = nextId
      BY DEF SendCreate, TypeOK, MgrTypes, Ids
    <3> QED BY <2>1, <3>1, <3>2 DEF Accepted, Resting
  <2>2. CASE id \notin Requested
    BY <1>0, <1>2, <1>3, <2>2 DEF SendCreate, ExchangeOK, Accepted, Resting
  <2> QED BY <2>1, <2>2
<1>6. \A t \in Trades : Happened(t) => Happened(t)' /\ t[1] \notin Requested
  BY <1>2, <1>3 DEF Happened, FilledOf, Trades
<1>7. FeedOK'
  BY <1>0, <1>6 DEF SendCreate, FeedOK, TypeOK, ExchTypes, MgrTypes
<1>8. TrackedOK'
  BY <1>2, <1>3 DEF SendCreate, TrackedOK, Tracked, TypeOK, MgrTypes, FilledOf, SeenOf
<1>9. BatchOK'
  BY <1>0, <1>2 DEF SendCreate, BatchOK, Tracked, Distinct, TypeOK, MgrTypes
<1>10. ReplyOK' BY <1>0 DEF ReplyOK
<1>11. CancelOK'
  BY <1>0, <1>1, <1>2 DEF SendCreate, CancelOK, Accepted, Terminal, TypeOK, TaskTypes, JobType, MgrTypes
<1>12. CoverOK'
  BY <1>0, <1>2, <1>3 DEF SendCreate, CoverOK, InLoop, InSweep, Sweeping, Creating, Known, Tracked
<1>13. StageOK' BY <1>0 DEF StageOK, Creating, Sweeping
<1>14. OneRestingOrderPerQuote'
  BY <1>2, <1>3 DEF SendCreate, OneRestingOrderPerQuote, Known, Resting, Accepted
<1> QED BY <1>4, <1>5, <1>7, <1>8, <1>9, <1>10, <1>11, <1>12, <1>13, <1>14

LEMMA CreateReturnsStep ==
  ASSUME IInv, CreateReturns PROVE IInv'
<1> USE DEF IInv, exchVars, journal
<1> DEFINE accepted == {id \in Requested : reply[id] # Rejected}
           open     == {id \in accepted : reply[id] # 0}
<1>0. /\ pc = "awaitCreate" /\ rpc = "ok" /\ Creating /\ ToIdle /\ CallDone
      /\ pc' = "idle" /\ Requested \subseteq Ids /\ open \subseteq Requested
      /\ Tracked \subseteq Ids /\ job \in JobType
      /\ DOMAIN reply = Requested /\ reply \in [Requested -> Int]
      /\ batch \in [Requested -> Intents]
  BY DEF CreateReturns, ToIdle, TypeOK, TaskTypes, MgrTypes, Creating, ReplyOK
<1>1. /\ Tracked' = Tracked \cup open /\ Tracked \cap open = {}
      /\ \A id \in Tracked : orders'[id] = orders[id]
      /\ \A id \in open : orders'[id] = FromIntent(batch[id], reply[id], job.at)
  BY <1>0 DEF CreateReturns, Tracked, BatchOK
<1>2. \A id \in open :
        /\ Accepted(id) /\ batch[id] = intent[id] /\ batch[id] \in Intents
        /\ batch[id].count \in Nat \ {0}
        /\ reply[id] \in {Unreported, batch[id].count}
        /\ reply[id] # Unreported => reply[id] = exch[id].open
        /\ exch[id].rem <= exch[id].open /\ exch[id].open <= batch[id].count
        /\ exch[id].rem \in Nat /\ exch[id].open \in Nat
  BY <1>0, IntentAssumption DEF ReplyOK, BatchOK, ExchangeOK, TypeOK, ExchTypes
<1>3. ASSUME NEW id \in open
      PROVE  /\ orders'[id] \in LiveOrderType
             /\ orders'[id].quote = intent[id].quote /\ orders'[id].ticker = intent[id].ticker
             /\ orders'[id].initial = intent[id].count
             /\ orders'[id].fm = 0 /\ orders'[id].uf = 0
             /\ orders'[id].rem >= exch[id].rem
  <2>1. /\ batch[id] \in Intents /\ batch[id].count \in Nat \ {0}
        /\ reply[id] \in {Unreported, batch[id].count} BY <1>2
  <2>2. FilledFromRemaining(batch[id].count, reply[id]) = 0
    BY <2>1 DEF FilledFromRemaining, Larger, Unreported
  <2>3. /\ batch[id].quote \in Quotes /\ batch[id].ticker \in Tickers
        /\ batch[id].contract \in {i.contract : i \in Intents}
        /\ batch[id].price \in Nat /\ job.at \in Nat
    BY <1>0, <2>1, IntentAssumption DEF Quotes, JobType
  <2>4. orders'[id] = FromIntent(batch[id], reply[id], job.at) BY <1>1
  <2>5. (IF reply[id] = Unreported THEN batch[id].count ELSE reply[id]) \in Nat
    BY <2>1
  <2> HIDE DEF open
  <2>6. orders'[id] \in LiveOrderType
    BY <2>1, <2>2, <2>3, <2>4, <2>5 DEF FromIntent, LiveOrderType
  <2> QED BY <1>2, <2>1, <2>2, <2>4, <2>6 DEF FromIntent, open
<1>4. TypeOK'
  <2>1. ExchTypes' BY DEF CreateReturns, TypeOK, ExchTypes
  <2>2. orders' \in [Tracked' -> LiveOrderType]
    <3>1. orders' = [id \in Tracked' |-> orders'[id]] BY <1>1 DEF CreateReturns
    <3>2. \A id \in Tracked' : orders'[id] \in LiveOrderType
      BY <1>1, <1>3 DEF TypeOK, MgrTypes
    <3> QED BY <3>1, <3>2
  <2>3. rejUntil' \in [Quotes -> Nat \cup {Never}]
    <3>1. job.at + Cooldown \in Nat BY <1>0, BoundAssumption DEF JobType
    <3> QED BY <3>1 DEF CreateReturns, TypeOK, MgrTypes
  <2>4. placedLog' \subseteq Ids BY <1>0 DEF CreateReturns, TypeOK, MgrTypes
  <2>5. MgrTypes' BY <1>0, <1>1, <2>2, <2>3, <2>4 DEF CreateReturns, TypeOK, MgrTypes
  <2>6. now' \in Nat /\ session' \in Nat BY DEF CreateReturns, TypeOK
  <2>7. TaskTypes'
    BY <1>0, JobFields DEF ToIdle, IdleJob, CallDone, Contexts, TypeOK, TaskTypes, Requested
  <2> QED BY <2>1, <2>5, <2>6, <2>7 DEF TypeOK
<1>5. BatchOK' /\ CancelOK' /\ CoverOK' /\ StageOK'
  <2>1. \A id \in Ids : Resting(id) /\ Known(id) => id \in Tracked'
    <3> SUFFICES ASSUME NEW id \in Requested, Resting(id) PROVE id \in open
      BY <1>0, <1>1 DEF CoverOK, InLoop
    <3>1. reply[id] # Rejected
      <4>1. batch[id].count \in Nat BY <1>0, IntentAssumption
      <4> QED BY <1>0, <4>1 DEF ReplyOK, Resting, Rejected, Unreported
    <3>2. reply[id] # 0
      <4>1. reply[id] = exch[id].open \/ reply[id] = Unreported
        BY <1>0, <3>1 DEF ReplyOK
      <4>2. exch[id].rem >= 1 /\ exch[id].rem <= exch[id].open
            /\ exch[id].rem \in Nat /\ exch[id].open \in Nat
        BY <1>0 DEF ExchangeOK, Accepted, Resting, TypeOK, ExchTypes
      <4> QED BY <4>1, <4>2 DEF Unreported
    <3> QED BY <3>1, <3>2
  <2> QED BY <1>0, <2>1, IdleStep DEF CreateReturns, CallDone, TypeOK, MgrTypes
<1>6. ExchangeOK'
  <2>1. \A id \in Ids : exch[id].st = "sent" => id \in lost /\ intent[id] \in Intents
    BY <1>0 DEF ExchangeOK, ReplyOK, Accepted
  <2> QED BY <2>1 DEF CreateReturns, ExchangeOK, Accepted, Resting
<1>7. FeedOK' BY <1>0 DEF CreateReturns, FeedOK, Happened, Accepted, FilledOf
<1>8. TrackedOK'
  <2>1. ASSUME NEW id \in open PROVE Cardinality(SeenOf(id)) = 0 /\ FilledOf(id) >= 0
    <3>1. SeenOf(id) = {} BY <1>0 DEF FeedOK, SeenOf
    <3>2. FilledOf(id) \in Nat BY <1>0, <1>2, SeenBound DEF TypeOK
    <3> QED BY <3>1, <3>2, FS_EmptySet
  <2>2. \A id \in Ids : SeenOf(id)' = SeenOf(id) /\ FilledOf(id)' = FilledOf(id)
                        /\ Accepted(id)' = Accepted(id)
    BY DEF CreateReturns, SeenOf, FilledOf, Accepted
  <2>3. ASSUME NEW id \in Tracked'
        PROVE /\ Accepted(id)
              /\ orders'[id].quote = intent[id].quote /\ orders'[id].ticker = intent[id].ticker
              /\ orders'[id].initial = intent[id].count
              /\ orders'[id].fm = Cardinality(SeenOf(id))
              /\ orders'[id].uf <= FilledOf(id) /\ orders'[id].rem >= exch[id].rem
    <3>1. CASE id \in Tracked BY <3>1, <1>1 DEF TrackedOK
    <3>2. CASE id \in open BY <3>2, <1>2, <1>3, <2>1
    <3> QED BY <1>1, <3>1, <3>2
  <2>4. Tracked' \subseteq Ids BY <1>0, <1>1
  <2> QED BY <2>2, <2>3, <2>4 DEF CreateReturns, TrackedOK
<1>9. ReplyOK' BY <1>0 DEF ReplyOK
<1>10. OneRestingOrderPerQuote'
  BY DEF CreateReturns, OneRestingOrderPerQuote, Resting, Known
<1> QED BY <1>4, <1>5, <1>6, <1>7, <1>8, <1>9, <1>10

LEMMA CreateRaisesStep == ASSUME IInv, CreateRaises PROVE IInv'
<1> USE DEF IInv, mgrVars, journal
<1>0. /\ pc = "awaitCreate" /\ Creating /\ Shutdown(TRUE) /\ CallDone
      /\ lost' = lost \cup Requested /\ Requested \subseteq Ids /\ lost \subseteq Ids
  BY DEF CreateRaises, Creating, TypeOK, TaskTypes, ExchTypes
<1>1. \A id \in lost' : id < nextId BY <1>0 DEF BatchOK
<1>2. /\ DOMAIN reply' \subseteq Ids /\ reply' \in [DOMAIN reply' -> Int] /\ rpc' = "none"
  BY <1>0 DEF CallDone
<1>3. TaskTypes' /\ BatchOK' /\ CancelOK' /\ CoverOK' /\ StageOK'
  BY <1>0, <1>1, <1>2, ShutdownStep DEF CreateRaises
<1>4. pc' = "cancel" BY <1>0 DEF Shutdown
<1>5. TypeOK'
  <2>1. ExchTypes' BY <1>0 DEF CreateRaises, TypeOK, ExchTypes
  <2>2. MgrTypes' BY DEF CreateRaises, TypeOK, MgrTypes, Tracked
  <2> QED BY <1>3, <2>1, <2>2 DEF CreateRaises, TypeOK
<1>6. ExchangeOK'
  <2>1. \A id \in Requested : intent[id] \in Intents
    BY <1>0 DEF BatchOK, TypeOK, TaskTypes
  <2>2. \A id \in Ids : exch[id].st = "sent" => id \in lost' /\ intent[id] \in Intents
    BY <1>0, <2>1 DEF ExchangeOK
  <2> QED BY <2>2 DEF CreateRaises, ExchangeOK, Accepted, Resting
<1>7. FeedOK' BY <1>4 DEF CreateRaises, FeedOK, Happened, Accepted, FilledOf
<1>8. TrackedOK' BY DEF CreateRaises, TrackedOK, Tracked, Accepted, SeenOf, FilledOf
<1>9. ReplyOK' BY <1>4 DEF ReplyOK
<1>10. OneRestingOrderPerQuote'
  BY <1>0 DEF CreateRaises, OneRestingOrderPerQuote, Resting, Known
<1> QED BY <1>3, <1>5, <1>6, <1>7, <1>8, <1>9, <1>10

-----------------------------------------------------------------------------
(* The exchange.  An order only loses contracts or dies: what the manager  *)
(* holds of it stays an upper bound.                                       *)
LEMMA DeclineStep ==
  ASSUME IInv, NEW id \in Ids, Resting(id),
         exch' \in [Ids -> [st : Status, open : Nat, rem : Nat]],
         exch'[id].st \in {"resting", "canceled", "executed"},
         exch'[id].open = exch[id].open, exch'[id].rem <= exch[id].rem,
         exch'[id].st = "resting" => exch'[id].rem >= 1,
         \A x \in Ids \ {id} : exch'[x] = exch[x],
         UNCHANGED <<intent, lost, mgrVars, pc, job, batch, reply, raised, shutErr,
                     now, session>>
  PROVE  /\ ExchangeOK' /\ TrackedOK' /\ CoverOK' /\ StageOK'
         /\ OneRestingOrderPerQuote'
         /\ \A t \in Trades : Happened(t) => Happened(t)'
         /\ \A x \in Ids : /\ Accepted(x)' = Accepted(x)
                           /\ Resting(x)' => Resting(x)
                           /\ Terminal(x) => Terminal(x)'
                           /\ exch'[x].open = exch[x].open
                           /\ FilledOf(x)' = FilledOf(x) \/ x = id
                           /\ ~Accepted(x) => exch'[x] = exch[x]
<1> USE DEF IInv, mgrVars, journal
<1>0. /\ exch \in [Ids -> [st : Status, open : Nat, rem : Nat]]
      /\ exch[id].open \in Nat /\ exch[id].rem \in Nat
  BY DEF TypeOK, ExchTypes
<1>2. exch'[id].open \in Nat /\ exch'[id].rem \in Nat OBVIOUS
<1>3. \A x \in Ids : /\ Accepted(x)' = Accepted(x)
                     /\ Resting(x)' => Resting(x)
                     /\ Terminal(x) => Terminal(x)'
                     /\ exch'[x].open = exch[x].open
                     /\ exch'[x].rem <= exch[x].rem
                     /\ FilledOf(x)' = FilledOf(x) \/ x = id
                     /\ ~Accepted(x) => exch'[x] = exch[x]
  BY <1>0, <1>2 DEF Accepted, Resting, Terminal, FilledOf
<1>4. intent[id] \in Intents /\ intent[id].count \in Nat
  BY IntentAssumption DEF ExchangeOK, Accepted, Resting
<1>5. FilledOf(id) \in Nat /\ FilledOf(id)' \in Nat /\ FilledOf(id) <= FilledOf(id)'
  <2>1. exch[id].rem <= intent[id].count
    BY <1>0, <1>4 DEF ExchangeOK, Accepted, Resting
  <2> QED BY <1>0, <1>2, <1>4, <2>1 DEF FilledOf
<1>6. ExchangeOK'
  BY <1>0, <1>2, <1>3 DEF ExchangeOK, Requested, Accepted, Resting
<1>7. ASSUME NEW t \in Trades, Happened(t) PROVE Happened(t)'
  <2>1. t[1] \in Ids /\ t[2] \in Nat BY DEF Trades
  <2> QED BY <1>3, <1>5, <1>7, <2>1 DEF Happened
<1>8. TrackedOK'
  <2> SUFFICES ASSUME NEW x \in Tracked
               PROVE /\ Accepted(x)' /\ orders[x].uf <= FilledOf(x)'
                     /\ orders[x].rem >= exch'[x].rem
    BY DEF TrackedOK, Tracked, SeenOf
  <2>1. x \in Ids /\ orders[x].uf \in Int /\ orders[x].rem \in Int
    BY DEF TypeOK, MgrTypes, LiveOrderType
  <2>2. exch[x].rem \in Nat /\ exch'[x].rem \in Nat BY <1>0, <2>1
  <2>3. orders[x].rem >= exch'[x].rem
    BY <1>3, <2>1, <2>2 DEF TrackedOK
  <2>4. orders[x].uf <= FilledOf(x)' BY <1>3, <1>5, <2>1 DEF TrackedOK
  <2> QED BY <1>3, <2>1, <2>3, <2>4 DEF TrackedOK
<1>9. CoverOK'
  BY <1>3 DEF CoverOK, InLoop, InSweep, Sweeping, Creating, Known, Tracked, Requested
<1>10. StageOK' BY DEF StageOK, Sweeping, Creating
<1>11. OneRestingOrderPerQuote' BY <1>3 DEF OneRestingOrderPerQuote, Known
<1> QED BY <1>3, <1>6, <1>7, <1>8, <1>9, <1>10, <1>11

(* The parts that depend on exch only through what a decline preserves.    *)
LEMMA DeclineRest ==
  ASSUME IInv, UNCHANGED <<intent, lost, mgrVars, pc, job, batch, reply, raised, shutErr,
                           now, session>>,
         exch' \in [Ids -> [st : Status, open : Nat, rem : Nat]],
         rpc' \in {"none", "sent", "ok", "missing"},
         pc = "awaitCreate" => rpc' = rpc, wire' \subseteq Trades,
         \A x \in Ids : /\ Accepted(x)' = Accepted(x)
                        /\ Terminal(x) => Terminal(x)'
                        /\ exch'[x].open = exch[x].open
                        /\ ~Accepted(x) => exch'[x] = exch[x],
         pc = "awaitCancel" /\ rpc' = "ok" => Terminal(job.cur)'
  PROVE  TypeOK' /\ BatchOK' /\ ReplyOK' /\ CancelOK'
<1> USE DEF IInv, mgrVars, journal
<1>1. TypeOK'
  <2>1. ExchTypes' BY DEF TypeOK, ExchTypes
  <2>2. MgrTypes' BY DEF TypeOK, MgrTypes, Tracked
  <2>3. TaskTypes' BY DEF TypeOK, TaskTypes, Requested
  <2> QED BY <2>1, <2>2, <2>3 DEF TypeOK
<1>2. Requested \subseteq Ids BY DEF TypeOK, TaskTypes
<1>3. BatchOK'
  <2>1. ASSUME NEW x \in Requested, ~Accepted(x) PROVE exch'[x].st = exch[x].st
    BY <1>2, <2>1
  <2>2. /\ pc = "awaitBalance" => \A x \in Requested : exch'[x].st = "none"
        /\ pc = "awaitCreate" /\ rpc' = "sent" => \A x \in Requested : exch'[x].st = "sent"
    BY <2>1 DEF BatchOK, Accepted
  <2> QED BY <2>2 DEF BatchOK, Creating, Requested, Tracked, Distinct
<1>4. ReplyOK'
  BY <1>2 DEF ReplyOK, Requested, Accepted
<1>5. CancelOK'
  BY DEF CancelOK, TypeOK, TaskTypes, JobType, MgrTypes
<1> QED BY <1>1, <1>3, <1>4, <1>5

LEMMA ExchExpireStep ==
  ASSUME IInv, NEW id \in Ids, ExchExpire(id) PROVE IInv'
<1> USE DEF IInv, mgrVars, journal, taskVars
<1>0. Resting(id) /\ exch \in [Ids -> [st : Status, open : Nat, rem : Nat]]
  BY DEF ExchExpire, TypeOK, ExchTypes
<1>1. /\ exch' \in [Ids -> [st : Status, open : Nat, rem : Nat]]
      /\ exch'[id].st = "canceled" /\ exch'[id].open = exch[id].open
      /\ exch'[id].rem = exch[id].rem /\ exch'[id].rem <= exch[id].rem
      /\ \A x \in Ids \ {id} : exch'[x] = exch[x]
  BY <1>0 DEF ExchExpire, Status
<1>2. /\ ExchangeOK' /\ TrackedOK' /\ CoverOK' /\ StageOK' /\ OneRestingOrderPerQuote'
      /\ \A t \in Trades : Happened(t) => Happened(t)'
      /\ \A x \in Ids : /\ Accepted(x)' = Accepted(x)
                        /\ Terminal(x) => Terminal(x)'
                        /\ exch'[x].open = exch[x].open
                        /\ ~Accepted(x) => exch'[x] = exch[x]
  BY <1>0, <1>1, DeclineStep DEF ExchExpire
<1>3. /\ wire' = wire /\ rpc' = rpc /\ wire \subseteq Trades
      /\ rpc \in {"none", "sent", "ok", "missing"}
      /\ pc = "awaitCancel" /\ rpc = "ok" => Terminal(job.cur)'
  BY <1>2 DEF ExchExpire, TypeOK, ExchTypes, TaskTypes, CancelOK
<1>4. TypeOK' /\ BatchOK' /\ ReplyOK' /\ CancelOK'
  BY <1>1, <1>2, <1>3, DeclineRest DEF ExchExpire
<1>5. FeedOK'
  BY <1>2, <1>3 DEF ExchExpire, FeedOK, Requested, TypeOK, MgrTypes
<1> QED BY <1>2, <1>4, <1>5

LEMMA ExchCancelStep == ASSUME IInv, ExchCancel PROVE IInv'
<1> USE DEF IInv, mgrVars, journal
<1>0. /\ pc = "awaitCancel" /\ job.cur \in Ids /\ Accepted(job.cur)
      /\ exch \in [Ids -> [st : Status, open : Nat, rem : Nat]]
      /\ wire' = wire /\ wire \subseteq Trades
      /\ rpc' \in {"none", "sent", "ok", "missing"}
  BY DEF ExchCancel, CancelOK, TypeOK, ExchTypes
<1>1. CASE Resting(job.cur)
  <2>1. /\ exch' \in [Ids -> [st : Status, open : Nat, rem : Nat]]
        /\ exch'[job.cur].st = "canceled" /\ exch'[job.cur].open = exch[job.cur].open
        /\ exch'[job.cur].rem = exch[job.cur].rem /\ exch'[job.cur].rem <= exch[job.cur].rem
        /\ \A x \in Ids \ {job.cur} : exch'[x] = exch[x]
    BY <1>0, <1>1 DEF ExchCancel, Status
  <2>3. /\ ExchangeOK' /\ TrackedOK' /\ CoverOK' /\ StageOK' /\ OneRestingOrderPerQuote'
        /\ \A t \in Trades : Happened(t) => Happened(t)'
        /\ \A x \in Ids : /\ Accepted(x)' = Accepted(x)
                          /\ Terminal(x) => Terminal(x)'
                          /\ exch'[x].open = exch[x].open
                          /\ ~Accepted(x) => exch'[x] = exch[x]
    BY <1>0, <1>1, <2>1, DeclineStep DEF ExchCancel
  <2>4. Terminal(job.cur)' BY <1>0, <2>1 DEF ExchCancel, Terminal
  <2>5. TypeOK' /\ BatchOK' /\ ReplyOK' /\ CancelOK'
    BY <1>0, <2>1, <2>3, <2>4, DeclineRest DEF ExchCancel
  <2>6. FeedOK' BY <1>0, <2>3 DEF ExchCancel, FeedOK, Requested, TypeOK, MgrTypes
  <2> QED BY <2>3, <2>5, <2>6
<1>2. CASE ~Resting(job.cur)
  <2>1. UNCHANGED exch BY <1>2 DEF ExchCancel
  <2>2. Terminal(job.cur) BY <1>0, <1>2 DEF Accepted, Resting, Terminal
  <2>3. \A x \in Ids : /\ Accepted(x)' = Accepted(x) /\ Resting(x)' = Resting(x)
                       /\ Terminal(x)' = Terminal(x)
    BY <2>1 DEF Accepted, Resting, Terminal
  <2>4. TypeOK' /\ BatchOK' /\ ReplyOK' /\ CancelOK'
    BY <1>0, <2>1, <2>2, <2>3, DeclineRest DEF ExchCancel, Terminal
  <2>5. ExchangeOK' BY <2>1, <2>3 DEF ExchCancel, ExchangeOK, Requested
  <2>6. FeedOK' BY <2>1 DEF ExchCancel, FeedOK, Happened, Accepted, FilledOf, Requested
  <2>7. TrackedOK' BY <2>1 DEF ExchCancel, TrackedOK, Tracked, Accepted, SeenOf, FilledOf
  <2>8. CoverOK' BY <1>0, <2>3 DEF ExchCancel, CoverOK, InLoop, InSweep, Sweeping, Creating,
                                   Known, Tracked, Requested
  <2>9. StageOK' BY DEF ExchCancel, StageOK, Sweeping, Creating
  <2>10. OneRestingOrderPerQuote' BY <2>3 DEF ExchCancel, OneRestingOrderPerQuote, Known
  <2> QED BY <2>4, <2>5, <2>6, <2>7, <2>8, <2>9, <2>10
<1> QED BY <1>1, <1>2

LEMMA ExchFillStep ==
  ASSUME IInv, NEW id \in Ids, ExchFill(id) PROVE IInv'
<1> USE DEF IInv, mgrVars, journal, taskVars
<1> DEFINE left == exch[id].rem - 1
<1>0. /\ Resting(id) /\ Accepted(id)
      /\ exch \in [Ids -> [st : Status, open : Nat, rem : Nat]]
      /\ exch[id].rem \in Nat /\ exch[id].rem >= 1 /\ exch[id].rem <= intent[id].count
      /\ intent[id].count \in Nat
  BY IntentAssumption
     DEF ExchFill, TypeOK, ExchTypes, ExchangeOK, Resting, Accepted
<1>1. /\ exch' \in [Ids -> [st : Status, open : Nat, rem : Nat]]
      /\ exch'[id].st \in {"resting", "executed"} /\ exch'[id].open = exch[id].open
      /\ exch'[id].rem = left /\ exch'[id].rem <= exch[id].rem
      /\ exch'[id].st = "resting" => exch'[id].rem >= 1
      /\ \A x \in Ids \ {id} : exch'[x] = exch[x]
  <2> DEFINE st == IF left = 0 THEN "executed" ELSE "resting"
  <2>1. /\ \A x \in Ids \ {id} : exch'[x] = exch[x]
        /\ exch'[id] = [exch[id] EXCEPT !.rem = left, !.st = st]
        /\ DOMAIN exch' = Ids /\ exch' = [x \in Ids |-> exch'[x]]
    BY <1>0 DEF ExchFill
  <2>2. left \in Nat /\ left <= exch[id].rem BY <1>0
  <2> HIDE DEF left
  <2>3. st \in {"resting", "executed"} /\ (st = "resting" => left >= 1) BY <2>2
  <2> HIDE DEF st
  <2>a. exch[id] \in [st : Status, open : Nat, rem : Nat] /\ st \in Status
    BY <1>0, <2>3 DEF Status
  <2>4. exch'[id] \in [st : Status, open : Nat, rem : Nat]
    BY <2>1, <2>2, <2>a
  <2>5. exch'[id].st = st /\ exch'[id].open = exch[id].open /\ exch'[id].rem = left
    BY <1>0, <2>1
  <2>6. exch' \in [Ids -> [st : Status, open : Nat, rem : Nat]] BY <1>0, <2>1, <2>4
  <2> QED BY <2>1, <2>2, <2>3, <2>5, <2>6
<1>3. /\ ExchangeOK' /\ TrackedOK' /\ CoverOK' /\ StageOK' /\ OneRestingOrderPerQuote'
      /\ \A t \in Trades : Happened(t) => Happened(t)'
      /\ \A x \in Ids : /\ Accepted(x)' = Accepted(x)
                        /\ Terminal(x) => Terminal(x)'
                        /\ exch'[x].open = exch[x].open
                        /\ ~Accepted(x) => exch'[x] = exch[x]
  BY <1>0, <1>1, DeclineStep DEF ExchFill
<1>k. FilledOf(id) \in Nat /\ FilledOf(id)' = FilledOf(id) + 1
  BY <1>0, <1>1 DEF ExchFill, FilledOf
<1>t. PICK trade : trade = <<id, FilledOf(id) + 1>> OBVIOUS
<1>4. trade \in Trades /\ Happened(trade)' /\ ~Happened(trade)
  <2>1. trade \in Trades BY <1>k, <1>t DEF Trades
  <2>2. trade[1] = id /\ trade[2] = FilledOf(id) + 1 BY <1>t
  <2> QED BY <1>0, <1>3, <1>k, <2>1, <2>2 DEF Happened
<1>5. wire' \subseteq wire \cup {trade} /\ wire \subseteq wire' /\ wire \subseteq Trades
  BY <1>t DEF ExchFill, OnWire, TypeOK, ExchTypes
<1>6. TypeOK' /\ BatchOK' /\ ReplyOK' /\ CancelOK'
  <2>1. wire' \subseteq Trades BY <1>4, <1>5
  <2>2. /\ rpc' = rpc /\ rpc \in {"none", "sent", "ok", "missing"}
        /\ pc = "awaitCancel" /\ rpc = "ok" => Terminal(job.cur)'
    BY <1>3 DEF ExchFill, TypeOK, TaskTypes, CancelOK
  <2> QED BY <1>1, <1>3, <2>1, <2>2, DeclineRest DEF ExchFill
<1>7. FeedOK'
  <2>1. DOMAIN filledLog \subseteq Trades /\ filledLog' = filledLog /\ seen' = seen
        /\ pc' = pc /\ Requested' = Requested
    BY DEF TypeOK, MgrTypes, ExchFill, Requested
  <2>2. trade \notin DOMAIN filledLog BY <1>4 DEF FeedOK
  <2>3. \A t \in wire' : Happened(t)' BY <1>3, <1>4, <1>5 DEF FeedOK
  <2>4. \A t \in DOMAIN filledLog : Happened(t)' BY <1>3, <2>1 DEF FeedOK
  <2>5. wire' \cap DOMAIN filledLog \subseteq seen BY <1>5, <2>2 DEF FeedOK
  <2> QED BY <1>5, <2>1, <2>3, <2>4, <2>5 DEF FeedOK
<1> QED BY <1>3, <1>6, <1>7

LEMMA ExchLateCreateStep ==
  ASSUME IInv, NEW id \in Ids, ExchLateCreate(id) PROVE IInv'
<1> USE DEF IInv, mgrVars, journal, taskVars
<1>0. /\ id \in lost /\ exch[id].st = "sent" /\ ~Accepted(id)
      /\ exch \in [Ids -> [st : Status, open : Nat, rem : Nat]]
  BY DEF ExchLateCreate, TypeOK, ExchTypes, Accepted
<1>1. ~(Creating /\ id \in Requested) BY <1>0 DEF BatchOK
<1>2. intent[id] \in Intents /\ intent[id].count \in Nat \ {0}
  BY <1>0, <1>1, IntentAssumption DEF ExchangeOK, Creating
<1>3. /\ exch'[id].st = "resting" /\ exch'[id].open = intent[id].count
      /\ exch'[id].rem = intent[id].count
      /\ \A x \in Ids \ {id} : exch'[x] = exch[x]
  BY <1>0 DEF ExchLateCreate
<1>4. \A x \in Ids : /\ Accepted(x) => Accepted(x)' /\ FilledOf(x)' = FilledOf(x) /\ x # id
                     /\ Resting(x)' /\ Known(x)' => Resting(x) /\ Known(x)
                     /\ Terminal(x) => Terminal(x)'
  BY <1>0, <1>3 DEF Accepted, FilledOf, Resting, Known, Terminal, ExchLateCreate
<1>5. TypeOK'
  <2>1. exch' \in [Ids -> [st : Status, open : Nat, rem : Nat]]
    BY <1>0, <1>2 DEF ExchLateCreate, Status
  <2>2. ExchTypes' BY <2>1 DEF ExchLateCreate, TypeOK, ExchTypes
  <2>3. MgrTypes' BY DEF ExchLateCreate, TypeOK, MgrTypes, Tracked
  <2>4. TaskTypes' BY DEF ExchLateCreate, TypeOK, TaskTypes, Requested
  <2> QED BY <2>2, <2>3, <2>4 DEF ExchLateCreate, TypeOK
<1>6. ExchangeOK'
  <2>1. id < nextId BY <1>0 DEF BatchOK
  <2>2. id \in Nat /\ nextId \in Nat BY DEF Ids, TypeOK, MgrTypes
  <2> SUFFICES ASSUME NEW x \in Ids
               PROVE  /\ Accepted(x)' => /\ intent[x] \in Intents
                                         /\ exch'[x].rem <= exch'[x].open
                                         /\ exch'[x].open <= intent[x].count
                      /\ Resting(x)' => exch'[x].rem >= 1
                      /\ exch'[x].st = "sent" => \/ x \in lost /\ intent[x] \in Intents
                                                 \/ pc = "awaitCreate" /\ x \in Requested
                      /\ x >= nextId => exch'[x].st = "none"
    BY DEF ExchangeOK, ExchLateCreate, Requested
  <2>3. CASE x = id BY <1>2, <1>3, <2>1, <2>2, <2>3 DEF Accepted, Resting
  <2>4. CASE x # id BY <1>3, <2>4 DEF ExchangeOK, Accepted, Resting
  <2> QED BY <2>3, <2>4
<1>7. FeedOK'
  <2>1. \A t \in Trades : Happened(t) => Happened(t)' BY <1>4 DEF Happened, Trades
  <2> QED BY <2>1 DEF ExchLateCreate, FeedOK, Requested, TypeOK, ExchTypes, MgrTypes
<1>8. TrackedOK'
  BY <1>3, <1>4 DEF ExchLateCreate, TrackedOK, Tracked, SeenOf, TypeOK, MgrTypes
<1>9. BatchOK'
  BY <1>0, <1>1, <1>3 DEF ExchLateCreate, BatchOK, Creating, Requested, Tracked, Distinct,
                          TypeOK, TaskTypes
<1>10. ReplyOK'
  BY <1>1, <1>3 DEF ExchLateCreate, ReplyOK, Creating, Requested, Accepted, TypeOK, TaskTypes
<1>11. CancelOK'
  BY <1>4 DEF ExchLateCreate, CancelOK, TypeOK, TaskTypes, JobType, MgrTypes
<1>12. CoverOK'
  BY <1>4 DEF ExchLateCreate, CoverOK, InLoop, InSweep, Sweeping, Creating, Tracked, Requested
<1>13. StageOK' BY DEF ExchLateCreate, StageOK, Sweeping, Creating
<1>14. OneRestingOrderPerQuote'
  BY <1>4 DEF ExchLateCreate, OneRestingOrderPerQuote
<1> QED BY <1>5, <1>6, <1>7, <1>8, <1>9, <1>10, <1>11, <1>12, <1>13, <1>14

(* What a create response may say, when it reports no partial fill.        *)
LEMMA OutcomeFacts ==
  ASSUME PartialFillOnCreate = FALSE, NEW i \in Intents, NEW o, Possible(i, o)
  PROVE  /\ o.st \in {"rejected", "executed", "resting"}
         /\ o.rem \in Nat /\ o.rem <= i.count /\ o.says \in Int
         /\ o.st = "resting" => o.rem >= 1
         /\ o.st = "rejected" => o.says = Rejected
         /\ o.st # "rejected" => /\ o.says \in {Unreported, 0, i.count}
                                 /\ o.says # Unreported => o.says = o.rem
<1>0. i.count \in Nat \ {0} BY IntentAssumption
<1>1. CASE o = [st |-> "rejected", rem |-> 0, says |-> Rejected]
  BY <1>0, <1>1 DEF Rejected
<1>2. CASE \E r \in 0..i.count, s \in {Unreported} \cup 0..i.count :
             o = [st |-> IF r = 0 THEN "executed" ELSE "resting", rem |-> r, says |-> s]
  <2>1. PICK r \in 0..i.count, s \in {Unreported} \cup 0..i.count :
          o = [st |-> IF r = 0 THEN "executed" ELSE "resting", rem |-> r, says |-> s]
    BY <1>2
  <2>2. o.st = (IF r = 0 THEN "executed" ELSE "resting") /\ o.rem = r /\ o.says = s
    BY <2>1
  <2>3. s \in {Unreported, r} /\ s \notin 1..(i.count - 1)
    BY <1>0, <2>2 DEF Possible, Rejected, Unreported
  <2> QED BY <1>0, <2>2, <2>3 DEF Unreported
<1> QED BY <1>1, <1>2 DEF Possible, Outcomes

LEMMA ExchCreateStep ==
  ASSUME IInv, PartialFillOnCreate = FALSE, ExchCreate PROVE IInv'
<1> USE DEF IInv, mgrVars, journal
<1>1. PICK out \in [Requested -> UNION {Outcomes(i) : i \in job.wanted}] :
       /\ \A id \in Requested : Possible(batch[id], out[id])
       /\ exch' = [id \in Ids |->
                     IF id \in Requested
                     THEN [st |-> out[id].st, open |-> out[id].rem, rem |-> out[id].rem]
                     ELSE exch[id]]
       /\ OnWire(UNION {TradesUpTo(id, batch[id].count - out[id].rem) :
                          id \in {x \in Requested : out[x].st # "rejected"}})
       /\ reply' = [id \in Requested |-> out[id].says]
  BY DEF ExchCreate
<1> DEFINE new == UNION {TradesUpTo(id, batch[id].count - out[id].rem) :
                           id \in {x \in Requested : out[x].st # "rejected"}}
<1>0. /\ pc = "awaitCreate" /\ rpc = "sent" /\ rpc' = "ok" /\ Creating
      /\ Requested \subseteq Ids /\ batch \in [Requested -> Intents]
      /\ exch \in [Ids -> [st : Status, open : Nat, rem : Nat]]
      /\ UNCHANGED <<intent, lost, mgrVars, pc, job, batch, now, session>>
  BY DEF ExchCreate, TypeOK, ExchTypes, TaskTypes, Creating
<1>2. ASSUME NEW id \in Requested
      PROVE  /\ exch'[id].st \in {"rejected", "executed", "resting"}
             /\ exch'[id].open = exch'[id].rem /\ exch'[id].rem = out[id].rem
             /\ exch'[id].rem \in Nat /\ exch'[id].rem <= batch[id].count
             /\ exch'[id].st = out[id].st /\ reply'[id] = out[id].says
             /\ exch'[id].st = "resting" => exch'[id].rem >= 1
             /\ exch'[id].st = "rejected" => reply'[id] = Rejected
             /\ exch'[id].st # "rejected" =>
                  /\ reply'[id] \in {Unreported, 0, batch[id].count}
                  /\ reply'[id] # Unreported => reply'[id] = exch'[id].open
             /\ reply'[id] \in Int
             /\ batch[id] \in Intents /\ batch[id].count \in Nat
             /\ intent[id] = batch[id] /\ exch[id].st = "sent" /\ id < nextId
             /\ id \notin Tracked /\ id \notin lost
  <2>1. batch[id] \in Intents /\ batch[id].count \in Nat BY <1>0, IntentAssumption
  <2>2. /\ exch'[id] = [st |-> out[id].st, open |-> out[id].rem, rem |-> out[id].rem]
        /\ reply'[id] = out[id].says /\ Possible(batch[id], out[id])
    BY <1>0, <1>1
  <2>3. intent[id] = batch[id] /\ exch[id].st = "sent" /\ id < nextId /\ id \notin Tracked
        /\ id \notin lost
    BY <1>0 DEF BatchOK
  <2>4. /\ out[id].st \in {"rejected", "executed", "resting"}
        /\ out[id].rem \in Nat /\ out[id].rem <= batch[id].count /\ out[id].says \in Int
        /\ out[id].st = "resting" => out[id].rem >= 1
        /\ out[id].st = "rejected" => out[id].says = Rejected
        /\ out[id].st # "rejected" => /\ out[id].says \in {Unreported, 0, batch[id].count}
                                      /\ out[id].says # Unreported => out[id].says = out[id].rem
    BY <2>1, <2>2, OutcomeFacts
  <2>5. /\ exch'[id].st = out[id].st /\ exch'[id].open = out[id].rem
        /\ exch'[id].rem = out[id].rem
    BY <2>2
  <2> QED BY <2>1, <2>2, <2>3, <2>4, <2>5
<1>3. \A id \in Ids \ Requested : exch'[id] = exch[id] BY <1>1
<1>4. \A id \in Ids : /\ Accepted(id) => id \notin Requested /\ Accepted(id)'
                      /\ Terminal(id) => id \notin Requested /\ Terminal(id)'
                      /\ id \notin Requested => /\ Resting(id)' = Resting(id)
                                               /\ Accepted(id)' = Accepted(id)
                                               /\ FilledOf(id)' = FilledOf(id)
  BY <1>0, <1>2, <1>3 DEF Accepted, Terminal, Resting, FilledOf
<1>5. \A t \in new : t \in Trades /\ t[1] \in Requested /\ Happened(t)'
  <2> SUFFICES ASSUME NEW id \in Requested, out[id].st # "rejected",
                      NEW k \in 1..(batch[id].count - out[id].rem)
               PROVE <<id, k>> \in Trades /\ Accepted(id)' /\ k <= FilledOf(id)'
    BY <1>0 DEF TradesUpTo, Happened
  <2>1. FilledOf(id)' = batch[id].count - out[id].rem BY <1>0, <1>2 DEF FilledOf
  <2>2. Accepted(id)' BY <1>2 DEF Accepted
  <2>3. <<id, k>> \in Trades
    <3>1. k \in Nat /\ k >= 1 BY <1>2
    <3> QED BY <1>0, <3>1 DEF Trades
  <2> QED BY <1>2, <2>1, <2>2, <2>3
<1>6. wire' \subseteq wire \cup new /\ wire \subseteq wire' BY <1>1 DEF OnWire
<1> HIDE DEF new
<1>7. TypeOK'
  <2>1. exch' \in [Ids -> [st : Status, open : Nat, rem : Nat]]
    <3>1. \A id \in Ids : exch'[id] \in [st : Status, open : Nat, rem : Nat]
      <4> SUFFICES ASSUME NEW id \in Ids
                   PROVE exch'[id] \in [st : Status, open : Nat, rem : Nat]
        OBVIOUS
      <4>1. CASE id \in Requested
        <5>1. exch'[id] = [st |-> out[id].st, open |-> out[id].rem, rem |-> out[id].rem]
          BY <1>1, <4>1
        <5>2. out[id].st \in Status /\ out[id].rem \in Nat BY <1>2, <4>1 DEF Status
        <5> QED BY <5>1, <5>2
      <4>2. CASE id \notin Requested BY <1>0, <1>3, <4>2
      <4> QED BY <4>1, <4>2
    <3>2. exch' = [id \in Ids |-> exch'[id]] BY <1>1
    <3> QED BY <3>1, <3>2
  <2>2. wire' \subseteq Trades BY <1>5, <1>6 DEF TypeOK, ExchTypes
  <2>3. ExchTypes' BY <1>0, <2>1, <2>2 DEF TypeOK, ExchTypes
  <2>4. MgrTypes' BY <1>0 DEF TypeOK, MgrTypes, Tracked
  <2>5. DOMAIN reply' = Requested /\ reply' \in [Requested -> Int] BY <1>1, <1>2
  <2>6. raised' = raised /\ shutErr' = shutErr BY DEF ExchCreate
  <2>7. TaskTypes' BY <1>0, <2>5, <2>6 DEF TypeOK, TaskTypes, Requested
  <2> QED BY <1>0, <2>3, <2>4, <2>7 DEF TypeOK
<1>8. ExchangeOK'
  <2> SUFFICES ASSUME NEW id \in Ids
               PROVE  /\ Accepted(id)' => /\ intent[id] \in Intents
                                          /\ exch'[id].rem <= exch'[id].open
                                          /\ exch'[id].open <= intent[id].count
                      /\ Resting(id)' => exch'[id].rem >= 1
                      /\ exch'[id].st = "sent" => \/ id \in lost /\ intent[id] \in Intents
                                                  \/ id \in Requested
                      /\ id >= nextId => exch'[id].st = "none"
    BY <1>0 DEF ExchangeOK, Requested
  <2>1. CASE id \in Requested
    <3>1. id \in Nat /\ nextId \in Nat BY DEF Ids, TypeOK, MgrTypes
    <3> QED BY <1>2, <2>1, <3>1 DEF Accepted, Resting
  <2>2. CASE id \notin Requested
    BY <1>3, <2>2 DEF ExchangeOK, Accepted, Resting
  <2> QED BY <2>1, <2>2
<1>9. FeedOK'
  <2>1. \A t \in Trades : Happened(t) => Happened(t)' BY <1>4 DEF Happened, Trades
  <2>2. DOMAIN filledLog \subseteq Trades /\ wire \subseteq Trades
    BY DEF TypeOK, MgrTypes, ExchTypes
  <2>3. \A t \in new : t \notin DOMAIN filledLog
    BY <1>0, <1>5, <1>4 DEF FeedOK, Happened
  <2>4. filledLog' = filledLog /\ seen' = seen /\ pc' = pc /\ Requested' = Requested
    BY <1>0 DEF Requested
  <2>5. \A t \in wire' : Happened(t)' BY <1>5, <1>6, <2>1, <2>2 DEF FeedOK
  <2>6. \A t \in DOMAIN filledLog : Happened(t)' BY <2>1, <2>2 DEF FeedOK
  <2>7. wire' \cap DOMAIN filledLog \subseteq seen BY <1>6, <2>3 DEF FeedOK
  <2> QED BY <1>6, <2>4, <2>5, <2>6, <2>7 DEF FeedOK
<1>10. TrackedOK'
  <2>1. \A id \in Tracked : id \in Ids /\ id \notin Requested
    BY <1>2 DEF TypeOK, MgrTypes
  <2> QED BY <1>0, <1>3, <1>4, <2>1 DEF TrackedOK, Tracked, SeenOf
<1>11. BatchOK'
  BY <1>0 DEF BatchOK, Creating, Requested, Tracked, Distinct
<1>12. ReplyOK'
  BY <1>0, <1>1, <1>2 DEF ReplyOK, Requested, Accepted
<1>13. CancelOK'
  BY <1>0, <1>4 DEF CancelOK, TypeOK, TaskTypes, JobType, MgrTypes
<1>14. CoverOK'
  <2>1. job.ctx = "create" BY <1>0 DEF StageOK
  <2> QED BY <1>0, <1>4, <2>1
          DEF CoverOK, InLoop, InSweep, Sweeping, Creating, Known, Tracked, Requested
<1>15. StageOK' BY <1>0 DEF StageOK, Sweeping, Creating
<1>16. OneRestingOrderPerQuote'
  <2> SUFFICES ASSUME NEW a \in Ids, NEW b \in Ids, Resting(a)', Resting(b)',
                      Known(a), Known(b), intent[a].quote = intent[b].quote
               PROVE a = b
    BY <1>0 DEF OneRestingOrderPerQuote, Known
  <2>1. ASSUME NEW x \in Ids \ Requested, Resting(x)', Known(x)
        PROVE Resting(x) /\ x \in Tracked /\ orders[x].quote = intent[x].quote
    BY <1>0, <1>4, <2>1 DEF CoverOK, InLoop, TrackedOK
  <2>2. CASE a \in Requested /\ b \in Requested
    BY <1>0, <1>2, <2>2 DEF BatchOK
  <2>3. CASE a \notin Requested /\ b \notin Requested
    BY <2>1, <2>3 DEF OneRestingOrderPerQuote
  <2>4. ASSUME NEW x \in Requested, NEW y \in Ids \ Requested, Resting(y)', Known(y)
        PROVE intent[x].quote # intent[y].quote
    BY <1>0, <1>2, <2>1, <2>4 DEF BatchOK
  <2> QED BY <2>2, <2>3, <2>4
<1> QED BY <1>7, <1>8, <1>9, <1>10, <1>11, <1>12, <1>13, <1>14, <1>15, <1>16

-----------------------------------------------------------------------------
(* Feed messages.                                                          *)
LEMMA SyncRemainingFacts ==
  ASSUME NEW o \in LiveOrderType, NEW n \in Nat, o.fm <= n, o.uf <= n
  PROVE  /\ SyncRemaining(o) \in LiveOrderType
         /\ SyncRemaining(o).rem >= o.initial - n
         /\ SyncRemaining(o).quote = o.quote /\ SyncRemaining(o).ticker = o.ticker
         /\ SyncRemaining(o).initial = o.initial
         /\ SyncRemaining(o).fm = o.fm /\ SyncRemaining(o).uf = o.uf
<1> DEFINE filled == Smaller(o.initial, Larger(o.fm, o.uf))
           left == Larger(0, o.initial - filled)
<1>1. o.initial \in Nat /\ o.fm \in Nat /\ o.uf \in Nat BY DEF LiveOrderType
<1>2. filled \in Int /\ filled <= n BY <1>1 DEF Smaller, Larger
<1>3. left \in Nat /\ left >= o.initial - n BY <1>1, <1>2 DEF Larger
<1>4. SyncRemaining(o) = [o EXCEPT !.rem = left] BY DEF SyncRemaining
<1> HIDE DEF left
<1> QED BY <1>3, <1>4 DEF LiveOrderType

LEMMA StoreFacts ==
  ASSUME NEW id \in Tracked, NEW o \in LiveOrderType, orders \in [Tracked -> LiveOrderType],
         Store(id, o)
  PROVE  /\ Tracked' \subseteq Tracked /\ Tracked \ Tracked' \subseteq {id}
         /\ id \notin Tracked' => o.rem <= 0
         /\ orders' \in [Tracked' -> LiveOrderType]
         /\ \A x \in Tracked' \ {id} : orders'[x] = orders[x]
         /\ id \in Tracked' => orders'[id] = o
<1>1. CASE o.rem <= 0
  <2>1. orders' = [x \in Tracked \ {id} |-> orders[x]] BY <1>1 DEF Store, Untrack
  <2>2. Tracked' = Tracked \ {id} BY <2>1 DEF Tracked
  <2> QED BY <1>1, <2>1, <2>2
<1>2. CASE ~(o.rem <= 0)
  <2>1. orders' = [orders EXCEPT ![id] = o] BY <1>2 DEF Store
  <2>2. Tracked' = Tracked BY <2>1 DEF Tracked
  <2> QED BY <2>1, <2>2
<1> QED BY <1>1, <1>2

(* What a message that only touches tracked orders leaves intact.          *)
LEMMA MessageStep ==
  ASSUME IInv, pc = "idle",
         UNCHANGED <<exchVars, nextId, lastSync, rejUntil, canceled, placedLog, cancelledLog,
                     taskVars, now, session>>,
         Tracked' \subseteq Tracked, orders' \in [Tracked' -> LiveOrderType],
         \A x \in Tracked \ Tracked' : ~Resting(x),
         seen' \subseteq Trades,
         DOMAIN filledLog' \subseteq Trades, filledLog' \in [DOMAIN filledLog' -> Nat]
  PROVE  /\ TypeOK' /\ ExchangeOK' /\ BatchOK' /\ ReplyOK' /\ CancelOK' /\ CoverOK'
         /\ StageOK' /\ OneRestingOrderPerQuote'
<1> USE DEF IInv, exchVars, taskVars
<1>1. TypeOK'
  <2>1. ExchTypes' BY DEF TypeOK, ExchTypes
  <2>2. MgrTypes' BY DEF TypeOK, MgrTypes
  <2>3. TaskTypes' BY DEF TypeOK, TaskTypes, Requested
  <2> QED BY <2>1, <2>2, <2>3 DEF TypeOK
<1>2. ExchangeOK' BY DEF ExchangeOK, Accepted, Resting, Requested
<1>3. BatchOK' BY DEF BatchOK, Creating, Distinct, Requested
<1>4. ReplyOK' BY DEF ReplyOK
<1>5. CancelOK' BY DEF CancelOK, Accepted, Terminal
<1>6. CoverOK'
  BY DEF CoverOK, InLoop, InSweep, Sweeping, Creating, Resting, Known, StageOK
<1>7. StageOK' BY DEF StageOK, Sweeping, Creating
<1>8. OneRestingOrderPerQuote' BY DEF OneRestingOrderPerQuote, Resting, Known
<1> QED BY <1>1, <1>2, <1>3, <1>4, <1>5, <1>6, <1>7, <1>8

LEMMA BumpNew ==
  ASSUME NEW f, f \in [DOMAIN f -> Nat], NEW t
  PROVE  /\ DOMAIN Bump(f, t) = DOMAIN f \cup {t}
         /\ Bump(f, t) \in [DOMAIN f \cup {t} -> Nat]
         /\ t \notin DOMAIN f => Bump(f, t)[t] = 1
         /\ \A x \in DOMAIN f \ {t} : Bump(f, t)[x] = f[x]
  BY DEF Bump

(* What the message's own order is like, by what happened to it.           *)
LEMMA TrackedFacts ==
  ASSUME IInv, NEW id \in Tracked
  PROVE  /\ id \in Ids /\ Accepted(id) /\ orders[id] \in LiveOrderType
         /\ orders[id].initial = intent[id].count /\ intent[id].count \in Nat
         /\ exch[id].rem \in Nat /\ exch[id].open \in Nat
         /\ FilledOf(id) \in Nat /\ FilledOf(id) = intent[id].count - exch[id].rem
         /\ orders[id].fm \in Nat /\ orders[id].fm <= FilledOf(id)
         /\ orders[id].uf \in Nat /\ orders[id].uf <= FilledOf(id)
<1> USE DEF IInv
<1>1. id \in Ids /\ Accepted(id) /\ orders[id] \in LiveOrderType
  BY DEF TypeOK, MgrTypes, TrackedOK
<1>2. /\ FilledOf(id) \in Nat /\ Cardinality(SeenOf(id)) \in Nat
      /\ Cardinality(SeenOf(id)) <= FilledOf(id)
  BY <1>1, SeenBound DEF TypeOK
<1>3. intent[id].count \in Nat /\ exch[id].rem \in Nat /\ exch[id].open \in Nat
  BY <1>1, IntentAssumption DEF ExchangeOK, TypeOK, ExchTypes
<1>4. orders[id].uf \in Nat BY <1>1 DEF LiveOrderType
<1> QED BY <1>1, <1>2, <1>3, <1>4 DEF TrackedOK, FilledOf

LEMMA HandleFillStep ==
  ASSUME IInv, NEW t \in wire, HandleFill(t) PROVE IInv'
<1> USE DEF IInv, journal
<1>0. /\ pc = "idle" /\ t \notin seen /\ seen' = seen \cup {t} /\ t \in Trades
      /\ filledLog' = Bump(filledLog, t) /\ wire \subseteq Trades /\ seen \subseteq Trades
      /\ UNCHANGED <<exchVars, nextId, lastSync, rejUntil, canceled, placedLog, cancelledLog,
                     taskVars, now, session>>
      /\ orders \in [Tracked -> LiveOrderType] /\ Tracked \subseteq Ids
      /\ DOMAIN filledLog \subseteq Trades /\ filledLog \in [DOMAIN filledLog -> Nat]
  BY DEF HandleFill, TypeOK, ExchTypes, MgrTypes
<1> DEFINE id == t[1]
<1>1. id \in Ids /\ Happened(t) BY <1>0 DEF Trades, FeedOK
<1>2. \A x \in Ids : x # id => SeenOf(x)' = SeenOf(x) BY <1>0 DEF SeenOf
<1>3. ASSUME id \in Tracked
      PROVE  /\ IsFiniteSet(SeenOf(id)) /\ t \notin SeenOf(id)
             /\ SeenOf(id)' = SeenOf(id) \cup {t}
             /\ Cardinality(SeenOf(id)') = Cardinality(SeenOf(id)) + 1
             /\ Cardinality(SeenOf(id)') <= FilledOf(id)
  <2>1. SeenOf(id)' = SeenOf(id) \cup {t} /\ t \notin SeenOf(id) BY <1>0 DEF SeenOf
  <2>2. IsFiniteSet(SeenOf(id)) /\ FilledOf(id) \in Nat
    BY <1>1, <1>3, SeenBound, TrackedFacts DEF TypeOK
  <2>3. SeenOf(id)' \in SUBSET TradesUpTo(id, FilledOf(id))
    <3> SUFFICES ASSUME NEW x \in SeenOf(id)' PROVE x \in TradesUpTo(id, FilledOf(id))
      OBVIOUS
    <3>1. x \in wire /\ x \in Ids \X Nat /\ x[2] >= 1 /\ x[1] = id
      BY <1>0, <2>1 DEF FeedOK, SeenOf, Trades
    <3>2. x = <<id, x[2]>> /\ x[2] \in 1..FilledOf(id)
      BY <2>2, <3>1 DEF FeedOK, Happened
    <3> QED BY <3>2 DEF TradesUpTo
  <2>4. Cardinality(SeenOf(id)') <= FilledOf(id) BY <2>2, <2>3, TradesBound
  <2>5. Cardinality(SeenOf(id)') = Cardinality(SeenOf(id)) + 1
    BY <2>1, <2>2, FS_AddElement
  <2> QED BY <2>1, <2>2, <2>4, <2>5
<1> DEFINE o == CountFill(orders[id])
<1>4. ASSUME id \in Tracked
      PROVE  /\ o \in LiveOrderType /\ o.rem >= exch[id].rem
             /\ o.quote = orders[id].quote /\ o.ticker = orders[id].ticker
             /\ o.initial = orders[id].initial
             /\ o.fm = orders[id].fm + 1 /\ o.uf = orders[id].uf
             /\ Store(id, o)
  <2>1. /\ orders[id] \in LiveOrderType /\ orders[id].fm \in Nat /\ FilledOf(id) \in Nat
        /\ orders[id].initial = intent[id].count /\ orders[id].uf <= FilledOf(id)
        /\ orders[id].initial - FilledOf(id) = exch[id].rem
    BY <1>4, TrackedFacts DEF FilledOf
  <2>2. orders[id].fm + 1 <= FilledOf(id)
    BY <1>3, <1>4, <2>1 DEF TrackedOK
  <2> DEFINE c == [orders[id] EXCEPT !.fm = @ + 1]
  <2>3. /\ c \in LiveOrderType /\ c.fm = orders[id].fm + 1 /\ c.uf = orders[id].uf
        /\ c.quote = orders[id].quote /\ c.ticker = orders[id].ticker
        /\ c.initial = orders[id].initial
    BY <2>1 DEF LiveOrderType
  <2>4. o = SyncRemaining(c) BY DEF CountFill
  <2>5. Store(id, o) BY <1>4 DEF HandleFill
  <2> HIDE DEF o, c, IInv
  <2> QED BY <2>1, <2>2, <2>3, <2>4, <2>5, SyncRemainingFacts
<1>5. /\ Tracked' \subseteq Tracked /\ orders' \in [Tracked' -> LiveOrderType]
      /\ \A x \in Tracked' \ {id} : orders'[x] = orders[x]
      /\ id \in Tracked' => orders'[id] = o
      /\ \A x \in Tracked \ Tracked' : ~Resting(x)
  <2>1. CASE id \in Tracked
    <3>1. /\ Tracked' \subseteq Tracked /\ orders' \in [Tracked' -> LiveOrderType]
          /\ \A x \in Tracked' \ {id} : orders'[x] = orders[x]
          /\ id \in Tracked' => orders'[id] = o
          /\ Tracked \ Tracked' \subseteq {id} /\ (id \notin Tracked' => o.rem <= 0)
      <4> HIDE DEF o, id
      <4> QED BY <1>0, <1>4, <2>1, StoreFacts
    <3>2. o.rem <= 0 => ~Resting(id)
      <4>1. o.rem \in Int /\ exch[id].rem \in Nat /\ o.rem >= exch[id].rem
        BY <1>4, <2>1, TrackedFacts DEF LiveOrderType
      <4> HIDE DEF o
      <4> QED BY <1>1, <4>1 DEF ExchangeOK
    <3> QED BY <3>1, <3>2
  <2>2. CASE id \notin Tracked
    <3>1. orders' = orders BY <2>2 DEF HandleFill
    <3> QED BY <1>0, <2>2, <3>1 DEF Tracked
  <2> QED BY <2>1, <2>2
<1>6. TrackedOK'
  <2> SUFFICES ASSUME NEW x \in Tracked'
      PROVE /\ Accepted(x) /\ orders'[x].quote = intent[x].quote
            /\ orders'[x].ticker = intent[x].ticker /\ orders'[x].initial = intent[x].count
            /\ orders'[x].fm = Cardinality(SeenOf(x)') /\ orders'[x].uf <= FilledOf(x)
            /\ orders'[x].rem >= exch[x].rem
    BY <1>0 DEF TrackedOK, exchVars, Accepted, FilledOf
  <2>1. CASE x = id BY <1>3, <1>4, <1>5, <2>1 DEF TrackedOK
  <2>2. CASE x # id BY <1>0, <1>2, <1>5, <2>2 DEF TrackedOK
  <2> QED BY <2>1, <2>2
<1>7. /\ seen' \subseteq Trades /\ DOMAIN filledLog' \subseteq Trades
      /\ filledLog' \in [DOMAIN filledLog' -> Nat]
      /\ DOMAIN filledLog' = DOMAIN filledLog \cup {t}
  <2>1. /\ DOMAIN Bump(filledLog, t) = DOMAIN filledLog \cup {t}
        /\ Bump(filledLog, t) \in [DOMAIN filledLog \cup {t} -> Nat]
    BY <1>0, BumpNew
  <2> HIDE DEF IInv
  <2> QED BY ONLY <1>0, <2>1
<1>8. FeedOK'
  <2>1. /\ wire' = wire /\ pc' = pc
        /\ \A x : Happened(x)' = Happened(x)
    BY <1>0 DEF exchVars, taskVars, Happened, Accepted, FilledOf
  <2> QED BY <1>0, <1>1, <1>7, <2>1 DEF FeedOK
<1> QED BY <1>0, <1>5, <1>6, <1>7, <1>8, MessageStep

LEMMA HandleUserOrderStep ==
  ASSUME IInv, NEW id \in Ids, HandleUserOrder(id) PROVE IInv'
<1> USE DEF IInv, journal
<1>0. /\ pc = "idle" /\ id \in Tracked /\ UNCHANGED <<seen, filledLog>>
      /\ UNCHANGED <<exchVars, nextId, lastSync, rejUntil, canceled, placedLog, cancelledLog,
                     taskVars, now, session>>
      /\ orders \in [Tracked -> LiveOrderType] /\ Tracked \subseteq Ids
      /\ seen \subseteq Trades
      /\ DOMAIN filledLog \subseteq Trades /\ filledLog \in [DOMAIN filledLog -> Nat]
  BY DEF HandleUserOrder, TypeOK, MgrTypes
<1>1. FeedOK'
  BY <1>0 DEF FeedOK, exchVars, taskVars, Happened, Accepted, FilledOf
<1>2. CASE Terminal(id) /\ orders' = Untrack({id})
  <2>1. /\ Tracked' = Tracked \ {id} /\ orders' \in [Tracked' -> LiveOrderType]
        /\ \A x \in Tracked' : orders'[x] = orders[x]
    BY <1>0, <1>2 DEF Untrack, Tracked
  <2>2. \A x \in Tracked \ Tracked' : ~Resting(x) BY <1>2, <2>1 DEF Terminal, Resting
  <2>3. TrackedOK'
    BY <1>0, <2>1 DEF TrackedOK, exchVars, Accepted, FilledOf, SeenOf
  <2> QED BY <1>0, <1>1, <2>1, <2>2, <2>3, MessageStep
<1>3. CASE \E r \in Snapshots(id), shape \in {"remaining", "fills"} :
             Store(id, ApplySnapshot(orders[id], r, shape))
  <2>1. PICK r \in Snapshots(id), shape \in {"remaining", "fills"} :
          Store(id, ApplySnapshot(orders[id], r, shape))
    BY <1>3
  <2> DEFINE old == orders[id]
             filled == old.initial - r
             c == [old EXCEPT !.uf = Larger(@, filled)]
             o == ApplySnapshot(old, r, shape)
  <2>2. /\ old \in LiveOrderType /\ old.initial = intent[id].count
        /\ exch[id].rem \in Nat /\ exch[id].open \in Nat
        /\ FilledOf(id) \in Nat /\ old.initial \in Nat
        /\ old.initial - FilledOf(id) = exch[id].rem
        /\ old.fm \in Nat /\ old.fm <= FilledOf(id)
        /\ old.uf \in Nat /\ old.uf <= FilledOf(id)
    BY <1>0, TrackedFacts DEF FilledOf
  <2>3. r \in Nat /\ r >= exch[id].rem BY <2>2 DEF Snapshots, Larger
  <2>4. Larger(old.uf, filled) \in Nat /\ Larger(old.uf, filled) <= FilledOf(id)
    BY <2>2, <2>3 DEF Larger
  <2> HIDE DEF old, filled
  <2>5. /\ c \in LiveOrderType /\ c.fm = old.fm /\ c.uf <= FilledOf(id)
        /\ c.quote = old.quote /\ c.ticker = old.ticker /\ c.initial = old.initial
    BY <2>2, <2>4 DEF LiveOrderType
  <2>6. o = IF shape = "fills" THEN SyncRemaining(c) ELSE [c EXCEPT !.rem = r]
    BY DEF ApplySnapshot, filled
  <2> HIDE DEF c, o
  <2>7. /\ o \in LiveOrderType /\ o.rem >= exch[id].rem /\ o.fm = old.fm
        /\ o.uf <= FilledOf(id) /\ o.quote = old.quote /\ o.ticker = old.ticker
        /\ o.initial = old.initial
    <3>1. CASE shape = "fills"
      BY <2>2, <2>5, <2>6, <3>1, SyncRemainingFacts
    <3>2. CASE shape # "fills"
      <4>1. o = [c EXCEPT !.rem = r] BY <2>6, <3>2
      <4> QED BY <2>3, <2>5, <4>1 DEF LiveOrderType
    <3> QED BY <3>1, <3>2
  <2>8. Store(id, o) BY <2>1 DEF o, old
  <2>9. /\ Tracked' \subseteq Tracked /\ orders' \in [Tracked' -> LiveOrderType]
        /\ \A x \in Tracked' \ {id} : orders'[x] = orders[x]
        /\ id \in Tracked' => orders'[id] = o
        /\ Tracked \ Tracked' \subseteq {id} /\ (id \notin Tracked' => o.rem <= 0)
    BY <1>0, <2>7, <2>8, StoreFacts
  <2>10. \A x \in Tracked \ Tracked' : ~Resting(x)
    <3>1. o.rem \in Int BY <2>7 DEF LiveOrderType
    <3> QED BY <2>2, <2>7, <2>9, <3>1 DEF ExchangeOK
  <2>11. TrackedOK'
    <3> SUFFICES ASSUME NEW x \in Tracked'
        PROVE /\ Accepted(x) /\ orders'[x].quote = intent[x].quote
              /\ orders'[x].ticker = intent[x].ticker /\ orders'[x].initial = intent[x].count
              /\ orders'[x].fm = Cardinality(SeenOf(x)) /\ orders'[x].uf <= FilledOf(x)
              /\ orders'[x].rem >= exch[x].rem
      BY <1>0 DEF TrackedOK, exchVars, Accepted, FilledOf, SeenOf
    <3>1. CASE x = id BY <1>0, <2>7, <2>9, <3>1 DEF TrackedOK, old
    <3>2. CASE x # id BY <1>0, <2>9, <3>2 DEF TrackedOK
    <3> QED BY <3>1, <3>2
  <2> QED BY <1>0, <1>1, <2>9, <2>10, <2>11, MessageStep
<1> QED BY <1>2, <1>3 DEF HandleUserOrder

-----------------------------------------------------------------------------
(* Crashes, restarts and the clock.                                        *)
LEMMA CrashStep == ASSUME IInv, Crash PROVE IInv'
<1> USE DEF IInv, mgrVars, journal
<1>0. /\ pc' = "crashed" /\ job' = IdleJob /\ CallDone
      /\ batch' = [id \in {} |-> NoIntent]
      /\ lost' \subseteq lost \cup Requested /\ lost \subseteq lost'
      /\ pc = "awaitCreate" => lost' = lost \cup Requested
      /\ pc # "awaitCreate" => lost' = lost
      /\ Requested \subseteq Ids /\ lost \subseteq Ids
  BY DEF Crash, TypeOK, TaskTypes, ExchTypes
<1>1. /\ job' \in JobType /\ job'.ctx = "idle" /\ job'.todo = {} /\ job'.cur = 0
      /\ job'.wanted = {} /\ job'.replace = {}
  BY <1>0, JobFields DEF IdleJob, Contexts
<1>2. TypeOK'
  <2>1. ExchTypes' BY <1>0 DEF Crash, TypeOK, ExchTypes
  <2>2. MgrTypes' BY DEF Crash, TypeOK, MgrTypes, Tracked
  <2>3. TaskTypes' BY <1>0, <1>1 DEF Crash, CallDone, TypeOK, TaskTypes, Requested
  <2> QED BY <2>1, <2>2, <2>3 DEF Crash, TypeOK
<1>3. ExchangeOK'
  <2>1. pc = "awaitCreate" => \A id \in Requested : intent[id] \in Intents
    BY <1>0 DEF BatchOK, TypeOK, TaskTypes, Creating
  <2>2. \A id \in Ids : exch[id].st = "sent" => id \in lost' /\ intent[id] \in Intents
    BY <1>0, <2>1 DEF ExchangeOK
  <2> QED BY <2>2 DEF Crash, ExchangeOK, Accepted, Resting
<1>4. FeedOK' BY <1>0 DEF Crash, FeedOK, Happened, Accepted, FilledOf
<1>5. TrackedOK' BY DEF Crash, TrackedOK, Tracked, Accepted, SeenOf, FilledOf
<1>6. BatchOK'
  <2>1. \A id \in lost' : id < nextId BY <1>0 DEF BatchOK, Creating
  <2> QED BY <1>0, <1>1, <2>1 DEF Crash, BatchOK, Creating, Requested, Distinct
<1>7. ReplyOK' BY <1>0 DEF ReplyOK
<1>8. CancelOK' BY <1>0, <1>1 DEF Crash, CancelOK, Accepted, Terminal
<1>9. CoverOK' BY <1>0, <1>1 DEF CoverOK, InLoop, InSweep, Sweeping, Creating
<1>10. StageOK' BY <1>0, <1>1 DEF StageOK, Sweeping, Creating
<1>11. OneRestingOrderPerQuote'
  BY <1>0 DEF Crash, OneRestingOrderPerQuote, Resting, Known
<1> QED BY <1>2, <1>3, <1>4, <1>5, <1>6, <1>7, <1>8, <1>9, <1>10, <1>11

LEMMA StartSessionStep == ASSUME IInv, StartSession PROVE IInv'
<1> USE DEF IInv, journal
<1>0. /\ pc \in {"closed", "crashed"} /\ pc' = "list" /\ ~Creating
      /\ wire' = {} /\ canceled' = {} /\ seen' = {} /\ Tracked' = {}
      /\ UNCHANGED <<exch, intent, lost, nextId, journal, batch, rpc, reply, now>>
  BY DEF StartSession, Untrack, Tracked, Creating
<1>1. /\ job' \in JobType /\ job'.ctx = "startup" /\ job'.todo = {} /\ job'.replace = {}
      /\ job'.wanted = {} /\ job'.tickers = Tickers
  BY DEF StartSession, StartJob, Job, JobType, Contexts
<1>2. TypeOK'
  <2>1. ExchTypes' BY <1>0 DEF TypeOK, ExchTypes
  <2>2. MgrTypes'
    BY <1>0 DEF StartSession, Untrack, TypeOK, MgrTypes, Tracked, Never
  <2>3. TaskTypes' BY <1>0, <1>1 DEF StartSession, TypeOK, TaskTypes, Requested
  <2>4. now' \in Nat /\ session' \in Nat BY DEF StartSession, TypeOK
  <2> QED BY <2>1, <2>2, <2>3, <2>4 DEF TypeOK
<1>3. ExchangeOK' BY <1>0 DEF ExchangeOK, Accepted, Resting, Requested
<1>4. FeedOK' BY <1>0 DEF FeedOK, Happened, Accepted, FilledOf
<1>5. TrackedOK' BY <1>0 DEF TrackedOK
<1>6. BatchOK' BY <1>0, <1>1 DEF BatchOK, Creating, Distinct
<1>7. ReplyOK' BY <1>0 DEF ReplyOK
<1>8. CancelOK' BY <1>0, <1>1 DEF CancelOK, Accepted, Terminal
<1>9. \A id \in Ids : Resting(id) => intent[id].ticker \in Tickers
  BY IntentAssumption DEF ExchangeOK, Resting, Accepted
<1>10. CoverOK'
  BY <1>0, <1>1, <1>9 DEF CoverOK, InLoop, InSweep, Sweeping, Creating, Resting
<1>11. StageOK' BY <1>0, <1>1 DEF StageOK, Sweeping, Creating
<1>12. OneRestingOrderPerQuote'
  BY <1>0 DEF OneRestingOrderPerQuote, Resting, Known
<1> QED BY <1>2, <1>3, <1>4, <1>5, <1>6, <1>7, <1>8, <1>10, <1>11, <1>12

(* Nothing but the clock (or nothing at all) changes.                      *)
LEMMA TickStep ==
  ASSUME IInv, UNCHANGED <<exchVars, mgrVars, taskVars, session>>, now' \in Nat PROVE IInv'
<1> USE DEF IInv, exchVars, mgrVars, journal, taskVars
<1>1. TypeOK'
  <2>1. ExchTypes' BY DEF TypeOK, ExchTypes
  <2>2. MgrTypes' BY DEF TypeOK, MgrTypes, Tracked
  <2>3. TaskTypes' BY DEF TypeOK, TaskTypes, Requested
  <2> QED BY <2>1, <2>2, <2>3 DEF TypeOK
<1>2. ExchangeOK' BY DEF ExchangeOK, Accepted, Resting, Requested
<1>3. FeedOK' BY DEF FeedOK, Happened, Accepted, FilledOf, Requested
<1>4. TrackedOK' BY DEF TrackedOK, Tracked, Accepted, SeenOf, FilledOf
<1>5. BatchOK' BY DEF BatchOK, Creating, Requested, Tracked, Distinct
<1>6. ReplyOK' BY DEF ReplyOK, Requested, Accepted
<1>7. CancelOK' BY DEF CancelOK, Accepted, Terminal
<1>8. CoverOK'
  BY DEF CoverOK, InLoop, InSweep, Sweeping, Creating, Resting, Known, Tracked, Requested
<1>9. StageOK' BY DEF StageOK, Sweeping, Creating
<1>10. OneRestingOrderPerQuote' BY DEF OneRestingOrderPerQuote, Resting, Known
<1> QED BY <1>1, <1>2, <1>3, <1>4, <1>5, <1>6, <1>7, <1>8, <1>9, <1>10

-----------------------------------------------------------------------------
LEMMA InitIInv == Init => IInv
<1> SUFFICES ASSUME Init PROVE IInv OBVIOUS
<1> USE DEF Init
<1>1. /\ job \in JobType /\ job.ctx = "startup" /\ job.todo = {} /\ job.replace = {}
      /\ job.wanted = {} /\ job.tickers = Tickers
  BY DEF StartJob, Job, JobType, Contexts
<1>2. Tracked = {} /\ Requested = {} BY DEF Tracked, Requested
<1>3. TypeOK
  <2>1. ExchTypes BY DEF ExchTypes, Status
  <2>2. MgrTypes BY <1>2 DEF MgrTypes, Tracked
  <2>3. TaskTypes BY <1>1, <1>2 DEF TaskTypes, Requested
  <2> QED BY <2>1, <2>2, <2>3 DEF TypeOK
<1>4. \A id \in Ids : exch[id].st = "none" OBVIOUS
<1>5. ExchangeOK BY <1>4 DEF ExchangeOK, Accepted, Resting
<1>6. FeedOK BY DEF FeedOK
<1>7. TrackedOK BY <1>2 DEF TrackedOK
<1>8. BatchOK BY <1>1 DEF BatchOK, Creating, Distinct
<1>9. ReplyOK /\ StageOK BY <1>1 DEF ReplyOK, StageOK, Creating, Sweeping
<1>10. CancelOK BY <1>1 DEF CancelOK
<1>11. CoverOK /\ OneRestingOrderPerQuote
  BY <1>4 DEF CoverOK, OneRestingOrderPerQuote, Resting
<1> QED BY <1>3, <1>5, <1>6, <1>7, <1>8, <1>9, <1>10, <1>11 DEF IInv

LEMMA NextIInv ==
  ASSUME PartialFillOnCreate = FALSE, IInv, [Next]_vars PROVE IInv'
<1>1. CASE Task
  BY <1>1, ListRestingStep, ListFailsStep, ListingDoneStep, SendCancelStep, PassDoneStep,
     CancelReturnsStep, CancelRaisesStep, PlanCreateStep, BalanceShortStep,
     BalanceFailsStep, SendCreateStep, CreateReturnsStep, CreateRaisesStep DEF Task
<1>2. CASE Exchange
  BY <1>2, ExchCancelStep, ExchCreateStep, ExchLateCreateStep, ExchFillStep, ExchExpireStep
     DEF Exchange
<1>3. CASE Feed BY <1>3, HandleFillStep, HandleUserOrderStep DEF Feed
<1>4. CASE Sync BY <1>4, BeginSyncStep DEF Sync
<1>5. CASE LeaveLoop BY <1>5, LeaveLoopStep
<1>6. CASE Crash BY <1>6, CrashStep
<1>7. CASE StartSession BY <1>7, StartSessionStep
<1>8. CASE Tick BY <1>8, TickStep DEF Tick, IInv, TypeOK
<1>9. CASE UNCHANGED vars BY <1>9, TickStep DEF vars, IInv, TypeOK
<1> QED BY <1>1, <1>2, <1>3, <1>4, <1>5, <1>6, <1>7, <1>8, <1>9 DEF Next

(***************************************************************************)
(* The theorems.  All assume that create responses report no partial fill: *)
(* with one, from_intent counts its contracts and handle_fill counts them  *)
(* again, and none of the invariants below survives (run double_count).    *)
(***************************************************************************)

(* The session always knows where each of its orders can be.               *)
THEOREM Invariance ==
  ASSUME PartialFillOnCreate = FALSE
  PROVE  Spec => []IInv
BY InitIInv, NextIInv, PTL DEF Spec

(* Every variable of exchange, manager and task keeps its type.            *)
THEOREM TypeCorrect ==
  ASSUME PartialFillOnCreate = FALSE
  PROVE  Spec => []TypeOK
<1>1. IInv => TypeOK BY DEF IInv
<1> QED BY <1>1, Invariance, PTL

(* sync_quotes never has two live orders of one quote_id at the exchange,  *)
(* whatever fails, crashes or arrives late.                                *)
THEOREM NoDoubleQuote ==
  ASSUME PartialFillOnCreate = FALSE
  PROVE  Spec => []OneRestingOrderPerQuote
<1>1. IInv => OneRestingOrderPerQuote BY DEF IInv
<1> QED BY <1>1, Invariance, PTL

(* No live order escapes the manager while the loop waits for the feed.    *)
THEOREM NothingUntracked ==
  ASSUME PartialFillOnCreate = FALSE
  PROVE  Spec => []RestingIsTracked
<1>1. IInv => RestingIsTracked BY DEF IInv, CoverOK, InLoop, RestingIsTracked
<1> QED BY <1>1, Invariance, PTL

(* handle_fill, handle_user_order and from_intent together never count a   *)
(* fill twice.                                                             *)
THEOREM RemainingIsSound ==
  ASSUME PartialFillOnCreate = FALSE
  PROVE  Spec => []NeverUnderstatesRemaining
<1>1. IInv => NeverUnderstatesRemaining BY DEF IInv, TrackedOK, NeverUnderstatesRemaining
<1> QED BY <1>1, Invariance, PTL

(* What the sweeps skip and the journal calls cancelled is dead.           *)
THEOREM CanceledIsFinal ==
  ASSUME PartialFillOnCreate = FALSE
  PROVE  Spec => []CancelledIsDead
<1>1. IInv => CancelledIsDead BY DEF IInv, CancelOK, CancelledIsDead, Terminal, Resting
<1> QED BY <1>1, Invariance, PTL

(* A run that ends without a cancel error leaves nothing known at rest.    *)
THEOREM ShutdownIsClean ==
  ASSUME PartialFillOnCreate = FALSE
  PROVE  Spec => []CleanShutdownLeavesNothing
<1>1. IInv => CleanShutdownLeavesNothing BY DEF IInv, CoverOK, CleanShutdownLeavesNothing
<1> QED BY <1>1, Invariance, PTL

(* A step keeps the journal's fills unique: only handle_fill and a restart *)
(* touch them, and a trade on this session's feed that is journalled was   *)
(* seen in this session.                                                   *)
LEMMA FillsStep ==
  ASSUME IInv, FillsJournalledOnce, [Next]_vars PROVE FillsJournalledOnce'
<1> USE DEF FillsJournalledOnce
<1>1. CASE UNCHANGED <<seen, filledLog>> BY <1>1
<1>2. ASSUME NEW t \in wire, HandleFill(t) PROVE FillsJournalledOnce'
  <2>1. t \notin seen /\ seen' = seen \cup {t} /\ filledLog' = Bump(filledLog, t)
    BY <1>2 DEF HandleFill
  <2>2. filledLog \in [DOMAIN filledLog -> Nat] BY DEF IInv, TypeOK, MgrTypes
  <2>3. t \notin DOMAIN filledLog BY <2>1 DEF IInv, FeedOK
  <2>4. /\ DOMAIN Bump(filledLog, t) = DOMAIN filledLog \cup {t}
        /\ Bump(filledLog, t)[t] = 1
        /\ \A x \in DOMAIN filledLog \ {t} : Bump(filledLog, t)[x] = filledLog[x]
    BY <2>2, <2>3, BumpNew
  <2> QED BY <2>1, <2>3, <2>4
<1>3. CASE StartSession BY <1>3 DEF StartSession, journal
<1>4. CASE Task
  BY <1>1, <1>4 DEF Task, ListResting, ListFails, ListingDone, SendCancel, PassDone,
     CancelReturns, CancelRaises, PlanCreate, BalanceShort, BalanceFails, SendCreate,
     CreateReturns, CreateRaises, mgrVars, journal
<1>5. CASE Exchange
  BY <1>1, <1>5 DEF Exchange, ExchCancel, ExchCreate, ExchLateCreate, ExchFill, ExchExpire,
     mgrVars, journal
<1>6. CASE Feed
  <2>1. ASSUME NEW id \in Ids, HandleUserOrder(id) PROVE UNCHANGED <<seen, filledLog>>
    BY <2>1 DEF HandleUserOrder, journal
  <2> QED BY <1>1, <1>2, <1>6, <2>1 DEF Feed
<1>7. CASE Sync \/ LeaveLoop \/ Crash \/ Tick
  BY <1>1, <1>7 DEF Sync, BeginSync, LeaveLoop, Crash, Tick, mgrVars, journal
<1>8. CASE UNCHANGED vars BY <1>1, <1>8 DEF vars, mgrVars, journal
<1> QED BY <1>3, <1>4, <1>5, <1>6, <1>7, <1>8 DEF Next

(* The journal holds each trade once, across restarts and redelivery.      *)
THEOREM JournalledOnce ==
  ASSUME PartialFillOnCreate = FALSE
  PROVE  Spec => []FillsJournalledOnce
<1>1. Init => FillsJournalledOnce BY DEF Init, FillsJournalledOnce
<1> QED BY <1>1, FillsStep, Invariance, PTL DEF Spec
=============================================================================
