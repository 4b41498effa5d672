-------------------------- MODULE LiveSession_proofs --------------------------
(***************************************************************************)
(* The order rate of a session is bounded by the limit and one batch, for  *)
(* any limits, number of markets and timing.                               *)
(***************************************************************************)
EXTENDS LiveSession, FiniteSetTheorems, SequenceTheorems, TLAPS

(* A part of an initial interval of the numbers is finite, and a part of   *)
(* that is not larger.                                                     *)
LEMMA SmallSets ==
  ASSUME NEW n \in Int, NEW T \in SUBSET (1..n), NEW S \in SUBSET T
  PROVE  /\ IsFiniteSet(T) /\ IsFiniteSet(S)
         /\ Cardinality(S) \in Nat /\ Cardinality(T) \in Nat
         /\ Cardinality(S) <= Cardinality(T)
<1>1. IsFiniteSet(1..n)
  BY FS_Interval
<1>2. IsFiniteSet(T)
  BY <1>1, FS_Subset
<1>3. IsFiniteSet(S) /\ Cardinality(S) <= Cardinality(T)
  BY <1>2, FS_Subset
<1> QED
  BY <1>2, <1>3, FS_CardinalityType

(* A batch of a orders has a members.                                      *)
LEMMA BatchSize ==
  ASSUME NEW n \in Nat \ {0}, NEW a \in Nat
  PROVE  /\ IsFiniteSet(n..(n + a - 1))
         /\ Cardinality(n..(n + a - 1)) = a
BY FS_Interval

(* A time that TrimOrderTimes keeps at time t.                             *)
InMinute(x, t) == x >= t - Minute

(* Monitor c still remembers the recent orders of r, those of batch aside. *)
KeepsRecent(c, r, batch, t) ==
  \A k \in DOMAIN r.orderTimes \ batch : InMinute(r.orderTimes[k], t) =>
    k \in DOMAIN c.orderTimes /\ c.orderTimes[k] = r.orderTimes[k]

Recorded(c, batch, t) ==
  \A k \in batch : k \in DOMAIN c.orderTimes /\ c.orderTimes[k] = t

FewRemembered(c) ==
  ~c.halted => ~(Cardinality(DOMAIN c.orderTimes) > MaxOrdersPerMinute)

LEMMA TimesAreFunctions ==
  ASSUME NEW n, NEW f, AreTimes(f, n)
  PROVE  DOMAIN f \subseteq 1..n /\ f \in [DOMAIN f -> Nat]
BY DEF AreTimes

LEMMA FunctionsAreTimes ==
  ASSUME NEW n, NEW D \in SUBSET (1..n), NEW f \in [D -> Nat]
  PROVE  AreTimes(f, n)
BY DEF AreTimes

(* Trimming keeps exactly the times of the last minute.                    *)
LEMMA TrimKeeps ==
  ASSUME NEW n, NEW times, AreTimes(times, n), NEW t \in Nat
  PROVE  /\ AreTimes(TrimOrderTimes(times, t), n)
         /\ DOMAIN TrimOrderTimes(times, t) \subseteq DOMAIN times
         /\ \A k \in DOMAIN times : InMinute(times[k], t) =>
              /\ k \in DOMAIN TrimOrderTimes(times, t)
              /\ TrimOrderTimes(times, t)[k] = times[k]
<1> DEFINE K == {k \in DOMAIN times : times[k] >= t - Minute}
<1>1. DOMAIN times \subseteq 1..n /\ times \in [DOMAIN times -> Nat]
  BY TimesAreFunctions
<1>2. TrimOrderTimes(times, t) = [k \in K |-> times[k]]
  BY DEF TrimOrderTimes, InMinute
<1>3. TrimOrderTimes(times, t) \in [K -> Nat] /\ K \in SUBSET (1..n)
  BY <1>1, <1>2
<1> QED
  BY <1>2, <1>3, FunctionsAreTimes DEF InMinute

(* A check keeps the monitor's type, and when its last event was.          *)
LEMMA CheckTypes ==
  ASSUME NEW n, NEW r, IsMonitor(r, n), NEW position, NEW t \in Nat
  PROVE  /\ IsMonitor(Check(r, position, r.peak, t), n)
         /\ Check(r, position, r.peak, t).lastEvent = r.lastEvent
<1> DEFINE b == Breached(r, position, r.peak, t)
           kept == IF MaxOrdersPerMinute = NoLimit THEN r.orderTimes
                   ELSE TrimOrderTimes(r.orderTimes, t)
<1>1. CASE r.halted
  BY <1>1 DEF Check
<1>2. CASE ~r.halted
  <2>1. Check(r, position, r.peak, t) =
          [r EXCEPT !.peak = r.peak, !.halted = b, !.orderTimes = kept]
    BY <1>2 DEF Check, PeakWith
  <2>2. b \in BOOLEAN
    BY DEF Breached, Exceeds
  <2>3. AreTimes(kept, n)
    BY TrimKeeps DEF IsMonitor
  <2> HIDE DEF b, kept
  <2> QED
    BY <2>1, <2>2, <2>3 DEF IsMonitor
<1> QED
  BY <1>1, <1>2

(* A check keeps the monitor's type and its recent orders, and leaves at   *)
(* most the limit of them when it reports no breach.                       *)
LEMMA CheckKeeps ==
  ASSUME NEW n, NEW r, IsMonitor(r, n), NEW position, NEW t \in Nat,
         MaxOrdersPerMinute # NoLimit,
         NEW c, c = Check(r, position, r.peak, t)
  PROVE  IsMonitor(c, n) /\ KeepsRecent(c, r, {}, t) /\ FewRemembered(c)
<1> DEFINE b == Breached(r, position, r.peak, t)
           kept == TrimOrderTimes(r.orderTimes, t)
<1> USE DEF KeepsRecent, FewRemembered
<1>1. CASE r.halted
  BY <1>1 DEF Check, IsMonitor
<1>2. CASE ~r.halted
  <2>1. c = [r EXCEPT !.peak = r.peak, !.halted = b, !.orderTimes = kept]
    BY <1>2 DEF Check, PeakWith
  <2>2. AreTimes(r.orderTimes, n)
    BY DEF IsMonitor
  <2>3. b \in BOOLEAN
    BY DEF Breached, Exceeds
  <2>4. AreTimes(kept, n)
    BY <2>2, TrimKeeps
  <2> HIDE DEF b, kept
  <2>5. IsMonitor(c, n) /\ c.orderTimes = kept /\ c.halted = b
    BY <2>1, <2>3, <2>4 DEF IsMonitor
  <2>6. ~b => ~(Cardinality(DOMAIN kept) > MaxOrdersPerMinute)
    BY DEF b, kept, Breached, Exceeds
  <2>7. \A k \in DOMAIN r.orderTimes : InMinute(r.orderTimes[k], t) =>
          k \in DOMAIN kept /\ kept[k] = r.orderTimes[k]
    BY <2>2, TrimKeeps DEF kept
  <2> QED
    BY <2>5, <2>6, <2>7
<1> QED
  BY <1>1, <1>2

(* Recording a batch keeps the recent orders and adds those of the batch.  *)
LEMMA RecordKeeps ==
  ASSUME NEW n, NEW r, IsMonitor(r, n), NEW batch \in SUBSET (1..n), NEW t \in Nat,
         NEW c, c = RecordOrders(r, batch, t)
  PROVE  IsMonitor(c, n) /\ Recorded(c, batch, t) /\ KeepsRecent(c, r, batch, t)
<1> DEFINE D == DOMAIN r.orderTimes \cup batch
           added == [k \in D |-> IF k \in batch THEN t ELSE r.orderTimes[k]]
           kept == TrimOrderTimes(added, t)
<1> USE DEF Recorded, KeepsRecent
<1>1. CASE batch = {}
  BY <1>1 DEF RecordOrders, IsMonitor
<1>2. CASE batch # {}
  <2>1. c = [r EXCEPT !.orderTimes = kept]
    BY <1>2 DEF RecordOrders
  <2>2. AreTimes(r.orderTimes, n)
    BY DEF IsMonitor
  <2>3. DOMAIN r.orderTimes \subseteq 1..n /\ r.orderTimes \in [DOMAIN r.orderTimes -> Nat]
    BY <2>2, TimesAreFunctions
  <2>4. added \in [D -> Nat] /\ D \in SUBSET (1..n)
    BY <2>3
  <2>5. AreTimes(added, n)
    BY <2>4, FunctionsAreTimes
  <2>6. /\ AreTimes(kept, n)
        /\ \A k \in D : InMinute(added[k], t) => k \in DOMAIN kept /\ kept[k] = added[k]
    BY <2>4, <2>5, TrimKeeps
  <2>7. InMinute(t, t)
    BY LimitAssumption DEF InMinute
  <2>8. \A k \in batch : k \in D /\ added[k] = t
    OBVIOUS
  <2>9. \A k \in DOMAIN r.orderTimes \ batch : k \in D /\ added[k] = r.orderTimes[k]
    OBVIOUS
  <2> HIDE DEF added, D, kept
  <2>10. IsMonitor(c, n) /\ c.orderTimes = kept
    BY <2>1, <2>6 DEF IsMonitor
  <2> QED
    BY <2>6, <2>7, <2>8, <2>9, <2>10
<1> QED
  BY <1>1, <1>2

LEMMA EventKeeps ==
  ASSUME NEW n, NEW r, IsMonitor(r, n), NEW t \in Nat
  PROVE  /\ IsMonitor(RecordEvent(r, t), n)
         /\ RecordEvent(r, t).orderTimes = r.orderTimes
         /\ RecordEvent(r, t).peak = r.peak
         /\ RecordEvent(r, t).lastEvent = t
BY DEF RecordEvent, IsMonitor

(* More orders asked for leave the monitor's type as it is.                *)
LEMMA MonitorGrows ==
  ASSUME NEW n \in Int, NEW m \in Int, n <= m
  PROVE  \A r : IsMonitor(r, n) => IsMonitor(r, m)
<1>1. 1..n \subseteq 1..m
  OBVIOUS
<1> QED
  BY <1>1 DEF IsMonitor, AreTimes

LEMMA NoTimes ==
  ASSUME NEW n
  PROVE  AreTimes([k \in {} |-> 0], n)
<1>1. [k \in {} |-> 0] \in [{} -> Nat]
  OBVIOUS
<1> QED
  BY <1>1, FunctionsAreTimes

-----------------------------------------------------------------------------
LEMMA ReceiveType ==
  ASSUME TypeOK, NEW i \in DOMAIN feed
  PROVE  /\ feed[i] \in Message
         /\ Without(feed, i) \in Seq(Message)
         /\ ApplyMessage(positions, feed[i]) \in [Tickers -> Int]
<1>1. feed \in Seq(Message) /\ i \in 1..Len(feed) /\ Len(feed) \in Nat
  BY DEF TypeOK
<1>2. feed[i] \in Message
  BY <1>1
<1>3. SubSeq(feed, 1, i - 1) \in Seq(Message)
  <2>1. \A j \in 1..(i - 1) : feed[j] \in Message
    BY <1>1
  <2> QED
    BY <1>1, <2>1, SubSeqProperties
<1>4. SubSeq(feed, i + 1, Len(feed)) \in Seq(Message)
  <2>1. \A j \in (i + 1)..Len(feed) : feed[j] \in Message
    BY <1>1
  <2> QED
    BY <1>1, <2>1, SubSeqProperties
<1>5. Without(feed, i) \in Seq(Message)
  BY <1>3, <1>4, ConcatProperties DEF Without
<1> QED
  BY <1>2, <1>5 DEF ApplyMessage, Message, TypeOK

LEMMA TypeInit == ASSUME Init PROVE TypeOK
<1>1. AreTimes(acceptedAt, nextOrder - 1) /\ pending \subseteq DOMAIN acceptedAt
  BY NoTimes DEF Init
<1>2. IsMonitor(risk, nextOrder - 1)
  <2>1. IsMonitor(StartedAt(0), nextOrder - 1)
    BY NoTimes DEF StartedAt, IsMonitor
  <2> QED
    BY <2>1 DEF Init
<1>3. resting \in [Tickers -> Nat]
  <2>1. (IF StaleFills THEN 0..MaxQuote ELSE {0}) \subseteq Nat
    BY SessionAssumption
  <2> QED
    BY <2>1 DEF Init
<1> QED
  <2>1. held \in [Tickers -> Int] /\ positions \in [Tickers -> Int] /\ deadline \in Nat
    BY SessionAssumption DEF Init
  <2>2. nextOrder \in Nat \ {0} /\ pc = "load" /\ now \in Nat
    BY DEF Init
  <2>3. feed \in Seq(Message)
    BY DEF Init
  <2>4. stop \in BOOLEAN
    BY DEF Init
  <2> QED
    BY <1>1, <1>2, <1>3, <2>1, <2>2, <2>3, <2>4 DEF TypeOK

LEMMA TypeStep ==
  ASSUME TypeOK, Next
  PROVE  TypeOK'
<1> USE SessionAssumption DEF TypeOK
<1>1. CASE LoadPositions BY <1>1 DEF LoadPositions, exchVars
<1>2. CASE SweepStale BY <1>2 DEF SweepStale
<1>3. CASE LoopTop BY <1>3 DEF LoopTop, Leave, exchVars
<1>4. CASE Timeout
  <2>1. IsMonitor(risk', nextOrder - 1)
    BY <1>4, CheckTypes DEF Timeout, CheckRisk
  <2> QED
    BY <1>4, <2>1 DEF Timeout, Leave, exchVars
<1>5. CASE SyncReturns
  <2>1. pending \subseteq 1..(nextOrder - 1)
    BY TimesAreFunctions
  <2>2. IsMonitor(risk', nextOrder - 1)
    BY <1>5, <2>1, RecordKeeps DEF SyncReturns
  <2> QED
    BY <1>5, <2>2 DEF SyncReturns
<1>6. CASE Raise BY <1>6 DEF Raise, Leave, exchVars
<1>7. CASE Close BY <1>7 DEF Close
<1>8. ASSUME NEW i \in DOMAIN feed, Receive(i) PROVE TypeOK'
  <2>1. feed' \in Seq(Message) /\ positions' \in [Tickers -> Int]
    BY <1>8, ReceiveType DEF Receive
  <2>2. IsMonitor(RecordEvent(risk, now), nextOrder - 1)
    BY EventKeeps
  <2>3. IsMonitor(CheckRisk(RecordEvent(risk, now), positions'), nextOrder - 1)
    BY <2>2, EventKeeps, CheckTypes DEF CheckRisk
  <2>4. IsMonitor(risk', nextOrder - 1)
    BY <1>8, <2>2, <2>3 DEF Receive
  <2> QED
    BY <1>8, <2>1, <2>4 DEF Receive, Leave
<1>9. ASSUME NEW m \in Tickers, NEW a \in 0..MaxBatch, NEW r \in 0..MaxBatch,
             NEW left \in 0..MaxQuote, ExchSync(m, a, r, left)
      PROVE  TypeOK'
  <2>1. nextOrder' = nextOrder + a + r /\ nextOrder' \in Nat \ {0}
    BY <1>9 DEF ExchSync
  <2>2. IsMonitor(risk', nextOrder' - 1)
    BY <1>9, <2>1, MonitorGrows DEF ExchSync
  <2>3. DOMAIN acceptedAt \subseteq 1..(nextOrder - 1) /\ acceptedAt \in [DOMAIN acceptedAt -> Nat]
    BY TimesAreFunctions
  <2>4. DOMAIN acceptedAt \cup pending' \subseteq 1..(nextOrder' - 1)
    <3>1. pending' = nextOrder..(nextOrder + a - 1)
      BY <1>9 DEF ExchSync
    <3>2. pending' \subseteq 1..(nextOrder' - 1)
      BY <2>1, <3>1
    <3>3. 1..(nextOrder - 1) \subseteq 1..(nextOrder' - 1)
      BY <2>1
    <3> QED
      BY <2>3, <3>2, <3>3
  <2>5. acceptedAt' \in [DOMAIN acceptedAt \cup pending' -> Nat]
    BY <1>9, <2>3 DEF ExchSync
  <2>6. AreTimes(acceptedAt', nextOrder' - 1) /\ pending' \subseteq DOMAIN acceptedAt'
    BY <2>4, <2>5, FunctionsAreTimes
  <2> QED
    <3>1. resting' \in [Tickers -> Nat]
      BY <1>9 DEF ExchSync
    <3> QED
      BY <1>9, <2>1, <2>2, <2>6, <3>1 DEF ExchSync
<1>10. ASSUME NEW m \in Tickers, NEW d \in {-1, 1}, ExchFill(m, d) PROVE TypeOK'
  <2>1. held' \in [Tickers -> Int]
    BY <1>10 DEF ExchFill
  <2>2. /\ Note("fill", m, held'[m]) \in Message
        /\ Note("position", m, held'[m]) \in Message
    BY <2>1 DEF Note, Message, Channels
  <2>3. feed' \in Seq(Message)
    BY <1>10, <2>2 DEF ExchFill
  <2> QED
    BY <1>10, <2>1, <2>3 DEF ExchFill
<1>11. ASSUME NEW m \in Tickers, NEW ch \in {"book", "order"}, ExchNotes(ch, m)
       PROVE  TypeOK'
  <2>1. Note(ch, m, 0) \in Message
    BY DEF Note, Message, Channels
  <2> QED
    BY <1>11, <2>1 DEF ExchNotes
<1>12. CASE RequestStop BY <1>12 DEF RequestStop, exchVars
<1>13. CASE Tick BY <1>13 DEF Tick, exchVars
<1> QED
  BY <1>1, <1>2, <1>3, <1>4, <1>5, <1>6, <1>7, <1>8, <1>9, <1>10, <1>11, <1>12, <1>13
     DEF Next, Task, Exchange

-----------------------------------------------------------------------------
(* The limit is a number.                                                  *)
LEMMA LimitIsNat ==
  ASSUME MaxOrdersPerMinute # NoLimit
  PROVE  MaxOrdersPerMinute \in Nat
BY LimitAssumption

(* The orders accepted in a minute, and those the monitor remembers, are   *)
(* finitely many.                                                          *)
LEMMA Finite ==
  ASSUME TypeOK
  PROVE  /\ Cardinality(DOMAIN risk.orderTimes) \in Nat
         /\ IsFiniteSet(DOMAIN risk.orderTimes)
         /\ \A s : /\ Cardinality(AcceptedInMinute(s)) \in Nat
                   /\ IsFiniteSet(AcceptedInMinute(s))
<1>1. nextOrder - 1 \in Int
  BY DEF TypeOK
<1>2. DOMAIN risk.orderTimes \in SUBSET (1..(nextOrder - 1))
  BY TimesAreFunctions DEF TypeOK, IsMonitor
<1>3. DOMAIN acceptedAt \in SUBSET (1..(nextOrder - 1))
  BY TimesAreFunctions DEF TypeOK
<1>4. \A s : AcceptedInMinute(s) \subseteq DOMAIN acceptedAt
  BY DEF AcceptedInMinute
<1> QED
  BY <1>1, <1>2, <1>3, <1>4, SmallSets

(* A step that accepts no order and leaves the clock alone keeps what is   *)
(* said of accepted orders.                                                *)
LEMMA NoneAccepted ==
  ASSUME RateInv, UNCHANGED <<acceptedAt, now>>
  PROVE  /\ \A n \in DOMAIN acceptedAt' : acceptedAt'[n] <= now'
         /\ AcceptedRateBounded'
<1>1. \A s : AcceptedInMinute(s)' = AcceptedInMinute(s)
  BY DEF AcceptedInMinute
<1> QED
  BY <1>1 DEF RateInv, AcceptedRateBounded

(* ... and keeps all of it when neither the monitor nor the task moves to  *)
(* another stage of a sync.                                                *)
LEMMA MonitorUntouched ==
  ASSUME RateInv, TypeOK', UNCHANGED <<acceptedAt, now, pending>>,
         risk'.orderTimes = risk.orderTimes,
         pc = "sync" => pc' \in {"sync", "stopping", "closed"},
         pc' = "sync" => pc = "sync",
         pc \in {"stopping", "closed"} => pc' \in {"stopping", "closed"}
  PROVE  RateInv'
<1>1. Remembered'
  BY DEF RateInv, Remembered, Recent
<1>2. pc' = "sync" => Cardinality(DOMAIN risk'.orderTimes) <= MaxOrdersPerMinute
  BY DEF RateInv
<1> QED
  BY <1>1, <1>2, NoneAccepted DEF RateInv

(* A check keeps the recent orders remembered, and lets a sync begin only  *)
(* with few enough of them.                                                *)
LEMMA AfterCheck ==
  ASSUME RateInv, TypeOK', UNCHANGED <<acceptedAt, now, pending>>,
         MaxOrdersPerMinute # NoLimit, pc = "recv",
         NEW r, IsMonitor(r, nextOrder - 1), r.orderTimes = risk.orderTimes, NEW p,
         risk' = CheckRisk(r, p),
         pc' = "sync" => ~risk'.halted
  PROVE  RateInv'
<1>1. /\ \A k \in DOMAIN r.orderTimes : InMinute(r.orderTimes[k], now) =>
           k \in DOMAIN risk'.orderTimes /\ risk'.orderTimes[k] = r.orderTimes[k]
      /\ ~risk'.halted => ~(Cardinality(DOMAIN risk'.orderTimes) > MaxOrdersPerMinute)
  <2>1. now \in Nat
    BY DEF RateInv, TypeOK
  <2>2. risk' = Check(r, WorstPosition(p), r.peak, now)
    BY DEF CheckRisk
  <2>3. KeepsRecent(risk', r, {}, now) /\ FewRemembered(risk')
    BY <2>1, <2>2, CheckKeeps
  <2> QED
    BY <2>3 DEF KeepsRecent, FewRemembered
<1>2. Remembered'
  <2> SUFFICES ASSUME NEW n \in DOMAIN acceptedAt \ pending, Recent(n)
               PROVE  /\ n \in DOMAIN risk'.orderTimes
                      /\ risk'.orderTimes[n] >= acceptedAt[n]
    BY DEF RateInv, Remembered, Recent
  <2>1. /\ n \in DOMAIN risk.orderTimes /\ risk.orderTimes[n] >= acceptedAt[n]
        /\ acceptedAt[n] >= now - Minute
    BY DEF RateInv, Remembered, Recent
  <2>2. risk.orderTimes[n] \in Nat /\ acceptedAt[n] \in Nat /\ now - Minute \in Int
    <3>1. risk.orderTimes \in [DOMAIN risk.orderTimes -> Nat]
      BY TimesAreFunctions DEF RateInv, TypeOK, IsMonitor
    <3>2. acceptedAt \in [DOMAIN acceptedAt -> Nat]
      BY TimesAreFunctions DEF RateInv, TypeOK
    <3>3. now - Minute \in Int
      BY LimitAssumption DEF RateInv, TypeOK
    <3> QED
      BY <2>1, <3>1, <3>2, <3>3
  <2>3. InMinute(risk.orderTimes[n], now)
    BY <2>1, <2>2 DEF InMinute
  <2> QED
    BY <1>1, <2>1, <2>3
<1>3. pc' = "sync" => Cardinality(DOMAIN risk'.orderTimes) <= MaxOrdersPerMinute
  <2>1. Cardinality(DOMAIN risk'.orderTimes) \in Nat
    <3>1. nextOrder' - 1 \in Int /\ AreTimes(risk'.orderTimes, nextOrder' - 1)
      BY DEF TypeOK, IsMonitor
    <3>2. DOMAIN risk'.orderTimes \in SUBSET (1..(nextOrder' - 1))
      BY <3>1, TimesAreFunctions
    <3> QED
      BY <3>1, <3>2, SmallSets
  <2> QED
    BY <1>1, <2>1, LimitIsNat
<1> QED
  BY <1>2, <1>3, NoneAccepted DEF RateInv

LEMMA RateInit == ASSUME Init, MaxOrdersPerMinute # NoLimit PROVE RateInv
<1>1. DOMAIN acceptedAt = {} /\ pc = "load" /\ pending = {}
  BY DEF Init
<1>2. \A s : Cardinality(AcceptedInMinute(s)) = 0
  BY <1>1, FS_EmptySet DEF AcceptedInMinute
<1>3. 0 <= MaxOrdersPerMinute + MaxBatch
  BY LimitIsNat, SessionAssumption
<1> QED
  BY <1>1, <1>2, <1>3, TypeInit DEF RateInv, Remembered, AcceptedRateBounded

LEMMA SyncReturnsStep ==
  ASSUME RateInv, SyncReturns, TypeOK'
  PROVE  RateInv'
<1>1. /\ \A k \in pending : k \in DOMAIN risk'.orderTimes /\ risk'.orderTimes[k] = now
      /\ \A k \in DOMAIN risk.orderTimes \ pending : InMinute(risk.orderTimes[k], now) =>
           k \in DOMAIN risk'.orderTimes /\ risk'.orderTimes[k] = risk.orderTimes[k]
  <2>1. /\ IsMonitor(risk, nextOrder - 1) /\ now \in Nat
        /\ pending \in SUBSET (1..(nextOrder - 1))
    BY TimesAreFunctions DEF RateInv, TypeOK
  <2>2. risk' = RecordOrders(risk, pending, now)
    BY DEF SyncReturns
  <2> QED
    <3>1. Recorded(risk', pending, now) /\ KeepsRecent(risk', risk, pending, now)
      BY <2>1, <2>2, RecordKeeps
    <3> QED
      BY <3>1 DEF Recorded, KeepsRecent
<1>2. Remembered'
  <2>1. pc = "sync" /\ pc' = "top" /\ pending' = {} /\ UNCHANGED <<acceptedAt, now>>
    BY DEF SyncReturns
  <2> SUFFICES ASSUME NEW n \in DOMAIN acceptedAt, Recent(n)
               PROVE  /\ n \in DOMAIN risk'.orderTimes
                      /\ risk'.orderTimes[n] >= acceptedAt[n]
    BY <2>1 DEF Remembered, Recent
  <2>2. acceptedAt[n] <= now /\ acceptedAt[n] >= now - Minute
    BY DEF RateInv, Recent
  <2>3. CASE n \in pending
    BY <1>1, <2>2, <2>3
  <2>4. CASE n \notin pending
    <3>1. n \in DOMAIN risk.orderTimes /\ risk.orderTimes[n] >= acceptedAt[n]
      BY <2>1, <2>4 DEF RateInv, Remembered
    <3>2. risk.orderTimes \in [DOMAIN risk.orderTimes -> Nat]
      BY TimesAreFunctions DEF RateInv, TypeOK, IsMonitor
    <3>3. acceptedAt \in [DOMAIN acceptedAt -> Nat]
      BY TimesAreFunctions DEF RateInv, TypeOK
    <3>4. now - Minute \in Int
      BY LimitAssumption DEF RateInv, TypeOK
    <3>5. InMinute(risk.orderTimes[n], now)
      BY <2>2, <3>1, <3>2, <3>3, <3>4 DEF InMinute
    <3> QED
      BY <1>1, <2>4, <3>1, <3>5
  <2> QED
    BY <2>3, <2>4
<1> QED
  BY <1>2, NoneAccepted DEF RateInv, SyncReturns

(* At the moment the exchange accepts a batch, every other order of the    *)
(* minute before is one the monitor remembers.                             *)
LEMMA ExchSyncStep ==
  ASSUME RateInv, TypeOK', MaxOrdersPerMinute # NoLimit,
         NEW m \in Tickers, NEW a \in 0..MaxBatch, NEW r \in 0..MaxBatch,
         NEW left \in 0..MaxQuote, ExchSync(m, a, r, left)
  PROVE  RateInv'
<1> DEFINE D == DOMAIN acceptedAt
<1>1. /\ pc = "sync" /\ pc' = "sync" /\ pending = {} /\ now' = now /\ risk' = risk
      /\ pending' = nextOrder..(nextOrder + a - 1)
      /\ acceptedAt' = [n \in D \cup pending' |->
                          IF n \in pending' THEN now ELSE acceptedAt[n]]
  BY DEF ExchSync
<1>2. D \subseteq 1..(nextOrder - 1) /\ acceptedAt \in [D -> Nat] /\ nextOrder \in Nat \ {0}
      /\ now \in Nat
  BY TimesAreFunctions DEF RateInv, TypeOK
<1>3. D \cap pending' = {}
  BY <1>1, <1>2
<1>4. DOMAIN acceptedAt' = D \cup pending'
  BY <1>1
<1>5. \A n \in D : acceptedAt'[n] = acceptedAt[n]
  BY <1>1, <1>3
<1>6. \A n \in pending' : acceptedAt'[n] = now
  BY <1>1
<1>7. \A n \in DOMAIN acceptedAt' : acceptedAt'[n] <= now'
  BY <1>1, <1>2, <1>4, <1>5, <1>6 DEF RateInv
<1>8. Remembered'
  BY <1>1, <1>4, <1>5 DEF RateInv, Remembered, Recent
<1>9. AcceptedRateBounded'
  <2> SUFFICES ASSUME NEW s \in 0..now
               PROVE  Cardinality(AcceptedInMinute(s)') <= MaxOrdersPerMinute + MaxBatch
    BY <1>1 DEF AcceptedRateBounded
  <2>1. CASE s < now
    <3>1. AcceptedInMinute(s)' = AcceptedInMinute(s)
      BY <1>2, <1>4, <1>5, <1>6, <2>1 DEF AcceptedInMinute
    <3> QED
      BY <3>1 DEF RateInv, AcceptedRateBounded
  <2>2. CASE s = now
    <3> DEFINE R == DOMAIN risk.orderTimes
    <3>1. AcceptedInMinute(s)' \subseteq R \cup pending'
      BY <1>1, <1>4, <1>5, <2>2 DEF AcceptedInMinute, RateInv, Remembered, Recent
    <3>2. /\ IsFiniteSet(R) /\ Cardinality(R) \in Nat
          /\ Cardinality(R) <= MaxOrdersPerMinute
      BY <1>1, Finite DEF RateInv
    <3>3. IsFiniteSet(pending') /\ Cardinality(pending') = a
      BY <1>1, <1>2, BatchSize, SessionAssumption
    <3>4. /\ IsFiniteSet(R \cup pending')
          /\ Cardinality(R \cup pending') =
               Cardinality(R) + Cardinality(pending') - Cardinality(R \cap pending')
      BY <3>2, <3>3, FS_Union
    <3>5. IsFiniteSet(R \cap pending') /\ Cardinality(R \cap pending') \in Nat
      BY <3>2, FS_Intersection, FS_CardinalityType
    <3>6. /\ IsFiniteSet(AcceptedInMinute(s)')
          /\ Cardinality(AcceptedInMinute(s)') <= Cardinality(R \cup pending')
      BY <3>1, <3>4, FS_Subset
    <3>7. /\ Cardinality(AcceptedInMinute(s)') \in Nat
          /\ Cardinality(R \cup pending') \in Nat
      BY <3>4, <3>6, FS_CardinalityType
    <3> QED
      BY <3>2, <3>3, <3>4, <3>5, <3>6, <3>7, LimitIsNat, SessionAssumption
  <2> QED
    BY <1>2, <2>1, <2>2
<1>10. Cardinality(DOMAIN risk'.orderTimes) <= MaxOrdersPerMinute
  BY <1>1 DEF RateInv
<1> QED
  BY <1>1, <1>7, <1>8, <1>9, <1>10 DEF RateInv

(* A minute later than now has no order the minute up to now had not.      *)
LEMMA TickStep ==
  ASSUME RateInv, Tick, TypeOK'
  PROVE  RateInv'
<1>1. now' = now + 1 /\ UNCHANGED <<acceptedAt, risk, pc, pending>> /\ now \in Nat
  BY DEF Tick, exchVars, RateInv, TypeOK
<1>2. acceptedAt \in [DOMAIN acceptedAt -> Nat] /\ Minute \in Nat
  BY TimesAreFunctions, LimitAssumption DEF RateInv, TypeOK
<1>3. \A n \in DOMAIN acceptedAt : acceptedAt[n] <= now
  BY DEF RateInv
<1>4. \A n \in DOMAIN acceptedAt' : acceptedAt'[n] <= now'
  BY <1>1, <1>2, <1>3
<1>5. Remembered'
  <2>1. \A n \in DOMAIN acceptedAt : Recent(n)' => Recent(n)
    BY <1>1, <1>2 DEF Recent
  <2> QED
    BY <1>1, <2>1 DEF RateInv, Remembered
<1>6. AcceptedRateBounded'
  <2> SUFFICES ASSUME NEW s \in 0..(now + 1)
               PROVE  Cardinality(AcceptedInMinute(s)) <= MaxOrdersPerMinute + MaxBatch
    BY <1>1 DEF AcceptedRateBounded, AcceptedInMinute
  <2>1. CASE s \in 0..now
    BY <2>1 DEF RateInv, AcceptedRateBounded
  <2>2. CASE s = now + 1
    <3>1. AcceptedInMinute(s) \subseteq AcceptedInMinute(now)
      BY <1>1, <1>2, <1>3, <2>2 DEF AcceptedInMinute
    <3>2. /\ IsFiniteSet(AcceptedInMinute(now))
          /\ Cardinality(AcceptedInMinute(now)) \in Nat
          /\ Cardinality(AcceptedInMinute(s)) \in Nat
      BY Finite DEF RateInv
    <3>3. Cardinality(AcceptedInMinute(s)) <= Cardinality(AcceptedInMinute(now))
      BY <3>1, <3>2, FS_Subset
    <3>4. Cardinality(AcceptedInMinute(now)) <= MaxOrdersPerMinute + MaxBatch
      BY <1>1 DEF RateInv, AcceptedRateBounded
    <3>5. MaxOrdersPerMinute \in Int /\ MaxBatch \in Int
      BY LimitAssumption, SessionAssumption DEF NoLimit
    <3> QED
      BY <3>2, <3>3, <3>4, <3>5
  <2> QED
    BY <1>1, <2>1, <2>2
<1> QED
  BY <1>1, <1>4, <1>5, <1>6 DEF RateInv

LEMMA ReceiveStep ==
  ASSUME RateInv, TypeOK', MaxOrdersPerMinute # NoLimit, NEW i \in DOMAIN feed, Receive(i)
  PROVE  RateInv'
<1> DEFINE r == RecordEvent(risk, now)
<1>1. IsMonitor(r, nextOrder - 1) /\ r.orderTimes = risk.orderTimes
  BY EventKeeps DEF RateInv, TypeOK
<1>2. pc = "recv" /\ UNCHANGED <<acceptedAt, now, pending>>
  BY DEF Receive
<1> HIDE DEF r
<1>3. CASE feed[i].ch # "book"
  <2>1. risk' = r /\ pc' = "top"
    BY <1>3 DEF Receive, r
  <2> QED
    BY <1>1, <1>2, <2>1, MonitorUntouched
<1>4. CASE feed[i].ch = "book"
  <2>1. risk' = CheckRisk(r, positions') /\ (pc' = "sync" => ~risk'.halted)
    BY <1>4 DEF Receive, r, Leave
  <2> QED
    BY <1>1, <1>2, <2>1, AfterCheck
<1> QED
  BY <1>3, <1>4

LEMMA TimeoutStep ==
  ASSUME RateInv, TypeOK', MaxOrdersPerMinute # NoLimit, Timeout
  PROVE  RateInv'
<1>1. IsMonitor(risk, nextOrder - 1)
  BY DEF RateInv, TypeOK
<1>2. pc = "recv" /\ pc' # "sync" /\ UNCHANGED <<acceptedAt, now, pending>>
  BY DEF Timeout, exchVars, Leave
<1>3. risk' = CheckRisk(risk, positions)
  BY DEF Timeout
<1> QED
  BY <1>1, <1>2, <1>3, AfterCheck

LEMMA RateStep ==
  ASSUME RateInv, [Next]_vars, MaxOrdersPerMinute # NoLimit
  PROVE  RateInv'
<1>1. CASE UNCHANGED vars
  BY <1>1 DEF vars, exchVars, RateInv, TypeOK, Remembered, Recent,
              AcceptedRateBounded, AcceptedInMinute
<1>2. CASE Next
  <2>1. TypeOK'
    BY <1>2, TypeStep DEF RateInv
  <2>2. CASE LoadPositions \/ SweepStale \/ LoopTop \/ Raise \/ Close \/ RequestStop
    BY <2>1, <2>2, MonitorUntouched
       DEF LoadPositions, SweepStale, LoopTop, Leave, Raise, Close, RequestStop, exchVars
  <2>3. CASE Timeout
    BY <2>1, <2>3, TimeoutStep
  <2>4. CASE SyncReturns
    BY <2>1, <2>4, SyncReturnsStep
  <2>5. ASSUME NEW i \in DOMAIN feed, Receive(i) PROVE RateInv'
    BY <2>1, <2>5, ReceiveStep
  <2>6. ASSUME NEW m \in Tickers, NEW a \in 0..MaxBatch, NEW r \in 0..MaxBatch,
               NEW left \in 0..MaxQuote, ExchSync(m, a, r, left)
        PROVE  RateInv'
    BY <2>1, <2>6, ExchSyncStep
  <2>7. ASSUME NEW m \in Tickers, NEW d \in {-1, 1}, ExchFill(m, d) PROVE RateInv'
    BY <2>1, <2>7, MonitorUntouched DEF ExchFill
  <2>8. ASSUME NEW m \in Tickers, NEW ch \in {"book", "order"}, ExchNotes(ch, m)
        PROVE  RateInv'
    BY <2>1, <2>8, MonitorUntouched DEF ExchNotes
  <2>9. CASE Tick
    BY <2>1, <2>9, TickStep
  <2> QED
    BY <1>2, <2>2, <2>3, <2>4, <2>5, <2>6, <2>7, <2>8, <2>9 DEF Next, Task, Exchange
<1> QED
  BY <1>1, <1>2

-----------------------------------------------------------------------------
(* The invariant of the order rate holds whenever a rate limit is set.     *)
THEOREM RateInvariance ==
  ASSUME MaxOrdersPerMinute # NoLimit
  PROVE  Spec => []RateInv
<1>1. Init => RateInv
  BY RateInit
<1>2. RateInv /\ [Next]_vars => RateInv'
  BY RateStep
<1> QED
  BY <1>1, <1>2, PTL DEF Spec

(* The variables of the session keep their types.                          *)
THEOREM SessionTypes == Spec => []TypeOK
<1>1. TypeOK /\ [Next]_vars => TypeOK'
  <2>1. TypeOK /\ UNCHANGED vars => TypeOK'
    BY DEF TypeOK, vars, exchVars
  <2> QED
    BY <2>1, TypeStep
<1> QED
  BY TypeInit, <1>1, PTL DEF Spec

(* No minute sees more accepted orders than max_orders_per_minute and one  *)
(* batch, however long the calls of a sync take (trader.py, the loop;      *)
(* risk.py, _check_order_rate).                                            *)
THEOREM OrderRate ==
  ASSUME MaxOrdersPerMinute # NoLimit
  PROVE  Spec => []AcceptedRateBounded
<1>1. RateInv => AcceptedRateBounded
  BY DEF RateInv
<1> QED
  BY <1>1, RateInvariance, PTL

-----------------------------------------------------------------------------
(* The times at which the loop looks at the feed.                          *)

(* Every wait has its deadline, and the deadline its bound.                *)
Punctual ==
  /\ pc \in {"load", "sweep", "recv", "sync"} => now <= deadline
  /\ pc \in {"load", "sweep"} => deadline <= risk.lastEvent + MaxCall
  /\ pc = "top" => now <= risk.lastEvent + Longest
  /\ pc = "recv" => deadline <= risk.lastEvent + Longest + Poll /\ deadline < Duration + Poll
  /\ pc = "sync" => /\ deadline = risk.lastEvent + MaxCall
                    /\ risk.lastEvent < Duration + Poll

PunctualInv == TypeOK /\ Punctual

LEMMA LongestOf ==
  ASSUME MaxFeedSilence # NoLimit
  PROVE  /\ Longest \in Nat /\ MaxCall <= Longest /\ MaxFeedSilence <= Longest
         /\ MaxCall \in Nat /\ MaxFeedSilence \in Nat /\ Poll \in Nat /\ Duration \in Nat
BY LimitAssumption, SessionAssumption DEF Longest

(* A check without a breach found the feed not silent for too long.        *)
LEMMA CheckedSilence ==
  ASSUME NEW r, NEW position, NEW t \in Nat, MaxFeedSilence # NoLimit,
         NEW n, IsMonitor(r, n), ~Check(r, position, r.peak, t).halted
  PROVE  t - r.lastEvent <= MaxFeedSilence
<1>1. r.lastEvent \in Nat
  BY DEF IsMonitor
<1>2. ~r.halted
  BY DEF Check
<1>3. Check(r, position, r.peak, t).halted = Breached(r, position, r.peak, t)
  <2> DEFINE b == Breached(r, position, r.peak, t)
             kept == IF MaxOrdersPerMinute = NoLimit THEN r.orderTimes
                     ELSE TrimOrderTimes(r.orderTimes, t)
  <2>1. Check(r, position, r.peak, t) =
          [r EXCEPT !.peak = r.peak, !.halted = b, !.orderTimes = kept]
    BY <1>2 DEF Check, PeakWith
  <2> HIDE DEF b, kept
  <2>2. Check(r, position, r.peak, t).halted = b
    BY <2>1 DEF IsMonitor
  <2> QED
    BY <2>2 DEF b
<1>4. ~Exceeds(t - r.lastEvent, MaxFeedSilence)
  BY <1>3 DEF Breached
<1> QED
  BY <1>1, <1>4, LongestOf DEF Exceeds

LEMMA PunctualInit ==
  ASSUME Init
  PROVE  PunctualInv
<1>1. risk.lastEvent = 0
  BY DEF Init, StartedAt
<1> QED
  <2>1. pc = "load" /\ now = 0 /\ deadline = MaxCall /\ MaxCall \in Nat
    BY SessionAssumption DEF Init
  <2> QED
    BY <1>1, <2>1, TypeInit DEF PunctualInv, Punctual

LEMMA PunctualStep ==
  ASSUME PunctualInv, [Next]_vars, MaxFeedSilence # NoLimit
  PROVE  PunctualInv'
<1>1. now \in Nat /\ deadline \in Nat /\ risk.lastEvent \in Nat
  BY DEF PunctualInv, TypeOK, IsMonitor
<1>2. TypeOK'
  BY TypeStep DEF PunctualInv, TypeOK, vars, exchVars
<1>3. Punctual
  BY DEF PunctualInv
<1> SUFFICES Punctual'
  BY <1>2 DEF PunctualInv
<1>4. CASE LoadPositions \/ SweepStale \/ LoopTop \/ Raise \/ Close
  BY <1>1, <1>3, <1>4, LongestOf
     DEF Punctual, LoadPositions, SweepStale, LoopTop, Leave, Raise, Close, exchVars
<1>5. CASE Timeout
  <2>1. risk' = Check(risk, WorstPosition(positions), risk.peak, now)
    BY <1>5 DEF Timeout, CheckRisk
  <2>2. IsMonitor(risk, nextOrder - 1)
    BY DEF PunctualInv, TypeOK
  <2>3. risk'.lastEvent = risk.lastEvent
    BY <1>1, <2>1, <2>2, CheckTypes
  <2>4. ~risk'.halted => now - risk.lastEvent <= MaxFeedSilence
    BY <1>1, <2>1, <2>2, CheckedSilence
  <2>5. /\ pc' \notin {"load", "sweep", "recv", "sync", "top"} \/ (pc' = "top" /\ ~risk'.halted)
        /\ UNCHANGED now
    BY <1>5 DEF Timeout, Leave
  <2>6. ~risk'.halted => now <= risk'.lastEvent + Longest
    BY <1>1, <2>3, <2>4, LongestOf
  <2> QED
    BY <2>5, <2>6, Zenon DEF Punctual
<1>6. ASSUME NEW i \in DOMAIN feed, Receive(i) PROVE Punctual'
  <2>1. IsMonitor(RecordEvent(risk, now), nextOrder - 1)
        /\ RecordEvent(risk, now).lastEvent = now
    BY <1>1, EventKeeps DEF PunctualInv, TypeOK
  <2>2. CheckRisk(RecordEvent(risk, now), positions').lastEvent = now
    BY <1>1, <2>1, CheckTypes DEF CheckRisk
  <2>3. risk'.lastEvent = now
    BY <1>6, <2>1, <2>2 DEF Receive
  <2> QED
    BY <1>1, <1>3, <1>6, <2>3, LongestOf DEF Punctual, Receive, Leave
<1>7. CASE SyncReturns
  <2>1. risk'.lastEvent = risk.lastEvent
    BY <1>7 DEF SyncReturns, RecordOrders, PunctualInv, TypeOK, IsMonitor
  <2> QED
    BY <1>1, <1>3, <1>7, <2>1, LongestOf DEF Punctual, SyncReturns
<1>8. CASE Exchange \/ RequestStop \/ UNCHANGED vars
  <2>1. UNCHANGED <<risk, pc, deadline, now>>
    BY <1>8 DEF Exchange, ExchSync, ExchFill, ExchNotes, RequestStop, vars, exchVars
  <2> QED
    BY <1>3, <2>1 DEF Punctual
<1>9. CASE Tick
  BY <1>1, <1>3, <1>9, LongestOf DEF Punctual, Tick, exchVars
<1> QED
  BY <1>4, <1>5, <1>6, <1>7, <1>8, <1>9 DEF Next, Task

(* When the feed's silence is limited, the loop finds a silent feed within *)
(* a poll of the limit, and no sync begins later than a poll after the     *)
(* session's time is up (trader.py, the loop; risk.py, _check_feed).       *)
THEOREM Punctuality ==
  ASSUME MaxFeedSilence # NoLimit
  PROVE  Spec => []LoopIsPunctual
<1>1. PunctualInv /\ [Next]_vars => PunctualInv'
  BY PunctualStep
<1>2. PunctualInv => LoopIsPunctual
  <2> SUFFICES ASSUME PunctualInv PROVE LoopIsPunctual
    OBVIOUS
  <2>1. now \in Nat /\ deadline \in Nat /\ risk.lastEvent \in Nat
    BY DEF PunctualInv, TypeOK, IsMonitor
  <2> QED
    BY <2>1, LongestOf DEF PunctualInv, Punctual, LoopIsPunctual
<1> QED
  BY PunctualInit, <1>1, <1>2, PTL DEF Spec

-----------------------------------------------------------------------------
(* What the feed leads the portfolio to.                                   *)

(* Message i leads to the position of its market.                          *)
Leads(i) == feed[i].ch \in {"fill", "position"}

(* No message of feed f after i is of the channel and market of i.         *)
LastOf(f, i) ==
  \A j \in DOMAIN f : i < j => f[j].ch # f[i].ch \/ f[j].ticker # f[i].ticker

Following ==
  /\ \A i \in DOMAIN feed : Leads(i) /\ LastOf(feed, i) => feed[i].pos = held[feed[i].ticker]
  /\ \A m \in Tickers :
       (\A i \in DOMAIN feed : Leads(i) => feed[i].ticker # m) => positions[m] = held[m]
  /\ pc = "load" => positions = held
  /\ ~Subscribed => feed = <<>> \/ pc = "closed"
  /\ pc \in {"load", "sweep"} => resting = [m \in Tickers |-> 0]

CatchUpInv == TypeOK /\ Following

LEMMA WithoutElements ==
  ASSUME TypeOK, NEW i \in DOMAIN feed
  PROVE  /\ DOMAIN Without(feed, i) = 1..(Len(feed) - 1)
         /\ \A j \in 1..(Len(feed) - 1) :
              Without(feed, i)[j] = IF j < i THEN feed[j] ELSE feed[j + 1]
<1> DEFINE a == SubSeq(feed, 1, i - 1)
           b == SubSeq(feed, i + 1, Len(feed))
<1>1. feed \in Seq(Message) /\ i \in 1..Len(feed) /\ Len(feed) \in Nat
  BY DEF TypeOK
<1>2. a \in Seq(Message) /\ Len(a) = i - 1 /\ \A j \in 1..(i - 1) : a[j] = feed[j]
  <2>1. \A j \in 1..(i - 1) : feed[j] \in Message
    BY <1>1
  <2> QED
    BY <1>1, <2>1, SubSeqProperties
<1>3. /\ b \in Seq(Message) /\ Len(b) = Len(feed) - i
      /\ \A j \in 1..(Len(feed) - i) : b[j] = feed[i + j]
  <2>1. \A j \in (i + 1)..Len(feed) : feed[j] \in Message
    BY <1>1
  <2> QED
    BY <1>1, <2>1, SubSeqProperties
<1>4. Without(feed, i) = a \o b
  BY DEF Without
<1> HIDE DEF a, b
<1>5. /\ a \o b \in Seq(Message) /\ Len(a \o b) = Len(feed) - 1
      /\ \A j \in 1..(Len(feed) - 1) : (a \o b)[j] = IF j < i THEN a[j] ELSE b[j - (i - 1)]
  <2>1. /\ a \o b \in Seq(Message) /\ Len(a \o b) = Len(a) + Len(b)
        /\ \A j \in 1..(Len(a) + Len(b)) :
             (a \o b)[j] = IF j <= Len(a) THEN a[j] ELSE b[j - Len(a)]
    BY <1>2, <1>3, ConcatProperties
  <2>2. Len(a) = i - 1 /\ Len(a) + Len(b) = Len(feed) - 1
    BY <1>1, <1>2, <1>3
  <2>3. \A j \in Int : j <= i - 1 <=> j < i
    BY <1>1
  <2> QED
    BY <2>1, <2>2, <2>3
<1>6. DOMAIN (a \o b) = 1..(Len(feed) - 1)
  BY <1>5
<1>7. ASSUME NEW j \in 1..(Len(feed) - 1)
      PROVE  (a \o b)[j] = IF j < i THEN feed[j] ELSE feed[j + 1]
  <2>1. CASE j < i
    <3>1. j \in 1..(i - 1)
      BY <1>1, <2>1
    <3> QED
      BY <1>2, <1>5, <2>1, <3>1
  <2>2. CASE ~(j < i)
    <3>1. j - (i - 1) \in 1..(Len(feed) - i) /\ i + (j - (i - 1)) = j + 1
      BY <1>1, <2>2
    <3> QED
      BY <1>3, <1>5, <2>2, <3>1
  <2> QED
    BY <2>1, <2>2
<1> QED
  BY <1>4, <1>6, <1>7

LEMMA FollowingInit ==
  ASSUME Init, StaleFills = FALSE
  PROVE  CatchUpInv
<1>1. TypeOK
  BY TypeInit
<1>2. /\ DOMAIN feed = {} /\ positions = held /\ pc = "load" /\ feed = <<>>
      /\ resting = [m \in Tickers |-> 0]
  BY DEF Init
<1> QED
  BY <1>1, <1>2 DEF CatchUpInv, Following

(* What is told of no market leaves the portfolio where it was.            *)
LEMMA FollowingSame ==
  ASSUME CatchUpInv, UNCHANGED <<feed, held, positions>>,
         pc' # "load" \/ pc = "load", Subscribed => Subscribed' \/ pc' = "closed",
         pc' \in {"load", "sweep"} => pc \in {"load", "sweep"} /\ UNCHANGED resting
  PROVE  Following'
BY DEF CatchUpInv, Following, Leads, LastOf, Subscribed

LEMMA FollowingReceive ==
  ASSUME CatchUpInv, NEW i \in DOMAIN feed, Receive(i)
  PROVE  Following'
<1> DEFINE n == Len(feed)
           Old(j) == IF j < i THEN j ELSE j + 1
<1>1. /\ n \in Nat /\ DOMAIN feed = 1..n /\ i \in 1..n /\ feed \in Seq(Message)
      /\ positions \in [Tickers -> Int] /\ held \in [Tickers -> Int]
      /\ \A j \in 1..n : feed[j] \in Message
  BY DEF CatchUpInv, TypeOK
<1>2. /\ DOMAIN feed' = 1..(n - 1) /\ \A j \in 1..(n - 1) : feed'[j] = feed[Old(j)]
  BY WithoutElements DEF CatchUpInv, Receive
<1>3. \A j \in 1..(n - 1) : Old(j) \in 1..n /\ Old(j) # i
  BY <1>1
<1>4. \A k \in 1..n : k # i => \E j \in 1..(n - 1) : Old(j) = k
  <2> SUFFICES ASSUME NEW k \in 1..n, k # i PROVE \E j \in 1..(n - 1) : Old(j) = k
    OBVIOUS
  <2>1. CASE k < i  BY <1>1, <2>1
  <2>2. CASE k > i
    <3>1. k - 1 \in 1..(n - 1) /\ Old(k - 1) = k  BY <1>1, <2>2
    <3> QED  BY <3>1
  <2> QED  BY <1>1, <2>1, <2>2
<1>5. \A j, k \in 1..(n - 1) : j < k <=> Old(j) < Old(k)
  BY <1>1
<1>6. UNCHANGED held /\ positions' = ApplyMessage(positions, feed[i]) /\ Deliverable(i)
  BY DEF Receive
<1>7. pc = "recv" /\ pc' \in {"top", "sync", "stopping"}
  BY DEF Receive, Leave
<1> HIDE DEF n, Old
<1>8. \A j \in DOMAIN feed' : Leads(j)' /\ LastOf(feed, j)' => feed'[j].pos = held'[feed'[j].ticker]
  <2> SUFFICES ASSUME NEW j \in 1..(n - 1), Leads(j)', LastOf(feed, j)'
               PROVE  feed'[j].pos = held'[feed'[j].ticker]
    BY <1>2
  <2>1. feed'[j] = feed[Old(j)] /\ Old(j) \in 1..n /\ Leads(Old(j))
    BY <1>2, <1>3 DEF Leads
  <2>2. LastOf(feed, Old(j))
    <3> SUFFICES ASSUME NEW k \in 1..n, Old(j) < k,
                        feed[k].ch = feed[Old(j)].ch, feed[k].ticker = feed[Old(j)].ticker
                 PROVE  FALSE
      BY <1>1 DEF LastOf
    <3>1. CASE k = i
      <4>1. Old(j) \in 1..(i - 1)
        BY <1>1, <2>1, <3>1
      <4> QED
        BY <1>6, <3>1, <4>1 DEF Deliverable
    <3>2. CASE k # i
      <4>1. PICK l \in 1..(n - 1) : Old(l) = k
        BY <1>4, <3>2
      <4>2. j < l /\ feed'[l] = feed[k]
        BY <1>2, <1>5, <4>1
      <4> QED
        BY <1>2, <2>1, <4>2 DEF LastOf
    <3> QED
      BY <3>1, <3>2
  <2> QED
    BY <1>1, <1>6, <2>1, <2>2 DEF CatchUpInv, Following
<1>9. ASSUME NEW m \in Tickers, \A j \in DOMAIN feed' : Leads(j)' => feed'[j].ticker # m
      PROVE  positions'[m] = held'[m]
  <2>1. \A k \in 1..n : k # i /\ Leads(k) => feed[k].ticker # m
    <3> SUFFICES ASSUME NEW k \in 1..n, k # i, Leads(k) PROVE feed[k].ticker # m
      OBVIOUS
    <3>1. PICK j \in 1..(n - 1) : Old(j) = k
      BY <1>4
    <3>2. feed'[j] = feed[k]
      BY <1>2, <3>1
    <3>3. Leads(j)'
      BY <3>2 DEF Leads
    <3> QED
      BY <1>2, <1>9, <3>2, <3>3
  <2>2. CASE Leads(i) /\ feed[i].ticker = m
    <3>1. LastOf(feed, i)
      BY <1>1, <2>1, <2>2 DEF LastOf, Leads
    <3>2. feed[i].pos = held[m]
      BY <1>1, <2>2, <3>1 DEF CatchUpInv, Following
    <3>3. positions'[m] = feed[i].pos
      BY <1>1, <1>6, <2>2 DEF ApplyMessage, Leads
    <3> QED
      BY <1>6, <3>2, <3>3
  <2>3. CASE ~(Leads(i) /\ feed[i].ticker = m)
    <3>1. positions'[m] = positions[m]
      BY <1>1, <1>6, <2>3 DEF ApplyMessage, Leads
    <3>2. \A k \in DOMAIN feed : Leads(k) => feed[k].ticker # m
      BY <1>1, <2>1, <2>3
    <3> QED
      BY <1>6, <3>1, <3>2 DEF CatchUpInv, Following
  <2> QED
    BY <2>2, <2>3
<1> QED
  BY <1>7, <1>8, <1>9 DEF Following, Subscribed

(* A message that leads to no position changes nothing.                    *)
LEMMA FollowingNotes ==
  ASSUME CatchUpInv, NEW m \in Tickers, NEW ch \in {"book", "order"}, ExchNotes(ch, m)
  PROVE  Following'
<1>1. PICK n \in Nat : n = Len(feed) /\ DOMAIN feed = 1..n /\ feed \in Seq(Message)
  BY DEF CatchUpInv, TypeOK
<1>2. /\ DOMAIN feed' = 1..(n + 1) /\ \A j \in 1..n : feed'[j] = feed[j]
      /\ feed'[n + 1].ch = ch
  BY <1>1 DEF ExchNotes, Note
<1>3. UNCHANGED <<held, positions, pc>> /\ Subscribed
  BY DEF ExchNotes
<1>4. \A j \in 1..n : Leads(j)' <=> Leads(j)
  BY <1>2 DEF Leads
<1>5. ~Leads(n + 1)'
  BY <1>2 DEF Leads
<1>6. \A j \in 1..n : Leads(j) /\ LastOf(feed, j)' => LastOf(feed, j)
  BY <1>1, <1>2 DEF LastOf
<1>7. 1..(n + 1) = 1..n \cup {n + 1}
  BY <1>1
<1>8. ~(pc' \in {"load", "sweep"}) /\ Subscribed'
  BY <1>3 DEF Subscribed
<1> QED
  BY <1>1, <1>2, <1>3, <1>4, <1>5, <1>6, <1>7, <1>8 DEF CatchUpInv, Following

(* A fill tells of the position it leads to on both channels.              *)
LEMMA FollowingFill ==
  ASSUME CatchUpInv, NEW m \in Tickers, NEW d \in {-1, 1}, ExchFill(m, d)
  PROVE  Following'
<1> DEFINE p == held[m] + d
<1>1. PICK n \in Nat : /\ n = Len(feed) /\ DOMAIN feed = 1..n /\ feed \in Seq(Message)
                      /\ held \in [Tickers -> Int]
  BY DEF CatchUpInv, TypeOK
<1>2. Subscribed /\ pc \notin {"load", "sweep"}
  <2>1. pc \notin {"load", "sweep", "closed"}
    BY DEF ExchFill, CatchUpInv, Following
  <2> QED
    BY <2>1 DEF Subscribed
<1>3. held' = [held EXCEPT ![m] = p] /\ UNCHANGED <<positions, pc>>
  BY DEF ExchFill
<1>4. feed' = feed \o <<Note("fill", m, p), Note("position", m, p)>>
  BY <1>1, <1>2, <1>3 DEF ExchFill
<1>5. /\ DOMAIN feed' = 1..(n + 2) /\ \A j \in 1..n : feed'[j] = feed[j]
      /\ feed'[n + 1] = Note("fill", m, p) /\ feed'[n + 2] = Note("position", m, p)
  BY <1>1, <1>4
<1>6. /\ feed'[n + 1].ch = "fill" /\ feed'[n + 1].ticker = m /\ feed'[n + 1].pos = p
      /\ feed'[n + 2].ch = "position" /\ feed'[n + 2].ticker = m /\ feed'[n + 2].pos = p
  BY <1>5 DEF Note
<1>7. held'[m] = p /\ \A t \in Tickers : t # m => held'[t] = held[t]
  BY <1>1, <1>3
<1> HIDE DEF p
<1>8. ASSUME NEW j \in 1..(n + 2), Leads(j)', LastOf(feed, j)'
      PROVE  feed'[j].pos = held'[feed'[j].ticker]
  <2>1. CASE j \in 1..n
    <3>1. feed'[j] = feed[j] /\ Leads(j) /\ feed[j] \in Message
      BY <1>1, <1>5, <1>8, <2>1 DEF Leads
    <3>2. LastOf(feed, j)
      BY <1>1, <1>5, <1>8, <2>1 DEF LastOf
    <3>3. feed[j].ticker # m
      <4> SUFFICES ASSUME feed[j].ticker = m PROVE FALSE
        OBVIOUS
      <4>1. feed[j].ch = "fill" \/ feed[j].ch = "position"
        BY <3>1 DEF Leads
      <4>2. n + 1 \in 1..(n + 2) /\ n + 2 \in 1..(n + 2) /\ j < n + 1 /\ j < n + 2
        BY <1>1, <2>1
      <4> QED
        BY <1>5, <1>6, <1>8, <3>1, <4>1, <4>2 DEF LastOf
    <3>4. feed[j].pos = held[feed[j].ticker]
      BY <1>1, <2>1, <3>1, <3>2 DEF CatchUpInv, Following
    <3> QED
      BY <1>7, <3>1, <3>3, <3>4 DEF Message
  <2>2. CASE j \in {n + 1, n + 2}
    BY <1>6, <1>7, <2>2
  <2> QED
    BY <1>1, <2>1, <2>2
<1>9. ASSUME NEW t \in Tickers, \A j \in DOMAIN feed' : Leads(j)' => feed'[j].ticker # t
      PROVE  positions'[t] = held'[t]
  <2>1. t # m
    <3>1. n + 1 \in DOMAIN feed' /\ Leads(n + 1)'
      BY <1>1, <1>5, <1>6 DEF Leads
    <3> QED
      BY <1>6, <1>9, <3>1
  <2>2. \A j \in DOMAIN feed : Leads(j) => feed[j].ticker # t
    <3>1. \A j \in 1..n : j \in DOMAIN feed' /\ feed'[j] = feed[j]
      BY <1>1, <1>5
    <3> QED
      BY <1>1, <1>9, <3>1 DEF Leads
  <2> QED
    BY <1>3, <1>7, <2>1, <2>2 DEF CatchUpInv, Following
<1> QED
  BY <1>2, <1>3, <1>5, <1>8, <1>9 DEF Following, Subscribed

LEMMA FollowingLoad ==
  ASSUME CatchUpInv, LoadPositions
  PROVE  Following'
BY DEF CatchUpInv, Following, LoadPositions, exchVars, Leads, LastOf, Subscribed

LEMMA CatchUpStep ==
  ASSUME CatchUpInv, [Next]_vars
  PROVE  CatchUpInv'
<1>1. TypeOK'
  BY TypeStep DEF CatchUpInv, TypeOK, vars, exchVars
<1> SUFFICES Following'
  BY <1>1 DEF CatchUpInv
<1>2. CASE \/ SweepStale \/ LoopTop \/ Timeout \/ SyncReturns \/ Raise \/ Close
           \/ RequestStop \/ Tick \/ UNCHANGED vars
  <2>1. /\ UNCHANGED <<feed, held, positions>> /\ (pc' # "load" \/ pc = "load")
        /\ Subscribed => Subscribed' \/ pc' = "closed"
        /\ pc' \in {"load", "sweep"} => pc \in {"load", "sweep"} /\ UNCHANGED resting
    BY <1>2 DEF SweepStale, LoopTop, Timeout, SyncReturns, Raise, Close, RequestStop, Tick,
                Leave, Subscribed, vars, exchVars
  <2> QED
    BY <2>1, FollowingSame
<1>3. ASSUME NEW i \in DOMAIN feed, Receive(i) PROVE Following'
  BY <1>3, FollowingReceive
<1>4. ASSUME NEW m \in Tickers, NEW a \in 0..MaxBatch, NEW r \in 0..MaxBatch,
             NEW left \in 0..MaxQuote, ExchSync(m, a, r, left)
      PROVE  Following'
  <2>1. UNCHANGED <<feed, held, positions, pc>> /\ pc = "sync"
    BY <1>4 DEF ExchSync
  <2> QED
    BY <2>1, FollowingSame DEF Subscribed
<1> QED
  BY <1>2, <1>3, <1>4, FollowingLoad, FollowingFill, FollowingNotes DEF Next, Task, Exchange

(* When nothing is on its way the portfolio holds what the exchange holds, *)
(* however fills and positions overtook each other, if no order of an      *)
(* earlier session fills during the startup (trader.py, LivePortfolio).    *)
THEOREM PositionsFollow ==
  ASSUME StaleFills = FALSE
  PROVE  Spec => []PositionsCatchUp
<1>1. Init => CatchUpInv
  BY FollowingInit
<1>2. CatchUpInv /\ [Next]_vars => CatchUpInv'
  BY CatchUpStep
<1>3. CatchUpInv => PositionsCatchUp
  <2> SUFFICES ASSUME CatchUpInv, feed = <<>> PROVE positions = held
    BY DEF PositionsCatchUp
  <2>1. \A m \in Tickers : positions[m] = held[m]
    BY DEF CatchUpInv, Following
  <2> QED
    BY <2>1 DEF CatchUpInv, TypeOK
<1> QED
  BY <1>1, <1>2, <1>3, PTL DEF Spec
=============================================================================
