----------------------------- MODULE Studies_proofs -----------------------------
(***************************************************************************)
(* Proofs about the studies of Workbench, for every value of the           *)
(* constants: the calibration of the fill model, the parameter search and  *)
(* the walk-forward.                                                       *)
(***************************************************************************)
EXTENDS Workbench_proofs

-----------------------------------------------------------------------------
(* What calibrate_fills makes of its rows, row by row.                      *)
Consumed == {"bid", "ask", "unknown"}
Amounts == [Rungs -> Nat]
Sided == [BookSides -> Nat]
Tape == UNION {[S -> Consumed] : S \in {x \in SUBSET Nat : IsFiniteSet(x)}}
PolledRow == [ticker : Rolling, absent : BOOLEAN, book : Amounts, trades : Tape]
Tally ==
  [shrink : Amounts, traded : Sided, unattributed : Nat, snapshots : Nat,
   last : {<<>>} \cup {<<b>> : b \in Amounts}]

Tallied(t, acc, row) ==
  IF row.ticker # t \/ row.absent THEN acc
  ELSE [shrink |-> [l \in Rungs |->
          IF acc.last # <<>> /\ acc.last[1][l] > row.book[l]
          THEN acc.shrink[l] + acc.last[1][l] - row.book[l] ELSE acc.shrink[l]],
        traded |-> [s \in BookSides |-> acc.traded[s] + TradedAt(row, s)],
        unattributed |-> acc.unattributed + TradedAt(row, "unknown"),
        snapshots |-> acc.snapshots + 1, last |-> <<row.book>>]

TallyFolder(t, rows_) ==
  CHOOSE iter : iter = [S \in SUBSET (DOMAIN rows_) |->
    IF S = {} THEN NoStats ELSE Tallied(t, iter[S \ {Max(S)}], rows_[Max(S)])]

Continued(T, D, n, s, r, base, g, f, e) ==
  /\ n \in Nat /\ (\A i \in 1..(n + 1) : r[i] \in D) /\ (\A i \in 1..n : r[i] = s[i])
  /\ base \in T /\ g \in [T \X D -> T]
  /\ FoldsIn(f, T, n, s, base, g) /\ FoldsIn(e, T, n + 1, r, base, g)

FoldedOnce(T, n, r, g, f, e) == f[1..n] \in T /\ e[1..(n + 1)] = g[<<f[1..n], r[n + 1]>>]

(* A fold over one item more.                                               *)
LEMMA FoldAppends ==
  ASSUME NEW T, NEW D, NEW n, NEW s, NEW r, NEW base, NEW g, NEW f, NEW e,
         Continued(T, D, n, s, r, base, g, f, e)
  PROVE  FoldedOnce(T, n, r, g, f, e)
<1>0. n \in Nat /\ (\A i \in 1..(n + 1) : r[i] \in D) /\ (\A i \in 1..n : r[i] = s[i])
      /\ base \in T /\ g \in [T \X D -> T]
      /\ FoldsIn(f, T, n, s, base, g) /\ FoldsIn(e, T, n + 1, r, base, g)
  BY DEF Continued
<1>1. n + 1 \in Nat /\ \A i \in 1..n : i \in 1..(n + 1)  BY <1>0
<1>2. PICK h \in [0..(n + 1) -> T] : Partials(h, n + 1, r, base, g)  BY <1>0, <1>1, PartialResults
<1>3. Partials(h, n, s, base, g)  BY <1>0, <1>1, <1>2 DEF Partials
<1>4. \A i \in 1..n : s[i] \in D  BY <1>0, <1>1
<1>5. f[1..n] = h[n] /\ f[1..n] \in T  BY <1>0, <1>3, <1>4, FoldIsUnique
<1>6. e[1..(n + 1)] = h[n + 1]
  <2>1. (\A i \in 1..(n + 1) : r[i] \in D) /\ Partials(h, n + 1, r, base, g) /\ FoldsIn(e, T, n + 1, r, base, g)
    BY <1>0, <1>2
  <2>2. base \in T /\ g \in [T \X D -> T]  BY <1>0
  <2>3. \A q \in Nat : (\A i \in 1..q : r[i] \in D) /\ Partials(h, q, r, base, g) /\ FoldsIn(e, T, q, r, base, g)
          => e[1..q] = h[q] /\ e[1..q] \in T
    BY ONLY <2>2, FoldReaches
  <2> QED  BY <2>1, <2>3, <1>1
<1>7. h[n + 1] = g[<<h[n], r[n + 1]>>]
  <2>1. n + 1 \in 1..(n + 1) /\ (n + 1) - 1 = n  BY <1>0
  <2> QED  BY <2>1, <1>2 DEF Partials
<1> QED  BY <1>5, <1>6, <1>7 DEF FoldedOnce

LEMMA CountsAreNumbers ==
  ASSUME NEW row \in PolledRow, NEW side
  PROVE  TradedAt(row, side) \in Nat
<1>1. PICK S \in SUBSET Nat : IsFiniteSet(S) /\ row.trades \in [S -> Consumed]
  BY DEF PolledRow, Tape
<1>2. {n \in DOMAIN row.trades : row.trades[n] = side} \subseteq S  BY <1>1
<1> QED  BY <1>1, <1>2, FS_Subset, FS_CardinalityType DEF TradedAt

LEMMA TallyStays ==
  ASSUME NEW t, NEW acc \in Tally, NEW row \in PolledRow
  PROVE  Tallied(t, acc, row) \in Tally
<1>1. TradedAt(row, "unknown") \in Nat /\ \A s \in BookSides : TradedAt(row, s) \in Nat
  BY CountsAreNumbers
<1>2. row.book \in Amounts  BY DEF PolledRow
<1>3. acc.shrink \in Amounts /\ acc.traded \in Sided /\ acc.unattributed \in Nat /\ acc.snapshots \in Nat
  BY DEF Tally
<1>4. acc.last # <<>> => acc.last[1] \in Amounts  BY DEF Tally
<1>5. CASE row.ticker # t \/ row.absent  BY <1>5 DEF Tallied
<1>6. CASE ~(row.ticker # t \/ row.absent)
  <2> DEFINE lost == [s \in Rungs |->
               IF acc.last # <<>> /\ acc.last[1][s] > row.book[s]
               THEN acc.shrink[s] + acc.last[1][s] - row.book[s] ELSE acc.shrink[s]]
             tradedNow == [s \in BookSides |-> acc.traded[s] + TradedAt(row, s)]
  <2>1. lost \in Amounts
    <3>1. ASSUME NEW s \in Rungs  PROVE lost[s] \in Nat
      <4>1. acc.shrink[s] \in Nat /\ row.book[s] \in Nat /\ (acc.last # <<>> => acc.last[1][s] \in Nat)
        BY <1>2, <1>3, <1>4 DEF Amounts
      <4> QED  BY <4>1
    <3> QED  BY <3>1 DEF Amounts
  <2>2. tradedNow \in Sided  BY <1>1, <1>3 DEF Sided
  <2>3. acc.unattributed + TradedAt(row, "unknown") \in Nat /\ acc.snapshots + 1 \in Nat  BY <1>1, <1>3
  <2>4. Tallied(t, acc, row) =
          [shrink |-> lost, traded |-> tradedNow, unattributed |-> acc.unattributed + TradedAt(row, "unknown"),
           snapshots |-> acc.snapshots + 1, last |-> <<row.book>>]
    BY <1>6 DEF Tallied
  <2> HIDE DEF lost, tradedNow
  <2> QED  BY <2>1, <2>2, <2>3, <2>4, <1>2 DEF Tally
<1> QED  BY <1>5, <1>6

LEMMA NothingTallied == NoStats \in Tally
BY DEF NoStats, Tally, Amounts, Sided, Nowhere

LEMMA TallyFolds ==
  ASSUME NEW t, NEW q \in Seq(PolledRow), NEW g \in [Tally \X PolledRow -> Tally],
         \A acc \in Tally, row \in PolledRow : g[<<acc, row>>] = Tallied(t, acc, row)
  PROVE  FoldsIn(TallyFolder(t, q), Tally, Len(q), q, NoStats, g)
<1> DEFINE n == Len(q)
           F == TallyFolder(t, q)
<1>1. n \in Nat /\ DOMAIN q = 1..n  OBVIOUS
<1>2. \A k \in 1..n : q[k] \in PolledRow  BY ElementOfSeq
<1> HIDE DEF n
<1>3. NoStats \in Tally  BY NothingTallied
<1>4. PICK f \in [SUBSET (1..n) -> Tally] : FoldsUp(f, n, q, NoStats, g)
  BY <1>1, <1>2, <1>3, FoldExists
<1>5. \A S \in SUBSET (1..n) : S # {} => Max(S) \in 1..n /\ S \ {Max(S)} \in SUBSET (1..n)
  BY <1>1, LargestNumber
<1>6. \A S \in SUBSET (1..n) :
        f[S] = IF S = {} THEN NoStats ELSE Tallied(t, f[S \ {Max(S)}], q[Max(S)])
  <2>1. TAKE S \in SUBSET (1..n)
  <2>2. CASE S = {}  BY <2>2, <1>4 DEF FoldsUp
  <2>3. CASE S # {}
    <3>1. f[S \ {Max(S)}] \in Tally /\ q[Max(S)] \in PolledRow  BY <2>3, <1>2, <1>5
    <3> QED  BY <3>1, <2>3, <1>4 DEF FoldsUp
  <2> QED  BY <2>2, <2>3
<1>7. f = [S \in SUBSET (DOMAIN q) |-> IF S = {} THEN NoStats ELSE Tallied(t, f[S \ {Max(S)}], q[Max(S)])]
  BY <1>1, <1>6
<1>8. F = [S \in SUBSET (DOMAIN q) |-> IF S = {} THEN NoStats ELSE Tallied(t, F[S \ {Max(S)}], q[Max(S)])]
  <2>1. \E iter : iter = [S \in SUBSET (DOMAIN q) |->
                            IF S = {} THEN NoStats ELSE Tallied(t, iter[S \ {Max(S)}], q[Max(S)])]
    BY <1>7
  <2> QED  BY <2>1 DEF TallyFolder
<1> HIDE DEF F
<1>9. F[{}] = NoStats  BY <1>8
<1>10. ASSUME NEW S \in SUBSET (1..n), S # {}, F[S \ {Max(S)}] \in Tally
       PROVE  F[S] = g[<<F[S \ {Max(S)}], q[Max(S)]>>]
  <2>1. F[S] = Tallied(t, F[S \ {Max(S)}], q[Max(S)])  BY <1>8, <1>10, <1>1
  <2>2. q[Max(S)] \in PolledRow  BY <1>10, <1>5, <1>2
  <2> QED  BY <2>1, <2>2, <1>10
<1>11. FoldsIn(F, Tally, n, q, NoStats, g)  BY <1>9, <1>10 DEF FoldsIn
<1> QED  BY <1>11 DEF F, n

CalOf(t, q) == TallyFolder(t, q)[1..Len(q)]

LEMMA CalibrateIs ==
  ASSUME NEW t, calRows \in Seq(PolledRow)
  PROVE  Calibrate(t) = CalOf(t, calRows)
<1> DEFINE op(acc, row) == Tallied(t, acc, row)
<1>1. Calibrate(t) = FoldLeft(op, NoStats, calRows)
  BY Zenon DEF Calibrate, Tallied
<1>2. FoldLeft(op, NoStats, calRows) = TallyFolder(t, calRows)[DOMAIN calRows]
  BY Zenon DEF FoldLeft, MapThenFoldSet, TallyFolder
<1>3. DOMAIN calRows = 1..Len(calRows)  OBVIOUS
<1> QED  BY <1>1, <1>2, <1>3 DEF CalOf

LEMMA TallyAppends ==
  ASSUME NEW t, NEW q \in Seq(PolledRow), NEW row \in PolledRow
  PROVE  CalOf(t, q) \in Tally /\ CalOf(t, Append(q, row)) = Tallied(t, CalOf(t, q), row)
<1> DEFINE g == [x \in Tally \X PolledRow |-> Tallied(t, x[1], x[2])]
           r == Append(q, row)
           n == Len(q)
<1>1. g \in [Tally \X PolledRow -> Tally]  BY TallyStays
<1>2. \A acc \in Tally, y \in PolledRow : g[<<acc, y>>] = Tallied(t, acc, y)  OBVIOUS
<1>3. n \in Nat /\ r \in Seq(PolledRow) /\ Len(r) = n + 1 /\ r[n + 1] = row /\ \A i \in 1..n : r[i] = q[i]
  BY AppendProperties
<1>4. \A i \in 1..(n + 1) : r[i] \in PolledRow  BY <1>3, ElementOfSeq
<1> HIDE DEF g, r, n
<1>5. FoldsIn(TallyFolder(t, q), Tally, n, q, NoStats, g)  BY <1>1, <1>2, TallyFolds DEF n
<1>6. FoldsIn(TallyFolder(t, r), Tally, n + 1, r, NoStats, g)
  <2>1. FoldsIn(TallyFolder(t, r), Tally, Len(r), r, NoStats, g)  BY <1>1, <1>2, <1>3, TallyFolds
  <2> QED  BY <2>1, <1>3
<1>7. NoStats \in Tally  BY NothingTallied
<1> DEFINE h == TallyFolder(t, q)  k == TallyFolder(t, r)
<1> HIDE DEF h, k
<1>9. FoldsIn(h, Tally, n, q, NoStats, g) /\ FoldsIn(k, Tally, n + 1, r, NoStats, g)
  BY <1>5, <1>6 DEF h, k
<1>8. h[1..n] \in Tally /\ k[1..(n + 1)] = g[<<h[1..n], r[n + 1]>>]
  <2>1. Continued(Tally, PolledRow, n, q, r, NoStats, g, h, k)
    BY ONLY <1>1, <1>3, <1>4, <1>7, <1>9 DEF Continued
  <2>2. FoldedOnce(Tally, n, r, g, h, k)  BY ONLY <2>1, FoldAppends
  <2> QED  BY ONLY <2>2 DEF FoldedOnce
<1>10. CalOf(t, q) = h[1..n] /\ CalOf(t, r) = k[1..(n + 1)]  BY <1>3 DEF CalOf, h, k, n
<1> QED  BY <1>2, <1>3, <1>8, <1>10 DEF r

LEMMA NothingPolled == \A t : CalOf(t, <<>>) = NoStats
<1>1. TAKE t
<1> DEFINE g == [x \in Tally \X PolledRow |-> Tallied(t, x[1], x[2])]
<1>2. g \in [Tally \X PolledRow -> Tally]  BY TallyStays
<1>3. \A acc \in Tally, y \in PolledRow : g[<<acc, y>>] = Tallied(t, acc, y)  OBVIOUS
<1> HIDE DEF g
<1>4. <<>> \in Seq(PolledRow) /\ Len(<<>>) = 0 /\ 1..0 = {}  OBVIOUS
<1>5. FoldsIn(TallyFolder(t, <<>>), Tally, Len(<<>>), <<>>, NoStats, g)  BY <1>2, <1>3, <1>4, TallyFolds
<1> QED  BY <1>4, <1>5 DEF FoldsIn, CalOf
(* What the rows claim, and what they would with the book just read.        *)
LossNow(c, l) ==
  IF c.last # <<>> /\ c.last[1][l] > bookHad[l] THEN c.shrink[l] + c.last[1][l] - bookHad[l] ELSE c.shrink[l]

Unread(t) == {n \in DOMAIN prints[t] : n > Len(prints[t]) - TradePage /\ <<t, n>> \notin seenTrades}

(* What is gone since is more than what the claims have yet to show.        *)
LossBound(c, t, l) ==
  /\ c.shrink[l] <= gone[t][l] + unseen[t][l]
  /\ c.last # <<>> => c.shrink[l] + c.last[1][l] - level[t][l] <= gone[t][l] + unseen[t][l]
  /\ polling = t => /\ LossNow(c, l) <= gone[t][l] + unseen[t][l]
                    /\ LossNow(c, l) + bookHad[l] - level[t][l] <= gone[t][l] + unseen[t][l]

Claimed(c) == c.traded["bid"] + c.traded["ask"] + c.unattributed
PrintedSince(t) == Len(prints[t]) - prior[t]

TradeBound(c, t) ==
  prior[t] <= Len(prints[t]) /\ (t \in warmed => Claimed(c) + Cardinality(Unread(t)) <= PrintedSince(t))

CalBound(t) ==
  LET c == CalOf(t, calRows)
  IN  /\ \A l \in Rungs : LossBound(c, t, l)
      /\ TradeBound(c, t)
      /\ t \notin warmed => c = NoStats

CalTypes ==
  /\ level \in [Rolling -> Amounts] /\ gone \in [Rolling -> Amounts] /\ prints \in [Rolling -> Seq(Consumed)]
  /\ polling \in Rolling \cup {""} /\ bookHad \in Amounts /\ warmed \in SUBSET Rolling
  /\ calRows \in Seq(PolledRow) /\ unseen \in [Rolling -> Amounts] /\ prior \in [Rolling -> Nat]

CalInv == CalTypes /\ \A t \in Rolling : CalBound(t)

LEMMA TalliesAreTyped ==
  ASSUME NEW q \in Seq(PolledRow), NEW t
  PROVE  CalOf(t, q) \in Tally
<1>1. CASE q = <<>>
  <2>1. CalOf(t, <<>>) = NoStats  BY NothingPolled
  <2> QED  BY <1>1, <2>1, NothingTallied
<1>2. CASE q # <<>>
  <2>1. Len(q) \in Nat /\ Len(q) > 0  BY <1>2, EmptySeq
  <2>2. q[Len(q)] \in PolledRow  BY <2>1, ElementOfSeq
  <2> QED  BY <2>2, TallyAppends
<1> QED  BY <1>1, <1>2

LEMMA TapesAreFinite ==
  ASSUME CalTypes, NEW t \in Rolling
  PROVE  /\ prints[t] \in Seq(Consumed) /\ Len(prints[t]) \in Nat /\ prior[t] \in Nat
         /\ DOMAIN prints[t] = 1..Len(prints[t]) /\ PrintedSince(t) \in Int
<1>1. prints[t] \in Seq(Consumed) /\ prior[t] \in Nat  BY DEF CalTypes
<1>2. Len(prints[t]) \in Nat /\ DOMAIN prints[t] = 1..Len(prints[t])  BY <1>1
<1> QED  BY <1>1, <1>2 DEF PrintedSince

LEMMA UnreadIsFinite ==
  ASSUME CalTypes, NEW t \in Rolling
  PROVE  IsFiniteSet(Unread(t)) /\ Cardinality(Unread(t)) \in Nat /\ Unread(t) \subseteq Nat
<1>1. Len(prints[t]) \in Nat /\ DOMAIN prints[t] = 1..Len(prints[t])  BY TapesAreFinite
<1>2. IsFiniteSet(1..Len(prints[t]))  BY <1>1, FS_Interval
<1>3. Unread(t) \subseteq 1..Len(prints[t])  BY <1>1 DEF Unread
<1> QED  BY <1>2, <1>3, FS_Subset, FS_CardinalityType

LEMMA AmountsAreNumbers ==
  ASSUME NEW a \in Amounts
  PROVE  \A l \in Rungs : a[l] \in Nat
BY DEF Amounts

LEMMA SidedValues ==
  ASSUME NEW a \in Sided
  PROVE  \A s \in BookSides : a[s] \in Nat
BY DEF Sided

(* The market moves: what leaves a level that is watched is counted.        *)
LEMMA MovesLose ==
  ASSUME CalTypes, NEW t \in Rolling, NEW rung \in Rungs, NEW by \in {1, -1}, Moves(t, rung, by)
  PROVE  /\ level' \in [Rolling -> Amounts] /\ gone' \in [Rolling -> Amounts]
         /\ \A u \in Rolling, l \in Rungs :
              /\ gone[u][l] <= gone'[u][l]
              /\ u \in warmed \/ polling = u => level[u][l] - level'[u][l] <= gone'[u][l] - gone[u][l]
<1>1. /\ level[t][rung] + by \in 0..MaxSize /\ level' = [level EXCEPT ![t][rung] = @ + by]
      /\ gone' = IF by < 0 /\ (t \in warmed \/ polling = t) THEN [gone EXCEPT ![t][rung] = @ + 1] ELSE gone
  BY DEF Moves
<1>2. level \in [Rolling -> Amounts] /\ gone \in [Rolling -> Amounts]  BY DEF CalTypes
<1>3. \A u \in Rolling, l \in Rungs : level[u][l] \in Nat /\ gone[u][l] \in Nat
  BY <1>2, AmountsAreNumbers
<1>4. level[t][rung] + by \in Nat
  <2>1. MaxSize \in Nat  BY Zenon, CalibrationAssumption
  <2>2. level[t][rung] + by \in 0..MaxSize  BY <1>1
  <2> QED  BY ONLY <2>1, <2>2
<1>5. level' = [level EXCEPT ![t] = [level[t] EXCEPT ![rung] = level[t][rung] + by]]  BY <1>1, <1>2
<1>6. [level[t] EXCEPT ![rung] = level[t][rung] + by] \in Amounts  BY <1>2, <1>4 DEF Amounts
<1>7. level' \in [Rolling -> Amounts]  BY <1>2, <1>5, <1>6
<1>8. CASE by < 0 /\ (t \in warmed \/ polling = t)
  <2>1. gone' = [gone EXCEPT ![t] = [gone[t] EXCEPT ![rung] = gone[t][rung] + 1]]  BY <1>1, <1>2, <1>8
  <2>2. gone[t][rung] + 1 \in Nat  BY <1>3
  <2>3. [gone[t] EXCEPT ![rung] = gone[t][rung] + 1] \in Amounts  BY <1>2, <2>2 DEF Amounts
  <2>4. gone' \in [Rolling -> Amounts]  BY <1>2, <2>1, <2>3
  <2>5. by = -1  BY <1>8
  <2>6. ASSUME NEW u \in Rolling, NEW l \in Rungs
        PROVE  gone[u][l] <= gone'[u][l] /\ level[u][l] - level'[u][l] <= gone'[u][l] - gone[u][l]
    <3>1. CASE u = t /\ l = rung
      <4>1. gone'[u][l] = gone[u][l] + 1 /\ level'[u][l] = level[u][l] + by
        BY <3>1, <2>1, <1>5, <1>2 DEF Amounts
      <4> QED  BY <4>1, <2>5, <1>3
    <3>2. CASE ~(u = t /\ l = rung)
      <4>1. gone'[u][l] = gone[u][l] /\ level'[u][l] = level[u][l]
        BY <3>2, <2>1, <1>5, <1>2 DEF Amounts
      <4> QED  BY <4>1, <1>3
    <3> QED  BY <3>1, <3>2
  <2> QED  BY <1>7, <2>4, <2>6
<1>9. CASE ~(by < 0 /\ (t \in warmed \/ polling = t))
  <2>1. gone' = gone  BY <1>1, <1>9
  <2>2. ASSUME NEW u \in Rolling, NEW l \in Rungs, u \in warmed \/ polling = u
        PROVE  level[u][l] <= level'[u][l]
    <3>1. CASE u = t /\ l = rung
      <4>1. by = 1  BY <1>9, <2>2, <3>1
      <4>2. level'[u][l] = level[u][l] + by  BY <3>1, <1>5, <1>2 DEF Amounts
      <4> QED  BY <4>1, <4>2, <1>3
    <3>2. CASE ~(u = t /\ l = rung)
      <4>1. level'[u][l] = level[u][l]  BY <3>2, <1>5, <1>2 DEF Amounts
      <4> QED  BY <4>1, <1>3
    <3> QED  BY <3>1, <3>2
  <2>3. \A u \in Rolling, l \in Rungs : level'[u][l] \in Nat  BY <1>7, AmountsAreNumbers
  <2> QED  BY <1>2, <1>3, <1>7, <2>1, <2>2, <2>3
<1> QED  BY <1>8, <1>9

LEMMA LossStays ==
  ASSUME CalTypes, NEW c \in Tally, NEW u \in Rolling, NEW l \in Rungs,
         NEW level2 \in [Rolling -> Amounts], NEW gone2 \in [Rolling -> Amounts],
         LossBound(c, u, l), u \notin warmed => c = NoStats,
         gone[u][l] <= gone2[u][l],
         u \in warmed \/ polling = u => level[u][l] - level2[u][l] <= gone2[u][l] - gone[u][l]
  PROVE  /\ c.shrink[l] <= gone2[u][l] + unseen[u][l]
         /\ c.last # <<>> => c.shrink[l] + c.last[1][l] - level2[u][l] <= gone2[u][l] + unseen[u][l]
         /\ polling = u => /\ LossNow(c, l) <= gone2[u][l] + unseen[u][l]
                           /\ LossNow(c, l) + bookHad[l] - level2[u][l] <= gone2[u][l] + unseen[u][l]
<1>1. level[u] \in Amounts /\ gone[u] \in Amounts /\ bookHad \in Amounts /\ unseen[u] \in Amounts  BY DEF CalTypes
<1>2. /\ level[u][l] \in Nat /\ gone[u][l] \in Nat /\ level2[u][l] \in Nat /\ gone2[u][l] \in Nat
      /\ bookHad[l] \in Nat /\ unseen[u][l] \in Nat
  BY <1>1, AmountsAreNumbers
<1>3. c.shrink \in Amounts /\ (c.last # <<>> => c.last[1] \in Amounts)  BY DEF Tally
<1>4. c.shrink[l] \in Nat /\ (c.last # <<>> => c.last[1][l] \in Nat)  BY <1>3, AmountsAreNumbers
<1>5. LossNow(c, l) \in Int  BY <1>2, <1>4 DEF LossNow
<1>6. c.shrink[l] <= gone2[u][l] + unseen[u][l]
  <2>1. c.shrink[l] <= gone[u][l] + unseen[u][l]  BY DEF LossBound
  <2>2. gone[u][l] <= gone2[u][l]  OBVIOUS
  <2> QED  BY ONLY <1>2, <1>4, <2>1, <2>2
<1>7. ASSUME c.last # <<>>  PROVE c.shrink[l] + c.last[1][l] - level2[u][l] <= gone2[u][l] + unseen[u][l]
  <2>1. NoStats.last = <<>>  BY DEF NoStats
  <2>2. u \in warmed  BY <1>7, <2>1
  <2>3. c.shrink[l] + c.last[1][l] - level[u][l] <= gone[u][l] + unseen[u][l]  BY <1>7 DEF LossBound
  <2>4. level[u][l] - level2[u][l] <= gone2[u][l] - gone[u][l]  BY <2>2
  <2>5. c.last[1][l] \in Nat /\ c.shrink[l] \in Nat  BY <1>4, <1>7
  <2>6. \A s, b, x, y, g, h, d \in Nat : s + b - x <= g + d /\ x - y <= h - g => s + b - y <= h + d  OBVIOUS
  <2> QED  BY ONLY <1>2, <2>3, <2>4, <2>5, <2>6
<1>8. ASSUME polling = u
      PROVE  /\ LossNow(c, l) <= gone2[u][l] + unseen[u][l]
             /\ LossNow(c, l) + bookHad[l] - level2[u][l] <= gone2[u][l] + unseen[u][l]
  <2>1. /\ LossNow(c, l) <= gone[u][l] + unseen[u][l]
        /\ LossNow(c, l) + bookHad[l] - level[u][l] <= gone[u][l] + unseen[u][l]
    BY <1>8 DEF LossBound
  <2>2. level[u][l] - level2[u][l] <= gone2[u][l] - gone[u][l]  BY <1>8
  <2>3. gone[u][l] <= gone2[u][l]  OBVIOUS
  <2> QED  BY ONLY <1>2, <1>5, <2>1, <2>2, <2>3
<1> QED  BY <1>6, <1>7, <1>8

(* One more trade is one more that is unread.                               *)
LEMMA UnreadGrows ==
  ASSUME CalTypes, CalTypes', NEW t \in Rolling, NEW u \in Rolling, UNCHANGED <<seenTrades, prior>>,
         NEW x \in Consumed, prints' = [prints EXCEPT ![t] = Append(@, x)]
  PROVE  /\ Cardinality(Unread(u)') \in Nat
         /\ \/ Cardinality(Unread(u)') <= Cardinality(Unread(u)) + 1 /\ PrintedSince(u)' = PrintedSince(u) + 1
            \/ Unread(u)' = Unread(u) /\ PrintedSince(u)' = PrintedSince(u)
         /\ prior[u] <= Len(prints[u]) => prior[u] <= Len(prints'[u])
<1>1. prints \in [Rolling -> Seq(Consumed)]  BY DEF CalTypes
<1>2. IsFiniteSet(Unread(u)) /\ Cardinality(Unread(u)) \in Nat  BY UnreadIsFinite
<1>3. CASE u = t
  <2> DEFINE n == Len(prints[t])
  <2>1. prints[t] \in Seq(Consumed) /\ n \in Nat /\ DOMAIN prints[t] = 1..n /\ prior[t] \in Nat
    BY TapesAreFinite
  <2>2. prints'[t] = Append(prints[t], x)  BY <1>1
  <2>3. Len(prints'[t]) = n + 1 /\ DOMAIN prints'[t] = 1..(n + 1)  BY <2>1, <2>2
  <2>4. TradePage \in Nat  BY Zenon, CalibrationAssumption
  <2>9. prior' = prior  OBVIOUS
  <2>10. PrintedSince(t)' = PrintedSince(t) + 1
    <3>1. PrintedSince(t) = n - prior[t]  BY DEF PrintedSince
    <3>2. PrintedSince(t)' = Len(prints'[t]) - prior'[t]  BY DEF PrintedSince
    <3>3. prior'[t] = prior[t] /\ Len(prints'[t]) = n + 1  BY <2>3, <2>9
    <3>4. n \in Nat /\ prior[t] \in Nat  BY <2>1
    <3> HIDE DEF n
    <3>5. Len(prints'[t]) - prior'[t] = (n - prior[t]) + 1  BY ONLY <3>3, <3>4
    <3> QED  BY Zenon, <3>1, <3>2, <3>5
  <2>11. prior[t] <= Len(prints[t]) => prior[t] <= Len(prints'[t])  BY <2>1, <2>3
  <2> HIDE DEF n
  <2>5. ASSUME NEW k \in Unread(u)', k # n + 1  PROVE k \in Unread(u)
    <3>1. k \in 1..(n + 1) /\ k > (n + 1) - TradePage /\ <<t, k>> \notin seenTrades'  BY <1>3, <2>3, <2>5 DEF Unread
    <3>2. k \in 1..n /\ k > n - TradePage  BY ONLY <3>1, <2>1, <2>4, <2>5
    <3> QED  BY <1>3, <2>1, <3>1, <3>2 DEF Unread, n
  <2>6. Unread(u)' \subseteq Unread(u) \cup {n + 1}  BY <2>5
  <2>7. /\ IsFiniteSet(Unread(u) \cup {n + 1})
        /\ Cardinality(Unread(u) \cup {n + 1}) <= Cardinality(Unread(u)) + 1
        /\ Cardinality(Unread(u) \cup {n + 1}) \in Nat
    <3>1. IsFiniteSet(Unread(u) \cup {n + 1})  BY <1>2, FS_AddElement
    <3>2. Cardinality(Unread(u) \cup {n + 1})
            = IF n + 1 \in Unread(u) THEN Cardinality(Unread(u)) ELSE Cardinality(Unread(u)) + 1
      BY <1>2, FS_AddElement
    <3>3. Cardinality(Unread(u) \cup {n + 1}) = Cardinality(Unread(u))
          \/ Cardinality(Unread(u) \cup {n + 1}) = Cardinality(Unread(u)) + 1
      BY Zenon, <3>2
    <3> QED  BY <1>2, <3>1, <3>3
  <2>8. Cardinality(Unread(u)') <= Cardinality(Unread(u) \cup {n + 1}) /\ Cardinality(Unread(u)') \in Nat
    BY <2>6, <2>7, FS_Subset, FS_CardinalityType
  <2> QED  BY <1>2, <1>3, <2>7, <2>8, <2>10, <2>11
<1>4. CASE u # t
  <2>1. prints'[u] = prints[u]  BY <1>1, <1>4
  <2>2. Unread(u)' = Unread(u) /\ PrintedSince(u)' = PrintedSince(u)  BY <2>1 DEF Unread, PrintedSince
  <2> QED  BY <1>2, <2>1, <2>2
<1> QED  BY <1>3, <1>4

LEMMA ClaimsAreNumbers ==
  ASSUME NEW c \in Tally
  PROVE  Claimed(c) \in Nat
<1>1. c.traded \in Sided /\ c.unattributed \in Nat  BY DEF Tally
<1>2. c.traded["bid"] \in Nat /\ c.traded["ask"] \in Nat  BY <1>1, SidedValues DEF BookSides
<1> QED  BY <1>1, <1>2 DEF Claimed

LEMMA MovesKeep ==
  ASSUME CalInv, NEW t \in Rolling, NEW rung \in Rungs, NEW by \in {1, -1}, Moves(t, rung, by),
         \/ prints' = prints
         \/ \E x \in Consumed : prints' = [prints EXCEPT ![t] = Append(@, x)]
  PROVE  CalInv'
<1> DEFINE c(u) == CalOf(u, calRows)
<1>1. UNCHANGED <<polling, bookHad, seenTrades, warmed, calRows, unseen, prior>>  BY DEF Moves, polled
<1>2. CalTypes /\ \A u \in Rolling : CalBound(u)  BY DEF CalInv
<1>3. /\ level' \in [Rolling -> Amounts] /\ gone' \in [Rolling -> Amounts]
      /\ \A u \in Rolling, l \in Rungs :
           /\ gone[u][l] <= gone'[u][l]
           /\ u \in warmed \/ polling = u => level[u][l] - level'[u][l] <= gone'[u][l] - gone[u][l]
  BY <1>2, MovesLose
<1>4. prints' \in [Rolling -> Seq(Consumed)]
  <2>1. prints \in [Rolling -> Seq(Consumed)]  BY <1>2 DEF CalTypes
  <2>2. ASSUME NEW x \in Consumed, prints' = [prints EXCEPT ![t] = Append(@, x)]
        PROVE  prints' \in [Rolling -> Seq(Consumed)]
    <3>1. Append(prints[t], x) \in Seq(Consumed)  BY <2>1, AppendProperties
    <3> QED  BY <2>1, <2>2, <3>1
  <2> QED  BY <2>1, <2>2
<1>5. CalTypes'  BY <1>1, <1>2, <1>3, <1>4 DEF CalTypes
<1>6. calRows \in Seq(PolledRow)  BY <1>2 DEF CalTypes
<1>7. ASSUME NEW u \in Rolling  PROVE CalBound(u)'
  <2>1. /\ \A l \in Rungs : LossBound(c(u), u, l)
        /\ TradeBound(c(u), u) /\ (u \notin warmed => c(u) = NoStats)
    BY <1>2 DEF CalBound
  <2>2. c(u) \in Tally /\ c(u)' = c(u)  BY <1>1, <1>6, TalliesAreTyped
  <2> HIDE DEF c
  <2>3. ASSUME NEW l \in Rungs  PROVE LossBound(c(u), u, l)'
    <3>1. /\ c(u).shrink[l] <= gone'[u][l] + unseen[u][l]
          /\ c(u).last # <<>> => c(u).shrink[l] + c(u).last[1][l] - level'[u][l] <= gone'[u][l] + unseen[u][l]
          /\ polling = u => /\ LossNow(c(u), l) <= gone'[u][l] + unseen[u][l]
                            /\ LossNow(c(u), l) + bookHad[l] - level'[u][l] <= gone'[u][l] + unseen[u][l]
      BY <1>2, <1>3, <2>1, <2>2, LossStays
    <3>2. LossNow(c(u), l)' = LossNow(c(u), l)  BY <1>1, <2>2 DEF LossNow
    <3> QED  BY <3>1, <3>2, <1>1, <2>2 DEF LossBound
  <2>4. TradeBound(c(u), u)'
    <3>1. /\ prior[u] <= Len(prints[u])
          /\ u \in warmed => Claimed(c(u)) + Cardinality(Unread(u)) <= PrintedSince(u)
      BY <2>1 DEF TradeBound
    <3>2. Claimed(c(u)) \in Nat /\ Cardinality(Unread(u)) \in Nat /\ PrintedSince(u) \in Int
      BY <1>2, <2>2, ClaimsAreNumbers, UnreadIsFinite, TapesAreFinite
    <3>3. Claimed(c(u))' = Claimed(c(u))  BY <2>2 DEF Claimed
    <3>4. CASE prints' = prints
      <4>1. Unread(u)' = Unread(u) /\ PrintedSince(u)' = PrintedSince(u)  BY <1>1, <3>4 DEF Unread, PrintedSince
      <4> QED  BY <1>1, <3>1, <3>3, <3>4, <4>1 DEF TradeBound
    <3>5. CASE \E x \in Consumed : prints' = [prints EXCEPT ![t] = Append(@, x)]
      <4>1. PICK x \in Consumed : prints' = [prints EXCEPT ![t] = Append(@, x)]  BY <3>5
      <4>2. /\ Cardinality(Unread(u)') \in Nat
            /\ \/ Cardinality(Unread(u)') <= Cardinality(Unread(u)) + 1 /\ PrintedSince(u)' = PrintedSince(u) + 1
               \/ Unread(u)' = Unread(u) /\ PrintedSince(u)' = PrintedSince(u)
            /\ prior[u] <= Len(prints'[u])
        BY <1>1, <1>2, <1>5, <3>1, <4>1, UnreadGrows
      <4>3. ASSUME u \in warmed  PROVE Claimed(c(u)) + Cardinality(Unread(u)') <= PrintedSince(u)'
        <5>1. Claimed(c(u)) + Cardinality(Unread(u)) <= PrintedSince(u)  BY <3>1, <4>3
        <5>2. CASE Cardinality(Unread(u)') <= Cardinality(Unread(u)) + 1 /\ PrintedSince(u)' = PrintedSince(u) + 1
          BY ONLY <5>1, <5>2, <3>2, <4>2
        <5>3. CASE Unread(u)' = Unread(u) /\ PrintedSince(u)' = PrintedSince(u)
          BY <5>1, <5>3
        <5> QED  BY <4>2, <5>2, <5>3
      <4> QED  BY <1>1, <3>3, <4>2, <4>3 DEF TradeBound
    <3> QED  BY <3>4, <3>5
  <2>5. (u \notin warmed => c(u) = NoStats)'  BY <1>1, <2>1, <2>2
  <2> QED  BY <2>3, <2>4, <2>5 DEF CalBound, c
<1> QED  BY <1>5, <1>7 DEF CalInv

LEMMA PollBookKeeps ==
  ASSUME CalInv, NEW t \in Rolling, PollBook(t)
  PROVE  CalInv'
<1> DEFINE c(u) == CalOf(u, calRows)
<1>1. /\ polling = "" /\ polling' = t /\ bookHad' = level[t]
      /\ UNCHANGED <<market, seenTrades, warmed, calRows, unseen, prior>>
  BY DEF PollBook
<1>2. CalTypes /\ \A u \in Rolling : CalBound(u)  BY DEF CalInv
<1>3. UNCHANGED <<level, prints, gone>>  BY <1>1 DEF market
<1>4. CalTypes'
  <2>1. level[t] \in Amounts  BY <1>2 DEF CalTypes
  <2> QED  BY <1>1, <1>2, <1>3, <2>1 DEF CalTypes
<1>5. ASSUME NEW u \in Rolling  PROVE CalBound(u)'
  <2>1. /\ \A l \in Rungs : LossBound(c(u), u, l)
        /\ TradeBound(c(u), u) /\ (u \notin warmed => c(u) = NoStats)
    BY <1>2 DEF CalBound
  <2>2. calRows \in Seq(PolledRow)  BY <1>2 DEF CalTypes
  <2>3. c(u) \in Tally /\ c(u)' = c(u)  BY <1>1, <2>2, TalliesAreTyped
  <2> HIDE DEF c
  <2>4. ASSUME NEW l \in Rungs  PROVE LossBound(c(u), u, l)'
    <3>1. /\ c(u).shrink[l] <= gone[u][l] + unseen[u][l]
          /\ c(u).last # <<>> => c(u).shrink[l] + c(u).last[1][l] - level[u][l] <= gone[u][l] + unseen[u][l]
      BY <2>1 DEF LossBound
    <3>2. ASSUME polling' = u
          PROVE  /\ LossNow(c(u), l)' <= gone[u][l] + unseen[u][l]
                 /\ LossNow(c(u), l)' + bookHad'[l] - level[u][l] <= gone[u][l] + unseen[u][l]
      <4>1. bookHad' = level[u]  BY <1>1, <3>2
      <4>2. level[u] \in Amounts /\ gone[u] \in Amounts /\ unseen[u] \in Amounts  BY <1>2 DEF CalTypes
      <4>3. level[u][l] \in Nat /\ gone[u][l] \in Nat /\ unseen[u][l] \in Nat  BY <4>2, AmountsAreNumbers
      <4>4. c(u).shrink \in Amounts /\ (c(u).last # <<>> => c(u).last[1] \in Amounts)  BY <2>3 DEF Tally
      <4>5. c(u).shrink[l] \in Nat /\ (c(u).last # <<>> => c(u).last[1][l] \in Nat)  BY <4>4, AmountsAreNumbers
      <4>6. LossNow(c(u), l)' = IF c(u).last # <<>> /\ c(u).last[1][l] > level[u][l]
                                THEN c(u).shrink[l] + c(u).last[1][l] - level[u][l] ELSE c(u).shrink[l]
        BY <2>3, <4>1 DEF LossNow
      <4>7. LossNow(c(u), l)' \in Int /\ LossNow(c(u), l)' <= gone[u][l] + unseen[u][l]
        BY <3>1, <4>3, <4>5, <4>6
      <4> QED  BY <4>1, <4>3, <4>7
    <3> QED  BY <1>1, <1>3, <2>3, <3>1, <3>2 DEF LossBound
  <2>5. TradeBound(c(u), u)'
    <3>1. Unread(u)' = Unread(u) /\ PrintedSince(u)' = PrintedSince(u)  BY <1>1, <1>3 DEF Unread, PrintedSince
    <3> QED  BY <1>1, <1>3, <2>1, <2>3, <3>1 DEF TradeBound, Claimed
  <2>6. (u \notin warmed => c(u) = NoStats)'  BY <1>1, <2>1, <2>3
  <2> QED  BY <2>4, <2>5, <2>6 DEF CalBound, c
<1> QED  BY <1>4, <1>5 DEF CalInv

LEMMA PollRaisesKeeps ==
  ASSUME CalInv, PollRaises
  PROVE  CalInv'
<1> DEFINE c(u) == CalOf(u, calRows)
<1>1. /\ polling # "" /\ polling' = ""
      /\ gone' = IF polling \in warmed THEN gone ELSE [gone EXCEPT ![polling] = Nowhere]
      /\ UNCHANGED <<level, prints, bookHad, seenTrades, warmed, calRows, unseen, prior>>
  BY DEF PollRaises
<1>2. CalTypes /\ \A u \in Rolling : CalBound(u)  BY DEF CalInv
<1>3. gone \in [Rolling -> Amounts] /\ Nowhere \in Amounts /\ polling \in Rolling /\ unseen \in [Rolling -> Amounts]
  BY <1>1, <1>2 DEF CalTypes, Amounts, Nowhere
<1>4. gone' \in [Rolling -> Amounts]  BY <1>1, <1>3
<1>5. CalTypes'  BY <1>1, <1>2, <1>4 DEF CalTypes
<1>6. ASSUME NEW u \in Rolling  PROVE CalBound(u)'
  <2>1. /\ \A l \in Rungs : LossBound(c(u), u, l)
        /\ TradeBound(c(u), u) /\ (u \notin warmed => c(u) = NoStats)
    BY <1>2 DEF CalBound
  <2>2. calRows \in Seq(PolledRow)  BY <1>2 DEF CalTypes
  <2>3. c(u) \in Tally /\ c(u)' = c(u)  BY <1>1, <2>2, TalliesAreTyped
  <2> HIDE DEF c
  <2>4. gone'[u] # gone[u] => u \notin warmed /\ gone'[u] = Nowhere  BY <1>1, <1>3
  <2>5. "" \notin Rolling  BY Zenon, CalibrationAssumption
  <2>6. ASSUME NEW l \in Rungs  PROVE LossBound(c(u), u, l)'
    <3>1. polling' # u  BY <1>1, <2>5
    <3>2. CASE gone'[u] = gone[u]
      BY <1>1, <2>1, <2>3, <3>1, <3>2 DEF LossBound
    <3>3. CASE gone'[u] # gone[u]
      <4>1. c(u) = NoStats /\ gone'[u] = Nowhere  BY <2>1, <2>4, <3>3
      <4>2. c(u).last = <<>> /\ c(u).shrink[l] = 0 /\ gone'[u][l] = 0  BY <4>1 DEF NoStats, Nowhere
      <4>3. unseen[u][l] \in Nat  BY <1>3, AmountsAreNumbers
      <4>4. 0 <= gone'[u][l] + unseen[u][l]  BY <4>2, <4>3
      <4> QED  BY <1>1, <2>3, <3>1, <4>2, <4>4 DEF LossBound
    <3> QED  BY <3>2, <3>3
  <2>7. TradeBound(c(u), u)'
    <3>1. Unread(u)' = Unread(u) /\ PrintedSince(u)' = PrintedSince(u)  BY <1>1 DEF Unread, PrintedSince
    <3> QED  BY <1>1, <2>1, <2>3, <3>1 DEF TradeBound, Claimed
  <2>8. (u \notin warmed => c(u) = NoStats)'  BY <1>1, <2>1, <2>3
  <2> QED  BY <2>6, <2>7, <2>8 DEF CalBound, c
<1> QED  BY <1>5, <1>6 DEF CalInv

(* The trades of a row are of one side each.                                *)
LEMMA CountsAddUp ==
  ASSUME NEW row \in PolledRow
  PROVE  /\ IsFiniteSet(DOMAIN row.trades) /\ Cardinality(DOMAIN row.trades) \in Nat
         /\ TradedAt(row, "bid") + TradedAt(row, "ask") + TradedAt(row, "unknown")
              <= Cardinality(DOMAIN row.trades)
<1> DEFINE D == DOMAIN row.trades
           OfSide(s) == {n \in D : row.trades[n] = s}
<1>1. PICK S \in SUBSET Nat : IsFiniteSet(S) /\ row.trades \in [S -> Consumed]
  BY DEF PolledRow, Tape
<1>2. IsFiniteSet(D) /\ Cardinality(D) \in Nat  BY <1>1, FS_CardinalityType
<1>3. \A s : TradedAt(row, s) = Cardinality(OfSide(s))  BY DEF TradedAt
<1>4. OfSide("bid") \subseteq D /\ OfSide("ask") \subseteq D /\ OfSide("unknown") \subseteq D  OBVIOUS
<1>5. OfSide("bid") \cap OfSide("ask") = {} /\ (OfSide("bid") \cup OfSide("ask")) \cap OfSide("unknown") = {}  OBVIOUS
<1> HIDE DEF D, OfSide
<1>6. /\ IsFiniteSet(OfSide("bid")) /\ IsFiniteSet(OfSide("ask")) /\ IsFiniteSet(OfSide("unknown"))
      /\ Cardinality(OfSide("bid")) \in Nat /\ Cardinality(OfSide("ask")) \in Nat /\ Cardinality(OfSide("unknown")) \in Nat
  BY <1>2, <1>4, FS_Subset, FS_CardinalityType
<1> DEFINE both == OfSide("bid") \cup OfSide("ask")
           all == both \cup OfSide("unknown")
<1>7. Cardinality({}) = 0  BY FS_EmptySet
<1>8. IsFiniteSet(both) /\ Cardinality(both) = Cardinality(OfSide("bid")) + Cardinality(OfSide("ask"))
  <2>1. /\ IsFiniteSet(both)
        /\ Cardinality(both) = Cardinality(OfSide("bid")) + Cardinality(OfSide("ask")) - Cardinality(OfSide("bid") \cap OfSide("ask"))
    BY <1>6, FS_Union
  <2>2. Cardinality(OfSide("bid") \cap OfSide("ask")) = 0  BY Zenon, <1>5, <1>7
  <2> HIDE DEF both
  <2> QED  BY ONLY <2>1, <2>2, <1>6
<1>9. Cardinality(all) = Cardinality(both) + Cardinality(OfSide("unknown")) /\ all \subseteq D
  <2>1. Cardinality(all) = Cardinality(both) + Cardinality(OfSide("unknown")) - Cardinality(both \cap OfSide("unknown"))
    BY <1>6, <1>8, FS_Union
  <2>2. Cardinality(both) \in Nat  BY <1>8, FS_CardinalityType
  <2>3. all \subseteq D  BY <1>4
  <2>4. Cardinality(both \cap OfSide("unknown")) = 0  BY Zenon, <1>5, <1>7
  <2> HIDE DEF both, all
  <2> QED  BY ONLY <2>1, <2>2, <2>3, <2>4, <1>6
<1>10. Cardinality(all) <= Cardinality(D)  BY <1>2, <1>9, FS_Subset
<1> HIDE DEF both, all
<1> QED  BY <1>2, <1>3, <1>6, <1>8, <1>9, <1>10 DEF D

(* A page is no more than its book.                                         *)
LEMMA PagesAreLess ==
  ASSUME NEW book \in Amounts
  PROVE  PageOf(book) \in Amounts /\ \A l \in Rungs : PageOf(book)[l] = book[l] \/ PageOf(book)[l] = 0
BY DEF PageOf, Amounts

LEMMA PollTradesKeeps ==
  ASSUME CalInv, NEW t \in Rolling, t = polling, PollTrades
  PROVE  CalInv'
<1> DEFINE page == {n \in DOMAIN prints[t] : n > Len(prints[t]) - TradePage}
           news == {n \in page : <<t, n>> \notin seenTrades}
           tape == [n \in Counted(t, news) |-> prints[t][n]]
           c(u) == CalOf(u, calRows)
           below == [l \in Rungs |-> unseen[t][l] + bookHad[l] - PageOf(bookHad)[l]]
<1>1. /\ t # "" /\ polling' = "" /\ seenTrades' = seenTrades \cup {<<t, n>> : n \in news}
      /\ warmed' = warmed \cup {t} /\ UNCHANGED <<level, prints, gone, bookHad>>
      /\ prior' = (IF t \in warmed THEN prior ELSE [prior EXCEPT ![t] = Len(prints[t])])
      /\ unseen' = [unseen EXCEPT ![t] = [l \in Rungs |-> @[l] + bookHad[l] - PageOf(bookHad)[l]]]
  BY DEF PollTrades, market
<1>2. PICK absent \in BOOLEAN :
        calRows' = Append(calRows, [ticker |-> t, absent |-> absent, book |-> PageOf(bookHad), trades |-> tape])
              /\ (absent => bookHad = Nowhere)
  BY DEF PollTrades
<1> DEFINE row == [ticker |-> t, absent |-> absent, book |-> PageOf(bookHad), trades |-> tape]
<1>3. CalTypes /\ \A u \in Rolling : CalBound(u)  BY DEF CalInv
<1>4. /\ t \in Rolling /\ prints[t] \in Seq(Consumed) /\ bookHad \in Amounts /\ calRows \in Seq(PolledRow)
      /\ unseen \in [Rolling -> Amounts] /\ prior \in [Rolling -> Nat] /\ Len(prints[t]) \in Nat
  BY <1>1, <1>3, TapesAreFinite DEF CalTypes
<1>5. news = Unread(t)  BY DEF Unread
<1>6. /\ tape \in Tape /\ DOMAIN tape = Counted(t, news)
      /\ IsFiniteSet(Counted(t, news)) /\ Counted(t, news) \subseteq news
  <2>1. news \subseteq DOMAIN prints[t]  OBVIOUS
  <2>2. IsFiniteSet(news) /\ news \subseteq Nat  BY <1>3, <1>4, <1>5, UnreadIsFinite
  <2> HIDE DEF news
  <2>3. IsFiniteSet({})  BY FS_EmptySet
  <2>4. Counted(t, news) \subseteq news /\ Counted(t, news) \subseteq Nat /\ IsFiniteSet(Counted(t, news))
    BY <2>2, <2>3 DEF Counted
  <2>5. \A n \in DOMAIN prints[t] : prints[t][n] \in Consumed  BY <1>4, ElementOfSeq
  <2>6. tape \in [Counted(t, news) -> Consumed]  BY <2>1, <2>4, <2>5
  <2> QED  BY <2>4, <2>6 DEF Tape
<1> HIDE DEF tape
<1>7. row \in PolledRow  BY <1>4, <1>6, PagesAreLess DEF PolledRow
<1>8. calRows' \in Seq(PolledRow) /\ calRows' = Append(calRows, row)  BY <1>2, <1>4, <1>7, AppendProperties
<1>16. /\ unseen' = [unseen EXCEPT ![t] = below] /\ unseen' \in [Rolling -> Amounts]
       /\ \A l \in Rungs : unseen'[t][l] = unseen[t][l] + bookHad[l] - PageOf(bookHad)[l]
  <2>1. unseen' = [unseen EXCEPT ![t] = below]  BY <1>1, <1>4
  <2>2. ASSUME NEW l \in Rungs  PROVE unseen[t][l] + bookHad[l] - PageOf(bookHad)[l] \in Nat
    <3>1. unseen[t][l] \in Nat /\ bookHad[l] \in Nat  BY <1>4, AmountsAreNumbers
    <3>2. PageOf(bookHad)[l] = bookHad[l] \/ PageOf(bookHad)[l] = 0  BY <1>4, PagesAreLess
    <3> QED  BY <3>1, <3>2
  <2>3. below \in Amounts  BY <2>2 DEF Amounts
  <2>4. \A l \in Rungs : below[l] = unseen[t][l] + bookHad[l] - PageOf(bookHad)[l]  OBVIOUS
  <2> HIDE DEF below
  <2> QED  BY <1>4, <2>1, <2>3, <2>4
<1> HIDE DEF below
<1>17. prior' \in [Rolling -> Nat]  BY <1>1, <1>4
<1>9. CalTypes'
  <2>1. warmed' \in SUBSET Rolling  BY <1>1, <1>3, <1>4 DEF CalTypes
  <2> QED  BY <1>1, <1>3, <1>8, <1>16, <1>17, <2>1 DEF CalTypes
<1>10. row.ticker = t /\ row.absent = absent /\ row.book = PageOf(bookHad) /\ row.trades = tape  OBVIOUS
<1> HIDE DEF row
<1>11. \A u : c(u) \in Tally /\ c(u)' = Tallied(u, c(u), row)  BY <1>4, <1>7, <1>8, TallyAppends
<1>12. \A u \in Rolling : /\ \A l \in Rungs : LossBound(c(u), u, l)
                          /\ TradeBound(c(u), u)
                          /\ u \notin warmed => c(u) = NoStats
  BY <1>3 DEF CalBound
<1> HIDE DEF c, news
<1>13. "" \notin Rolling  BY Zenon, CalibrationAssumption
<1>14. ASSUME NEW u \in Rolling, u # t  PROVE CalBound(u)'
  <2>1. c(u)' = c(u)  BY <1>10, <1>11, <1>14 DEF Tallied
  <2>2. (u \in warmed)' <=> u \in warmed  BY <1>1, <1>14
  <2>3. Unread(u)' = Unread(u)
    <3>1. \A n : <<u, n>> \in seenTrades' <=> <<u, n>> \in seenTrades  BY <1>1, <1>14
    <3> QED  BY <1>1, <3>1 DEF Unread
  <2>7. unseen'[u] = unseen[u] /\ prior'[u] = prior[u]  BY <1>1, <1>4, <1>14, <1>16
  <2>8. PrintedSince(u)' = PrintedSince(u)  BY <1>1, <2>7 DEF PrintedSince
  <2>4. ASSUME NEW l \in Rungs  PROVE LossBound(c(u), u, l)'
    BY <1>1, <1>12, <1>13, <2>1, <2>7 DEF LossBound
  <2>5. TradeBound(c(u), u)'  BY <1>1, <1>12, <2>1, <2>2, <2>3, <2>7, <2>8 DEF TradeBound, Claimed
  <2>6. (u \notin warmed => c(u) = NoStats)'  BY <1>12, <2>1, <2>2
  <2> QED  BY <2>4, <2>5, <2>6 DEF CalBound, c
<1>15. CalBound(t)'
  <2>1. gone[t] \in Amounts /\ level[t] \in Amounts /\ bookHad \in Amounts /\ unseen[t] \in Amounts
    BY <1>3, <1>4 DEF CalTypes
  <2>2. /\ c(t).shrink \in Amounts /\ c(t).traded \in Sided /\ c(t).unattributed \in Nat
        /\ (c(t).last # <<>> => c(t).last[1] \in Amounts)
    BY <1>11 DEF Tally
  <2>3. ASSUME NEW l \in Rungs  PROVE LossBound(c(t), t, l)'
    <3>1. LossBound(c(t), t, l) /\ polling = t  BY <1>4, <1>12
    <3>2. polling' # t  BY <1>1, <1>4, <1>13
    <3> DEFINE p == PageOf(bookHad)[l]
    <3>3. p = bookHad[l] \/ p = 0  BY <1>4, PagesAreLess
    <3>4. /\ gone[t][l] \in Nat /\ level[t][l] \in Nat /\ bookHad[l] \in Nat /\ unseen[t][l] \in Nat
          /\ c(t).shrink[l] \in Nat /\ (c(t).last # <<>> => c(t).last[1][l] \in Nat)
      BY <2>1, <2>2, AmountsAreNumbers
    <3>5. unseen'[t][l] = unseen[t][l] + bookHad[l] - p  BY <1>16
    <3> HIDE DEF p
    <3>6. /\ c(t).shrink[l] <= gone[t][l] + unseen[t][l]
          /\ c(t).last # <<>> => c(t).shrink[l] + c(t).last[1][l] - level[t][l] <= gone[t][l] + unseen[t][l]
          /\ LossNow(c(t), l) <= gone[t][l] + unseen[t][l]
          /\ LossNow(c(t), l) + bookHad[l] - level[t][l] <= gone[t][l] + unseen[t][l]
      BY <3>1 DEF LossBound
    <3>7. CASE absent
      <4>1. c(t)' = c(t)  BY <1>10, <1>11, <3>7 DEF Tallied
      <4>2. c(t).shrink[l] <= gone[t][l] + unseen'[t][l]  BY ONLY <3>3, <3>4, <3>5, <3>6
      <4>3. ASSUME c(t).last # <<>>
            PROVE  c(t).shrink[l] + c(t).last[1][l] - level[t][l] <= gone[t][l] + unseen'[t][l]
        <5>1. c(t).last[1][l] \in Nat  BY <3>4, <4>3
        <5>2. c(t).shrink[l] + c(t).last[1][l] - level[t][l] <= gone[t][l] + unseen[t][l]  BY <3>6, <4>3
        <5> QED  BY ONLY <3>3, <3>4, <3>5, <5>1, <5>2
      <4> QED  BY <1>1, <3>2, <4>1, <4>2, <4>3 DEF LossBound
    <3>8. CASE ~absent
      <4> DEFINE lost == IF c(t).last # <<>> /\ c(t).last[1][l] > p
                         THEN c(t).shrink[l] + c(t).last[1][l] - p ELSE c(t).shrink[l]
      <4>1. c(t)'.shrink[l] = lost /\ c(t)'.last = <<PageOf(bookHad)>>
        BY <1>10, <1>11, <3>8 DEF Tallied, p
      <4>2. c(t)'.last # <<>> => c(t)'.last[1][l] = p  BY <4>1 DEF p
      <4>6. p \in Nat /\ p <= bookHad[l]  BY ONLY <3>3, <3>4
      <4>3. lost \in Int /\ lost <= LossNow(c(t), l) + bookHad[l] - p /\ LossNow(c(t), l) \in Int
        <5>1. CASE c(t).last # <<>>
          <6> DEFINE a == c(t).last[1][l]
          <6>1. a \in Nat /\ c(t).shrink[l] \in Nat /\ bookHad[l] \in Nat  BY <3>4, <5>1
          <6>2. lost = IF a > p THEN c(t).shrink[l] + a - p ELSE c(t).shrink[l]  BY <5>1
          <6>3. LossNow(c(t), l) = IF a > bookHad[l] THEN c(t).shrink[l] + a - bookHad[l] ELSE c(t).shrink[l]
            BY <5>1 DEF LossNow
          <6> HIDE DEF a, lost
          <6>4. \A k, m, b, q \in Nat : q <= b
                  => (IF m > q THEN k + m - q ELSE k) <= (IF m > b THEN k + m - b ELSE k) + b - q
            OBVIOUS
          <6> QED  BY ONLY <4>6, <6>1, <6>2, <6>3, <6>4
        <5>2. CASE c(t).last = <<>>
          <6>1. lost = c(t).shrink[l] /\ LossNow(c(t), l) = c(t).shrink[l]  BY <5>2 DEF LossNow
          <6> HIDE DEF lost
          <6> QED  BY ONLY <3>4, <4>6, <6>1
        <5> QED  BY <5>1, <5>2
      <4> HIDE DEF lost
      <4>7. \A k, now \in Int : \A g, d, b, q, v \in Nat :
              q <= b /\ k <= now + b - q /\ now <= g + d /\ now + b - v <= g + d
                => k <= g + (d + b - q) /\ k + q - v <= g + (d + b - q)
        OBVIOUS
      <4>4. lost <= gone[t][l] + unseen'[t][l]
        BY ONLY <3>4, <3>5, <3>6, <4>3, <4>6, <4>7
      <4>5. lost + p - level[t][l] <= gone[t][l] + unseen'[t][l]
        BY ONLY <3>4, <3>5, <3>6, <4>3, <4>6, <4>7
      <4> QED  BY <1>1, <3>2, <4>1, <4>2, <4>4, <4>5 DEF LossBound
    <3> QED  BY <3>7, <3>8
  <2>4. TradeBound(c(t), t)'
    <3>1. Unread(t)' = {}  BY <1>1, <1>5 DEF Unread, news
    <3>2. Cardinality({}) = 0  BY FS_EmptySet
    <3>3. "bid" \in BookSides /\ "ask" \in BookSides  BY DEF BookSides
    <3>4. c(t).traded["bid"] \in Nat /\ c(t).traded["ask"] \in Nat
      BY <2>2, <3>3, SidedValues
    <3>7. PrintedSince(t) \in Int /\ prior[t] \in Nat  BY <1>3, TapesAreFinite
    <3>8. /\ PrintedSince(t)' = IF t \in warmed THEN PrintedSince(t) ELSE 0
          /\ prior'[t] <= Len(prints'[t])
      <4>1. prior[t] <= Len(prints[t])  BY <1>12 DEF TradeBound
      <4>2. CASE t \in warmed
        <5>1. prior'[t] = prior[t] /\ prints' = prints  BY <1>1, <4>2
        <5> QED  BY <4>1, <4>2, <5>1 DEF PrintedSince
      <4>3. CASE t \notin warmed
        <5>1. prior'[t] = Len(prints[t]) /\ prints' = prints  BY <1>1, <1>4, <4>3
        <5>2. PrintedSince(t)' = Len(prints[t]) - Len(prints[t])  BY <5>1 DEF PrintedSince
        <5> QED  BY <1>4, <4>3, <5>1, <5>2
      <4> QED  BY <4>2, <4>3
    <3>5. Claimed(c(t))' <= PrintedSince(t)' /\ Claimed(c(t))' \in Nat
      <4>1. /\ TradedAt(row, "bid") \in Nat /\ TradedAt(row, "ask") \in Nat /\ TradedAt(row, "unknown") \in Nat
            /\ TradedAt(row, "bid") + TradedAt(row, "ask") + TradedAt(row, "unknown")
                 <= Cardinality(Counted(t, news))
            /\ Cardinality(Counted(t, news)) \in Nat
        BY <1>6, <1>7, <1>10, CountsAddUp, CountsAreNumbers
      <4>3. Claimed(c(t)) \in Nat  BY <1>11, ClaimsAreNumbers
      <4>4. Claimed(c(t)) + Cardinality(Counted(t, news)) <= PrintedSince(t)' /\ PrintedSince(t)' \in Int
        <5>1. CASE t \notin warmed
          <6>1. Counted(t, news) = {}  BY <5>1 DEF Counted
          <6>2. c(t) = NoStats  BY <1>4, <1>12, <5>1
          <6>3. Claimed(c(t)) = 0  BY <6>2, <3>3 DEF Claimed, NoStats
          <6>4. PrintedSince(t)' = 0  BY <5>1, <3>8
          <6>5. Cardinality(Counted(t, news)) = 0  BY <6>1, <3>2
          <6> QED  BY ONLY <6>3, <6>4, <6>5
        <5>2. CASE t \in warmed
          <6>1. Counted(t, news) = Unread(t)  BY <1>5, <5>2 DEF Counted
          <6>2. PrintedSince(t)' = PrintedSince(t)  BY <5>2, <3>8
          <6> QED  BY <1>4, <1>12, <5>2, <6>1, <6>2, <3>7 DEF TradeBound
        <5> QED  BY <5>1, <5>2
      <4>5. CASE absent
        <5>1. c(t)' = c(t)  BY <1>10, <1>11, <4>5 DEF Tallied
        <5>2. Claimed(c(t))' = Claimed(c(t))  BY <5>1
        <5> QED  BY ONLY <5>2, <4>1, <4>3, <4>4
      <4>6. CASE ~absent
        <5>1. /\ c(t)'.traded["bid"] = c(t).traded["bid"] + TradedAt(row, "bid")
              /\ c(t)'.traded["ask"] = c(t).traded["ask"] + TradedAt(row, "ask")
              /\ c(t)'.unattributed = c(t).unattributed + TradedAt(row, "unknown")
          BY <1>10, <1>11, <4>6, <3>3 DEF Tallied
        <5>2. Claimed(c(t))' = Claimed(c(t)) + TradedAt(row, "bid") + TradedAt(row, "ask") + TradedAt(row, "unknown")
          <6>1. Claimed(c(t))' = c(t)'.traded["bid"] + c(t)'.traded["ask"] + c(t)'.unattributed  BY DEF Claimed
          <6>2. Claimed(c(t)) = c(t).traded["bid"] + c(t).traded["ask"] + c(t).unattributed  BY DEF Claimed
          <6>3. \A x \in Nat, y \in Nat, z \in Nat, k \in Nat, l \in Nat, m \in Nat :
                  (x + k) + (y + l) + (z + m) = (x + y + z) + k + l + m
            OBVIOUS
          <6>4. c(t).unattributed \in Nat  BY <2>2
          <6>5. Claimed(c(t))' = (c(t).traded["bid"] + TradedAt(row, "bid")) + (c(t).traded["ask"] + TradedAt(row, "ask"))
                                 + (c(t).unattributed + TradedAt(row, "unknown"))
            BY Zenon, <6>1, <5>1
          <6>6. PICK x \in Nat, y \in Nat, z \in Nat :
                  x = c(t).traded["bid"] /\ y = c(t).traded["ask"] /\ z = c(t).unattributed
            BY Zenon, <6>4, <3>4
          <6>7. PICK k \in Nat, l \in Nat, m \in Nat :
                  k = TradedAt(row, "bid") /\ l = TradedAt(row, "ask") /\ m = TradedAt(row, "unknown")
            BY Zenon, <4>1
          <6>8. (x + k) + (y + l) + (z + m) = (x + y + z) + k + l + m  OBVIOUS
          <6> QED  BY Zenon, <6>2, <6>5, <6>6, <6>7, <6>8
        <5> QED  BY ONLY <5>2, <4>1, <4>3, <4>4
      <4> QED  BY <4>5, <4>6
    <3> QED
      <4>1. Cardinality(Unread(t))' = 0  BY <3>1, <3>2
      <4>2. Claimed(c(t))' + Cardinality(Unread(t))' <= PrintedSince(t)'  BY ONLY <4>1, <3>5
      <4> QED  BY ONLY <4>2, <3>8 DEF TradeBound
  <2>5. (t \in warmed)'  BY <1>1
  <2> QED  BY <2>3, <2>4, <2>5 DEF CalBound, c
<1> QED  BY <1>9, <1>14, <1>15 DEF CalInv

-----------------------------------------------------------------------------
(* What calibrate_websocket makes of its rows, row by row.                  *)
Changed == [ticker : Rolling, type : {"delta"}, side : BookSides, delta : {1, -1}]
StreamRow == Changed \cup [ticker : Rolling, type : {"snapshot"}, side : {""}, delta : {0}]

Streamed(t, acc, row) ==
  IF row.ticker # t THEN acc
  ELSE IF row.type = "snapshot" THEN [acc EXCEPT !.snapshots = @ + 1]
  ELSE IF row.delta >= 0 THEN acc
  ELSE [acc EXCEPT !.shrink[row.side] = @ - row.delta]

StreamFolder(t, rows_) ==
  CHOOSE iter : iter = [S \in SUBSET (DOMAIN rows_) |->
    IF S = {} THEN NoStream ELSE Streamed(t, iter[S \ {Max(S)}], rows_[Max(S)])]

StreamTally ==
  [shrink : Sided, traded : Sided, unattributed : Nat, snapshots : Nat, last : {<<>>}]

LEMMA NothingLost == NoStream \in StreamTally
<1>1. NoStream = [shrink |-> [s \in BookSides |-> 0], traded |-> [s \in BookSides |-> 0],
                  unattributed |-> 0, snapshots |-> 0, last |-> <<>>]
  BY DEF NoStream, NoStats
<1>2. [s \in BookSides |-> 0] \in Sided  BY DEF Sided
<1> QED  BY <1>1, <1>2 DEF StreamTally

LEMMA LossesAreNumbers ==
  ASSUME NEW c \in StreamTally
  PROVE  LostBySides(c) \in Nat
<1>1. c.shrink \in Sided  BY DEF StreamTally
<1>2. c.shrink["bid"] \in Nat /\ c.shrink["ask"] \in Nat  BY <1>1, SidedValues DEF BookSides
<1> QED  BY <1>2 DEF LostBySides

(* A row of one's own market that takes a unit off a level is a unit lost.  *)
LEMMA StreamLoses ==
  ASSUME NEW t, NEW acc \in StreamTally, NEW row \in Changed, row.delta = -1, row.ticker = t
  PROVE  Streamed(t, acc, row) \in StreamTally /\ LostBySides(Streamed(t, acc, row)) = LostBySides(acc) + 1
<1> DEFINE e == Streamed(t, acc, row)
           side == row.side
           more == [acc.shrink EXCEPT ![side] = acc.shrink[side] + 1]
<1>1. row.type # "snapshot" /\ side \in BookSides  BY DEF Changed
<1>2. acc.shrink \in Sided  BY DEF StreamTally
<1>3. "bid" \in BookSides /\ "ask" \in BookSides  BY DEF BookSides
<1>4. acc.shrink["bid"] \in Nat /\ acc.shrink["ask"] \in Nat /\ acc.shrink[side] \in Nat
  BY <1>1, <1>2, <1>3, SidedValues
<1>5. more \in Sided
  <2>1. acc.shrink[side] + 1 \in Nat  BY <1>4
  <2> QED  BY <2>1, <1>2 DEF Sided
<1>6. e = [acc EXCEPT !.shrink = more]
  <2>1. acc.shrink[side] - row.delta = acc.shrink[side] + 1  BY <1>4
  <2>2. ~(row.delta >= 0)  OBVIOUS
  <2>3. e = [acc EXCEPT !.shrink = [acc.shrink EXCEPT ![side] = acc.shrink[side] - row.delta]]
    BY <1>1, <2>2 DEF Streamed, StreamTally
  <2> QED  BY <2>1, <2>3
<1> HIDE DEF e
<1>7. e.shrink = more /\ e \in StreamTally
  <2> HIDE DEF more
  <2> QED  BY <1>5, <1>6 DEF StreamTally
<1>8. \A s \in BookSides : more[s] = IF s = side THEN acc.shrink[side] + 1 ELSE acc.shrink[s]
  BY <1>2 DEF Sided
<1> HIDE DEF more
<1>9. CASE side = "bid"
  <2>1. "ask" # side  BY <1>9
  <2>2. more["bid"] = acc.shrink["bid"] + 1  BY ONLY <1>8, <1>3, <1>9
  <2>3. more["ask"] = acc.shrink["ask"]  BY ONLY <1>8, <1>3, <2>1
  <2> QED  BY <1>4, <1>7, <2>2, <2>3 DEF LostBySides, e
<1>10. CASE side = "ask"
  <2>1. "bid" # side  BY <1>10
  <2>2. more["ask"] = acc.shrink["ask"] + 1  BY ONLY <1>8, <1>3, <1>10
  <2>3. more["bid"] = acc.shrink["bid"]  BY ONLY <1>8, <1>3, <2>1
  <2> QED  BY <1>4, <1>7, <2>2, <2>3 DEF LostBySides, e
<1> QED  BY <1>1, <1>9, <1>10 DEF BookSides, e

(* Any other row loses nothing.                                             *)
LEMMA StreamKeeps ==
  ASSUME NEW t, NEW acc \in StreamTally, NEW row \in StreamRow, ~(row \in Changed /\ row.delta = -1 /\ row.ticker = t)
  PROVE  Streamed(t, acc, row) \in StreamTally /\ LostBySides(Streamed(t, acc, row)) = LostBySides(acc)
<1>1. CASE row.ticker # t  BY <1>1 DEF Streamed
<1>2. CASE row.ticker = t /\ row.type = "snapshot"
  <2>1. Streamed(t, acc, row) = [acc EXCEPT !.snapshots = @ + 1]  BY <1>2 DEF Streamed
  <2>2. acc.snapshots + 1 \in Nat  BY DEF StreamTally
  <2> QED  BY <2>1, <2>2 DEF StreamTally, LostBySides
<1>3. CASE row.ticker = t /\ row.type # "snapshot"
  <2>1. row \in Changed  BY <1>3 DEF StreamRow
  <2>2. row.delta = 1  BY <1>3, <2>1 DEF Changed
  <2>3. Streamed(t, acc, row) = acc  BY <1>3, <2>2 DEF Streamed
  <2> QED  BY <2>3
<1> QED  BY <1>1, <1>2, <1>3

LEMMA StreamStays ==
  ASSUME NEW t, NEW acc \in StreamTally, NEW row \in StreamRow
  PROVE  Streamed(t, acc, row) \in StreamTally
BY StreamLoses, StreamKeeps

LEMMA StreamFolds ==
  ASSUME NEW t, NEW q \in Seq(StreamRow), NEW g \in [StreamTally \X StreamRow -> StreamTally],
         \A acc \in StreamTally, row \in StreamRow : g[<<acc, row>>] = Streamed(t, acc, row)
  PROVE  FoldsIn(StreamFolder(t, q), StreamTally, Len(q), q, NoStream, g)
<1> DEFINE n == Len(q)
           F == StreamFolder(t, q)
<1>1. n \in Nat /\ DOMAIN q = 1..n  OBVIOUS
<1>2. \A k \in 1..n : q[k] \in StreamRow  BY ElementOfSeq
<1> HIDE DEF n
<1>3. NoStream \in StreamTally  BY NothingLost
<1>4. PICK f \in [SUBSET (1..n) -> StreamTally] : FoldsUp(f, n, q, NoStream, g)
  BY <1>1, <1>2, <1>3, FoldExists
<1>5. \A S \in SUBSET (1..n) : S # {} => Max(S) \in 1..n /\ S \ {Max(S)} \in SUBSET (1..n)
  BY <1>1, LargestNumber
<1>6. \A S \in SUBSET (1..n) :
        f[S] = IF S = {} THEN NoStream ELSE Streamed(t, f[S \ {Max(S)}], q[Max(S)])
  <2>1. TAKE S \in SUBSET (1..n)
  <2>2. CASE S = {}  BY <2>2, <1>4 DEF FoldsUp
  <2>3. CASE S # {}
    <3>1. f[S \ {Max(S)}] \in StreamTally /\ q[Max(S)] \in StreamRow  BY <2>3, <1>2, <1>5
    <3> QED  BY <3>1, <2>3, <1>4 DEF FoldsUp
  <2> QED  BY <2>2, <2>3
<1>7. f = [S \in SUBSET (DOMAIN q) |-> IF S = {} THEN NoStream ELSE Streamed(t, f[S \ {Max(S)}], q[Max(S)])]
  BY <1>1, <1>6
<1>8. F = [S \in SUBSET (DOMAIN q) |-> IF S = {} THEN NoStream ELSE Streamed(t, F[S \ {Max(S)}], q[Max(S)])]
  <2>1. \E iter : iter = [S \in SUBSET (DOMAIN q) |->
                            IF S = {} THEN NoStream ELSE Streamed(t, iter[S \ {Max(S)}], q[Max(S)])]
    BY <1>7
  <2> QED  BY <2>1 DEF StreamFolder
<1> HIDE DEF F
<1>9. F[{}] = NoStream  BY <1>8
<1>10. ASSUME NEW S \in SUBSET (1..n), S # {}, F[S \ {Max(S)}] \in StreamTally
       PROVE  F[S] = g[<<F[S \ {Max(S)}], q[Max(S)]>>]
  <2>1. F[S] = Streamed(t, F[S \ {Max(S)}], q[Max(S)])  BY <1>8, <1>10, <1>1
  <2>2. q[Max(S)] \in StreamRow  BY <1>10, <1>5, <1>2
  <2> QED  BY <2>1, <2>2, <1>10
<1>11. FoldsIn(F, StreamTally, n, q, NoStream, g)  BY <1>9, <1>10 DEF FoldsIn
<1> QED  BY <1>11 DEF F, n

LostOf(t, q) == StreamFolder(t, q)[1..Len(q)]

LEMMA StreamAppends ==
  ASSUME NEW t, NEW q \in Seq(StreamRow), NEW row \in StreamRow
  PROVE  LostOf(t, q) \in StreamTally /\ LostOf(t, Append(q, row)) = Streamed(t, LostOf(t, q), row)
<1> DEFINE g == [x \in StreamTally \X StreamRow |-> Streamed(t, x[1], x[2])]
           r == Append(q, row)
           n == Len(q)
<1>1. g \in [StreamTally \X StreamRow -> StreamTally]  BY StreamStays
<1>2. \A acc \in StreamTally, y \in StreamRow : g[<<acc, y>>] = Streamed(t, acc, y)  OBVIOUS
<1>3. n \in Nat /\ r \in Seq(StreamRow) /\ Len(r) = n + 1 /\ r[n + 1] = row /\ \A i \in 1..n : r[i] = q[i]
  BY AppendProperties
<1>4. \A i \in 1..(n + 1) : r[i] \in StreamRow  BY <1>3, ElementOfSeq
<1> HIDE DEF g, r, n
<1>5. FoldsIn(StreamFolder(t, q), StreamTally, n, q, NoStream, g)  BY <1>1, <1>2, StreamFolds DEF n
<1>6. FoldsIn(StreamFolder(t, r), StreamTally, n + 1, r, NoStream, g)
  <2>1. FoldsIn(StreamFolder(t, r), StreamTally, Len(r), r, NoStream, g)  BY <1>1, <1>2, <1>3, StreamFolds
  <2> QED  BY <2>1, <1>3
<1>7. NoStream \in StreamTally  BY NothingLost
<1> DEFINE h == StreamFolder(t, q)  k == StreamFolder(t, r)
<1> HIDE DEF h, k
<1>9. FoldsIn(h, StreamTally, n, q, NoStream, g) /\ FoldsIn(k, StreamTally, n + 1, r, NoStream, g)
  BY <1>5, <1>6 DEF h, k
<1>8. h[1..n] \in StreamTally /\ k[1..(n + 1)] = g[<<h[1..n], r[n + 1]>>]
  <2>1. Continued(StreamTally, StreamRow, n, q, r, NoStream, g, h, k)
    BY ONLY <1>1, <1>3, <1>4, <1>7, <1>9 DEF Continued
  <2>2. FoldedOnce(StreamTally, n, r, g, h, k)  BY ONLY <2>1, FoldAppends
  <2> QED  BY ONLY <2>2 DEF FoldedOnce
<1>10. LostOf(t, q) = h[1..n] /\ LostOf(t, r) = k[1..(n + 1)]  BY <1>3 DEF LostOf, h, k, n
<1> QED  BY <1>2, <1>3, <1>8, <1>10 DEF r

LEMMA NothingStreamed == \A t : LostOf(t, <<>>) = NoStream
<1>1. TAKE t
<1> DEFINE g == [x \in StreamTally \X StreamRow |-> Streamed(t, x[1], x[2])]
<1>2. g \in [StreamTally \X StreamRow -> StreamTally]  BY StreamStays
<1>3. \A acc \in StreamTally, y \in StreamRow : g[<<acc, y>>] = Streamed(t, acc, y)  OBVIOUS
<1> HIDE DEF g
<1>4. <<>> \in Seq(StreamRow) /\ Len(<<>>) = 0 /\ 1..0 = {}  OBVIOUS
<1>5. FoldsIn(StreamFolder(t, <<>>), StreamTally, Len(<<>>), <<>>, NoStream, g)  BY <1>2, <1>3, <1>4, StreamFolds
<1> QED  BY <1>4, <1>5 DEF FoldsIn, LostOf

LEMMA CalibrateWebsocketIs ==
  ASSUME NEW t, wsRows \in Seq(StreamRow)
  PROVE  CalibrateWebsocket(t) =
           [LostOf(t, wsRows) EXCEPT !.traded =
              [s \in BookSides |-> IF s = "bid" THEN TradesSince(t) \div 2 ELSE TradesSince(t) - TradesSince(t) \div 2]]
<1> DEFINE op(acc, row) == Streamed(t, acc, row)
           halves == [s \in BookSides |-> IF s = "bid" THEN TradesSince(t) \div 2 ELSE TradesSince(t) - TradesSince(t) \div 2]
<1>1. CalibrateWebsocket(t) = [FoldLeft(op, NoStream, wsRows) EXCEPT !.traded = halves]
  BY Zenon DEF CalibrateWebsocket, Streamed
<1>2. FoldLeft(op, NoStream, wsRows) = StreamFolder(t, wsRows)[DOMAIN wsRows]
  BY Zenon DEF FoldLeft, MapThenFoldSet, StreamFolder
<1>3. DOMAIN wsRows = 1..Len(wsRows)  OBVIOUS
<1>4. FoldLeft(op, NoStream, wsRows) = LostOf(t, wsRows)  BY <1>2, <1>3 DEF LostOf
<1> HIDE DEF op, halves
<1> QED  BY <1>1, <1>4 DEF halves

(* While the feed is recorded every trade is a row that lost its unit.      *)
StreamTypes ==
  /\ wsRows \in Seq(StreamRow) /\ wsSince \in [Rolling -> Nat] /\ wsOn \in BOOLEAN

StreamInv ==
  StreamTypes /\ (wsOn => \A t \in Rolling : TradesSince(t) <= LostBySides(LostOf(t, wsRows)))

LEMMA TradesAreCounted ==
  ASSUME CalTypes, StreamTypes, NEW t \in Rolling
  PROVE  TradesSince(t) \in Int
<1>1. prints[t] \in Seq(Consumed) /\ wsSince[t] \in Nat  BY DEF CalTypes, StreamTypes
<1>2. Len(prints[t]) \in Nat  BY <1>1
<1> QED  BY <1>1, <1>2 DEF TradesSince

LEMMA StreamLosesAsMoves ==
  ASSUME CalTypes, StreamInv, NEW t \in Rolling, NEW l \in Rungs, NEW by \in {1, -1}, Moves(t, l, by),
         \/ prints' = prints
         \/ by = -1 /\ \E x \in Consumed : prints' = [prints EXCEPT ![t] = Append(@, x)]
  PROVE  StreamInv'
<1> DEFINE row == [ticker |-> t, type |-> "delta", side |-> l[1], delta |-> by]
<1>1. wsRows' = (IF wsOn THEN Append(wsRows, row) ELSE wsRows) /\ UNCHANGED <<wsOn, wsSince>>  BY DEF Moves
<1>2. row \in Changed /\ row.delta = by /\ row.ticker = t  BY DEF Changed, Rungs
<1>3. wsRows \in Seq(StreamRow) /\ StreamTypes  BY DEF StreamInv, StreamTypes
<1> HIDE DEF row
<1>4. row \in StreamRow  BY <1>2 DEF StreamRow
<1>5. StreamTypes'
  <2>1. wsRows' \in Seq(StreamRow)  BY <1>1, <1>3, <1>4, AppendProperties
  <2> QED  BY <2>1, <1>1, <1>3 DEF StreamTypes
<1>6. ASSUME wsOn, NEW u \in Rolling  PROVE TradesSince(u)' <= LostBySides(LostOf(u, wsRows))'
  <2>1. wsRows' = Append(wsRows, row)  BY <1>1, <1>6
  <2>2. LostOf(u, wsRows) \in StreamTally /\ LostOf(u, wsRows)' = Streamed(u, LostOf(u, wsRows), row)
    BY <1>3, <1>4, <2>1, StreamAppends
  <2>3. LostBySides(LostOf(u, wsRows))' = LostBySides(LostOf(u, wsRows)) + (IF u = t /\ by = -1 THEN 1 ELSE 0)
    <3>1. LostBySides(LostOf(u, wsRows))' = LostBySides(Streamed(u, LostOf(u, wsRows), row))  BY <2>2 DEF LostBySides
    <3>2. CASE u = t /\ by = -1
      <4>1. LostBySides(Streamed(u, LostOf(u, wsRows), row)) = LostBySides(LostOf(u, wsRows)) + 1
        BY <1>2, <2>2, <3>2, StreamLoses
      <4> QED  BY <3>1, <3>2, <4>1
    <3>3. CASE ~(u = t /\ by = -1)
      <4>1. LostBySides(Streamed(u, LostOf(u, wsRows), row)) = LostBySides(LostOf(u, wsRows))
        BY <1>2, <1>4, <2>2, <3>3, StreamKeeps
      <4>2. LostBySides(LostOf(u, wsRows)) \in Nat  BY <2>2, LossesAreNumbers
      <4> QED  BY <3>1, <3>3, <4>1, <4>2
    <3> QED  BY <3>2, <3>3
  <2>4. TradesSince(u) <= LostBySides(LostOf(u, wsRows))  BY <1>6 DEF StreamInv
  <2>5. LostBySides(LostOf(u, wsRows)) \in Nat /\ TradesSince(u) \in Int
    BY <1>3, <2>2, LossesAreNumbers, TradesAreCounted
  <2>6. prints[u] \in Seq(Consumed) /\ Len(prints[u]) \in Nat /\ wsSince[u] \in Nat
    <3>1. prints[u] \in Seq(Consumed) /\ wsSince[u] \in Nat  BY <1>3 DEF CalTypes, StreamTypes
    <3> QED  BY <3>1
  <2>7. TradesSince(u)' <= TradesSince(u) + (IF u = t /\ by = -1 THEN 1 ELSE 0) /\ TradesSince(u)' \in Int
    <3>1. CASE prints' = prints  BY <3>1, <1>1, <2>6 DEF TradesSince
    <3>2. CASE by = -1 /\ \E x \in Consumed : prints' = [prints EXCEPT ![t] = Append(@, x)]
      <4>1. PICK x \in Consumed : prints' = [prints EXCEPT ![t] = Append(@, x)]  BY <3>2
      <4>2. CASE u = t
        <5>1. prints' [u] = Append(prints[u], x)  BY <4>1, <4>2 DEF CalTypes
        <5>2. Len(prints'[u]) = Len(prints[u]) + 1  BY <5>1, <2>6
        <5> QED  BY <5>2, <1>1, <2>6, <3>2, <4>2 DEF TradesSince
      <4>3. CASE u # t
        <5>1. prints'[u] = prints[u]  BY <4>1, <4>3 DEF CalTypes
        <5> QED  BY <5>1, <1>1, <2>6, <4>3 DEF TradesSince
      <4> QED  BY <4>2, <4>3
    <3> QED  BY <3>1, <3>2
  <2> QED
    <3>1. CASE u = t /\ by = -1
      <4>1. LostBySides(LostOf(u, wsRows))' = LostBySides(LostOf(u, wsRows)) + 1 /\ TradesSince(u)' <= TradesSince(u) + 1
        BY Zenon, <3>1, <2>3, <2>7
      <4> QED  BY ONLY <4>1, <2>4, <2>5, <2>7
    <3>2. CASE ~(u = t /\ by = -1)
      <4>1. LostBySides(LostOf(u, wsRows))' = LostBySides(LostOf(u, wsRows)) + 0 /\ TradesSince(u)' <= TradesSince(u) + 0
        BY Zenon, <3>2, <2>3, <2>7
      <4> QED  BY ONLY <4>1, <2>4, <2>5, <2>7
    <3> QED  BY <3>1, <3>2
<1> QED  BY <1>1, <1>5, <1>6 DEF StreamInv

LEMMA SnapshotKeeps ==
  ASSUME CalInv, StreamInv, NEW t \in Rolling, Snapshot(t)
  PROVE  StreamInv'
<1> DEFINE row == [ticker |-> t, type |-> "snapshot", side |-> "", delta |-> 0]
<1>1. wsRows' = Append(wsRows, row) /\ UNCHANGED <<prints, wsOn, wsSince>> /\ wsOn  BY DEF Snapshot
<1>2. row \in StreamRow  BY DEF StreamRow
<1>3. row.delta # -1  OBVIOUS
<1>4. wsRows \in Seq(StreamRow) /\ StreamTypes  BY DEF StreamInv, StreamTypes
<1> HIDE DEF row
<1>5. StreamTypes'
  <2>1. wsRows' \in Seq(StreamRow)  BY <1>1, <1>2, <1>4, AppendProperties
  <2> QED  BY <2>1, <1>1, <1>4 DEF StreamTypes
<1>6. ASSUME NEW u \in Rolling  PROVE TradesSince(u)' <= LostBySides(LostOf(u, wsRows))'
  <2>1. LostOf(u, wsRows) \in StreamTally /\ LostOf(u, wsRows)' = Streamed(u, LostOf(u, wsRows), row)
    BY <1>1, <1>2, <1>4, StreamAppends
  <2>2. LostBySides(Streamed(u, LostOf(u, wsRows), row)) = LostBySides(LostOf(u, wsRows))  BY <1>2, <1>3, <2>1, StreamKeeps
  <2>3. LostBySides(LostOf(u, wsRows))' = LostBySides(LostOf(u, wsRows))
    <3>1. LostBySides(LostOf(u, wsRows))' = LostBySides(Streamed(u, LostOf(u, wsRows), row))  BY <2>1 DEF LostBySides
    <3> QED  BY <3>1, <2>2
  <2>4. TradesSince(u)' = TradesSince(u)  BY <1>1 DEF TradesSince
  <2> QED  BY <1>1, <2>3, <2>4 DEF StreamInv
<1> QED  BY <1>5, <1>6 DEF StreamInv

LEMMA CalibrationStarts == CalibrationInit => CalInv /\ StreamInv
<1> SUFFICES ASSUME CalibrationInit  PROVE CalInv /\ StreamInv  OBVIOUS
<1> DEFINE ones == [l \in Rungs |-> 1]
<1>1. /\ level = [t \in Rolling |-> ones] /\ prints = [t \in Rolling |-> <<"bid">>]
      /\ gone = [t \in Rolling |-> Nowhere] /\ polling = "" /\ bookHad = Nowhere /\ warmed = {} /\ calRows = <<>>
      /\ unseen = [t \in Rolling |-> Nowhere] /\ prior = [t \in Rolling |-> 0]
      /\ wsOn = TRUE /\ wsRows = <<>> /\ wsSince = [t \in Rolling |-> Len(prints[t])]
  BY DEF CalibrationInit
<1>2. ones \in Amounts /\ Nowhere \in Amounts  BY DEF Amounts, Nowhere
<1>3. \A l \in Rungs : Nowhere[l] = 0  BY DEF Nowhere
<1> HIDE DEF ones
<1>4. <<"bid">> \in Seq(Consumed) /\ Len(<<"bid">>) = 1  BY DEF Consumed
<1>5. CalTypes
  <2>1. /\ level \in [Rolling -> Amounts] /\ gone \in [Rolling -> Amounts]
        /\ unseen \in [Rolling -> Amounts] /\ prior \in [Rolling -> Nat]
    BY <1>1, <1>2
  <2>2. prints \in [Rolling -> Seq(Consumed)]  BY <1>1, <1>4
  <2>3. calRows \in Seq(PolledRow)
    <3>1. calRows = <<>> /\ <<>> \in Seq(PolledRow)  BY Zenon, <1>1, EmptySeq
    <3> QED  BY Zenon, <3>1
  <2> QED  BY <1>1, <1>2, <2>1, <2>2, <2>3 DEF CalTypes
<1>6. "" \notin Rolling  BY Zenon, CalibrationAssumption
<1>7. ASSUME NEW t \in Rolling  PROVE CalBound(t)
  <2>1. CalOf(t, calRows) = NoStats  BY <1>1, NothingPolled
  <2>2. NoStats.last = <<>> /\ \A l \in Rungs : NoStats.shrink[l] = 0  BY DEF NoStats, Nowhere
  <2>3. ASSUME NEW l \in Rungs  PROVE LossBound(NoStats, t, l)
    <3>1. gone[t][l] = 0 /\ unseen[t][l] = 0  BY <1>1, <1>3
    <3>2. polling # t  BY <1>1, <1>6
    <3>3. NoStats.last = <<>> /\ NoStats.shrink[l] = 0  BY <2>2
    <3> QED  BY ONLY <3>1, <3>2, <3>3 DEF LossBound
  <2>4. TradeBound(NoStats, t)
    <3>1. prior[t] = 0 /\ t \notin warmed /\ Len(prints[t]) = 1  BY <1>1, <1>4
    <3> QED  BY <3>1 DEF TradeBound
  <2> QED  BY <2>1, <2>3, <2>4 DEF CalBound
<1>8. StreamTypes
  <2>1. \A t \in Rolling : Len(prints[t]) \in Nat  BY <1>1, <1>4
  <2>2. wsSince \in [Rolling -> Nat]  BY <1>1, <2>1
  <2>3. wsRows \in Seq(StreamRow)
    <3>1. wsRows = <<>> /\ <<>> \in Seq(StreamRow)  BY Zenon, <1>1, EmptySeq
    <3> QED  BY Zenon, <3>1
  <2> QED  BY <1>1, <2>2, <2>3 DEF StreamTypes
<1>9. ASSUME NEW t \in Rolling  PROVE TradesSince(t) <= LostBySides(LostOf(t, wsRows))
  <2>1. LostOf(t, wsRows) = NoStream  BY <1>1, NothingStreamed
  <2>2. LostBySides(NoStream) = 0
    <3>1. NoStream.shrink["bid"] = 0 /\ NoStream.shrink["ask"] = 0  BY DEF NoStream, NoStats, BookSides
    <3> QED  BY <3>1 DEF LostBySides
  <2>3. Len(prints[t]) \in Nat /\ wsSince[t] = Len(prints[t])  BY <1>1, <1>4
  <2>4. TradesSince(t) = 0  BY <2>3 DEF TradesSince
  <2> QED  BY <2>1, <2>2, <2>4
<1> QED  BY <1>5, <1>7, <1>8, <1>9 DEF CalInv, StreamInv

(* The market and what was polled are what the first invariant is about.    *)
LEMMA CalStands == CalInv /\ UNCHANGED <<level, prints, gone, polled>> => CalInv'
<1> SUFFICES ASSUME CalInv, UNCHANGED <<level, prints, gone, polled>>  PROVE CalInv'  OBVIOUS
<1>1. UNCHANGED <<level, prints, gone, polling, bookHad, seenTrades, warmed, calRows, unseen, prior>>  BY DEF polled
<1>2. CalTypes /\ \A t \in Rolling : CalBound(t)  BY DEF CalInv
<1>3. CalTypes'  BY <1>1, <1>2 DEF CalTypes
<1>4. ASSUME NEW t \in Rolling  PROVE CalBound(t)'
  <2> DEFINE c == CalOf(t, calRows)
  <2>1. (\A l \in Rungs : LossBound(c, t, l)) /\ TradeBound(c, t) /\ (t \notin warmed => c = NoStats)
    BY <1>2 DEF CalBound
  <2>2. c' = c  BY <1>1
  <2> HIDE DEF c
  <2>3. Unread(t)' = Unread(t)  BY <1>1 DEF Unread
  <2>4. \A l \in Rungs : LossBound(c, t, l)'
    <3>1. TAKE l \in Rungs
    <3>2. LossNow(c, l)' = LossNow(c, l)  BY <1>1, <2>2 DEF LossNow
    <3> QED  BY <1>1, <2>1, <2>2, <3>2 DEF LossBound
  <2>5. TradeBound(c, t)'  BY <1>1, <2>1, <2>2, <2>3 DEF TradeBound, Claimed, PrintedSince
  <2> QED  BY <1>1, <2>1, <2>2, <2>4, <2>5 DEF CalBound, c
<1> QED  BY <1>3, <1>4 DEF CalInv

LEMMA StreamStands == StreamInv /\ UNCHANGED prints /\ UNCHANGED wsRows /\ UNCHANGED wsSince
                        /\ wsOn' \in BOOLEAN /\ (wsOn' => wsOn) => StreamInv'
BY DEF StreamInv, StreamTypes, TradesSince, LostBySides, LostOf

LEMMA CalibrationGoesOn ==
  CalInv /\ StreamInv /\ (CalibrationStep \/ UNCHANGED calibration) => (CalInv /\ StreamInv)'
<1> SUFFICES ASSUME CalInv, StreamInv, CalibrationStep \/ UNCHANGED calibration  PROVE CalInv' /\ StreamInv'
  OBVIOUS
<1>1. wsOn \in BOOLEAN /\ CalTypes  BY DEF StreamInv, StreamTypes, CalInv
<1>2. CASE UNCHANGED calibration
  <2>1. UNCHANGED <<level, prints, gone, polled, wsOn, wsRows, wsSince>>
    BY <1>2 DEF calibration, market, streamed
  <2> QED  BY <1>1, <2>1, CalStands, StreamStands
<1>3. CASE PollRaises
  <2>1. UNCHANGED <<prints, wsOn, wsRows, wsSince>>  BY <1>3 DEF PollRaises, streamed
  <2> QED  BY <1>1, <1>3, <2>1, PollRaisesKeeps, StreamStands
<1>4. CASE PollTrades
  <2>1. UNCHANGED <<prints, wsOn, wsRows, wsSince>> /\ polling # ""  BY <1>4 DEF PollTrades, market, streamed
  <2>2. PICK t \in Rolling : t = polling  BY <1>1, <2>1 DEF CalTypes
  <2> QED  BY <1>1, <1>4, <2>1, <2>2, PollTradesKeeps, StreamStands
<1>5. CASE StreamEnds
  <2>1. UNCHANGED <<level, prints, gone, polled, wsRows, wsSince>> /\ wsOn' = FALSE
    BY <1>5 DEF StreamEnds, market
  <2> QED  BY <2>1, CalStands, StreamStands
<1>6. ASSUME NEW t \in Rolling, PollBook(t)  PROVE CalInv' /\ StreamInv'
  <2>1. UNCHANGED <<prints, wsOn, wsRows, wsSince>>  BY <1>6 DEF PollBook, market, streamed
  <2> QED  BY <1>1, <1>6, <2>1, PollBookKeeps, StreamStands
<1>7. ASSUME NEW t \in Rolling, Snapshot(t)  PROVE CalInv' /\ StreamInv'
  <2>1. UNCHANGED <<level, prints, gone, polled>>  BY <1>7 DEF Snapshot
  <2> QED  BY <1>7, <2>1, CalStands, SnapshotKeeps
<1>8. ASSUME NEW t \in Rolling, NEW l \in Rungs, NEW by \in {1, -1}, LevelChanges(t, l, by)
      PROVE  CalInv' /\ StreamInv'
  <2>1. Moves(t, l, by) /\ prints' = prints  BY <1>8 DEF LevelChanges
  <2> QED  BY <1>1, <2>1, MovesKeep, StreamLosesAsMoves
<1>9. ASSUME NEW t \in Rolling, NEW l \in Rungs, Prints(t, l)  PROVE CalInv' /\ StreamInv'
  <2>1. Moves(t, l, -1) /\ \E x \in Consumed : prints' = [prints EXCEPT ![t] = Append(@, x)]
    <3>1. PICK known \in BOOLEAN : prints' = [prints EXCEPT ![t] = Append(@, IF known THEN l[1] ELSE "unknown")]
      BY <1>9 DEF Prints
    <3>2. (IF known THEN l[1] ELSE "unknown") \in Consumed  BY DEF Consumed, BookSides, Rungs
    <3> QED  BY <1>9, <3>1, <3>2 DEF Prints
  <2>2. -1 \in {1, -1}  OBVIOUS
  <2>3. PICK by \in {1, -1} : by = -1  BY <2>2
  <2> QED  BY <1>1, <2>1, <2>3, MovesKeep, StreamLosesAsMoves
<1>10. 1 \in {1, -1} /\ -1 \in {1, -1}  OBVIOUS
<1> QED  BY Zenon, <1>2, <1>3, <1>4, <1>5, <1>6, <1>7, <1>8, <1>9, <1>10 DEF CalibrationStep

LEMMA CalibrationFollows ==
  ASSUME CalInv, StreamInv  PROVE CalibrationIsABound
<1> SUFFICES ASSUME NEW t \in Rolling
             PROVE  /\ \A l \in Rungs : Calibrate(t).shrink[l] <= gone[t][l] + unseen[t][l]
                    /\ Calibrate(t).traded["bid"] + Calibrate(t).traded["ask"] + Calibrate(t).unattributed
                         <= Len(prints[t]) - prior[t]
                    /\ wsOn /\ LostBySides(CalibrateWebsocket(t)) > 0
                         => t \in Reported([u \in Rolling |-> CalibrateWebsocket(u)])
  BY Zenon DEF CalibrationIsABound
<1>1. CalTypes /\ CalBound(t)  BY DEF CalInv
<1>2. calRows \in Seq(PolledRow)  BY <1>1 DEF CalTypes
<1>3. Calibrate(t) = CalOf(t, calRows) /\ CalOf(t, calRows) \in Tally
  BY <1>2, CalibrateIs, TalliesAreTyped
<1> DEFINE c == CalOf(t, calRows)
<1>4. (\A l \in Rungs : LossBound(c, t, l)) /\ TradeBound(c, t) /\ (t \notin warmed => c = NoStats)
  BY <1>1 DEF CalBound
<1> HIDE DEF c
<1>5. Calibrate(t) = c /\ c \in Tally  BY <1>3 DEF c
<1>6. \A l \in Rungs : c.shrink[l] <= gone[t][l] + unseen[t][l]  BY <1>4 DEF LossBound
<1>7. Claimed(c) <= Len(prints[t]) - prior[t]
  <2>1. Len(prints[t]) \in Nat /\ prior[t] \in Nat  BY <1>1, TapesAreFinite
  <2>2. CASE t \in warmed
    <3>1. Claimed(c) + Cardinality(Unread(t)) <= Len(prints[t]) - prior[t]
      BY <2>2, <1>4 DEF TradeBound, PrintedSince
    <3>2. Claimed(c) \in Nat /\ Cardinality(Unread(t)) \in Nat  BY <1>1, <1>5, ClaimsAreNumbers, UnreadIsFinite
    <3> QED  BY <3>1, <3>2, <2>1
  <2>3. CASE t \notin warmed
    <3>1. c = NoStats  BY <2>3, <1>4
    <3>2. Claimed(c) = 0  BY <3>1 DEF Claimed, NoStats, BookSides
    <3>3. prior[t] <= Len(prints[t])  BY <1>4 DEF TradeBound
    <3> QED  BY <3>2, <3>3, <2>1
  <2> QED  BY <2>2, <2>3
<1>8. ASSUME wsOn, LostBySides(CalibrateWebsocket(t)) > 0
      PROVE  t \in Reported([u \in Rolling |-> CalibrateWebsocket(u)])
  <2> DEFINE w == CalibrateWebsocket(t)
             l == LostOf(t, wsRows)
             m == TradesSince(t)
             halves == [s \in BookSides |-> IF s = "bid" THEN m \div 2 ELSE m - m \div 2]
  <2>1. StreamTypes /\ wsRows \in Seq(StreamRow)  BY DEF StreamInv, StreamTypes
  <2>2. w = [l EXCEPT !.traded = halves]  BY <2>1, CalibrateWebsocketIs
  <2>3. m <= LostBySides(l) /\ m \in Int  BY <1>1, <1>8, <2>1, TradesAreCounted DEF StreamInv
  <2>4. l \in StreamTally
    <3>1. CASE wsRows = <<>>
      <4>1. l = NoStream  BY <3>1, NothingStreamed
      <4> QED  BY <4>1, NothingLost
    <3>2. CASE wsRows # <<>>
      <4>1. Len(wsRows) \in Nat /\ Len(wsRows) > 0  BY <2>1, <3>2, EmptySeq
      <4>2. wsRows[Len(wsRows)] \in StreamRow  BY <2>1, <4>1, ElementOfSeq
      <4> QED  BY <2>1, <4>2, StreamAppends
    <3> QED  BY <3>1, <3>2
  <2>5. halves["bid"] = m \div 2 /\ halves["ask"] = m - m \div 2  BY DEF BookSides
  <2> HIDE DEF w, l, m, halves
  <2>6. w.shrink = l.shrink /\ w.traded = halves  BY <2>2, <2>4 DEF StreamTally
  <2>7. m \div 2 \in Int  BY <2>3
  <2>8. m \div 2 + (m - m \div 2) = m  BY <2>3, <2>7
  <2>9. w.traded["bid"] + w.traded["ask"] <= w.shrink["bid"] + w.shrink["ask"]
    <3>1. w.traded["bid"] + w.traded["ask"] = m  BY Zenon, <2>5, <2>6, <2>8
    <3>2. LostBySides(l) = w.shrink["bid"] + w.shrink["ask"]  BY Zenon, <2>6 DEF LostBySides
    <3> QED  BY Zenon, <2>3, <3>1, <3>2
  <2>10. w.shrink["bid"] + w.shrink["ask"] > 0  BY <1>8 DEF w, LostBySides
  <2> DEFINE stats == [u \in Rolling |-> CalibrateWebsocket(u)]
  <2>11. stats[t] = w  BY DEF w
  <2> HIDE DEF stats
  <2>12. t \in Reported(stats)  BY <2>9, <2>10, <2>11 DEF Reported, LostBySides
  <2> QED  BY <2>12 DEF stats
<1> QED  BY <1>5, <1>6, <1>7, <1>8 DEF Claimed

(* Of what left a level calibrate_fills claims no more than did while it    *)
(* watched and what lay below the page of a poll (calibrate_fills.py:285),  *)
(* of the trades no more than were made since its first row, and a          *)
(* recording of the feed that goes on has no more trades than its rows lost *)
(* (calibrate_fills.py:110, :149).                                          *)
THEOREM CalibrationStaysABound == Spec => []CalibrationIsABound
<1>1. Init => CalInv /\ StreamInv  BY CalibrationStarts DEF Init
<1>2. [Next]_vars => CalibrationStep \/ UNCHANGED calibration
  <2>1. UNCHANGED vars => UNCHANGED calibration  BY DEF vars
  <2>2. Next => CalibrationStep \/ UNCHANGED calibration  BY Zenon DEF Next, Still
  <2> QED  BY <2>1, <2>2
<1>3. (CalInv /\ StreamInv) /\ [Next]_vars => (CalInv /\ StreamInv)'  BY <1>2, CalibrationGoesOn
<1>4. CalInv /\ StreamInv => CalibrationIsABound  BY CalibrationFollows
<1> QED  BY <1>1, <1>3, <1>4, PTL DEF Spec

-----------------------------------------------------------------------------
(* The search.  The items at a set of indexes, in order.                    *)
Ascends(f, m) == \A i, j \in 1..m : i < j => f[i] < f[j]

Places(n, S, m, f) ==
  n \in Nat /\ S \in SUBSET (1..n) /\ m \in Nat /\ f \in [1..m -> S] /\ Ascends(f, m)

LEMMA AscendingCount ==
  ASSUME NEW n, NEW S, NEW m, NEW f, Places(n, S, m, f)
  PROVE  /\ \A i, j \in 1..m : (f[i] = f[j] => i = j) /\ (f[i] <= f[j] <=> i <= j)
         /\ \A k \in 1..m : Cardinality({f[i] : i \in 1..k}) = k
<1>0. n \in Nat /\ S \in SUBSET (1..n) /\ m \in Nat /\ f \in [1..m -> S] /\ Ascends(f, m)  BY DEF Places
<1>1. \A i \in 1..m : f[i] \in S /\ f[i] \in Nat
  <2>1. \A x \in S : x \in 1..n  BY <1>0
  <2>2. \A x \in 1..n : x \in Nat  BY <1>0
  <2>3. \A i \in 1..m : f[i] \in S  BY <1>0
  <2> QED  BY <2>1, <2>2, <2>3
<1>2. ASSUME NEW i \in 1..m, NEW j \in 1..m
      PROVE  (f[i] = f[j] => i = j) /\ (f[i] <= f[j] <=> i <= j)
  <2>1. (i < j => f[i] < f[j]) /\ (j < i => f[j] < f[i])  BY <1>0 DEF Ascends
  <2>2. f[i] \in Nat /\ f[j] \in Nat /\ i \in Nat /\ j \in Nat  BY <1>0, <1>1
  <2>3. i < j \/ j < i \/ i = j  BY <2>2
  <2> QED  BY <2>1, <2>2, <2>3
<1>3. ASSUME NEW k \in 1..m  PROVE Cardinality({f[i] : i \in 1..k}) = k
  <2> DEFINE T == {f[i] : i \in 1..k}  e == [i \in 1..k |-> f[i]]
  <2>1. \A i \in 1..k : i \in 1..m  BY <1>0
  <2>2. e \in [1..k -> T]  OBVIOUS
  <2>3. \A i, j \in 1..k : e[i] = e[j] => i = j  BY <2>1, <1>2
  <2>4. \A t \in T : \E i \in 1..k : e[i] = t  OBVIOUS
  <2> HIDE DEF T, e
  <2>5. e \in Bijection(1..k, T)  BY <2>2, <2>3, <2>4 DEF Bijection, Injection, Surjection, IsInjective
  <2>6. ExistsBijection(1..k, T)  BY <2>5 DEF ExistsBijection
  <2>7. Cardinality(T) = k
    <3>1. k \in Nat  BY <1>0
    <3> QED  BY <2>6, <3>1, FS_CountingElements
  <2> QED  BY <2>7 DEF T
<1> QED  BY <1>2, <1>3

LEMMA AscendingIsNth ==
  ASSUME NEW n, NEW S, NEW m, NEW f, Places(n, S, m, f), S \subseteq {f[i] : i \in 1..m}
  PROVE  Cardinality(S) = m /\ \A k \in 1..m : Nth(S, k) = f[k]
<1>1. /\ \A i, j \in 1..m : (f[i] = f[j] => i = j) /\ (f[i] <= f[j] <=> i <= j)
      /\ \A k \in 1..m : Cardinality({f[i] : i \in 1..k}) = k
  BY AscendingCount
<1>0. n \in Nat /\ S \in SUBSET (1..n) /\ m \in Nat /\ f \in [1..m -> S] /\ Ascends(f, m)  BY DEF Places
<1>2. S = {f[i] : i \in 1..m}  BY <1>0
<1>3. Cardinality(S) = m
  <2>1. CASE m = 0
    <3>1. S = {}  BY <2>1, <1>2
    <3> QED  BY <3>1, <2>1, FS_EmptySet
  <2>2. CASE m # 0
    <3>1. m \in 1..m  BY <1>0, <2>2
    <3>2. Cardinality({f[i] : i \in 1..m}) = m  BY <3>1, <1>1
    <3> QED  BY <3>2, <1>2
  <2> QED  BY <2>1, <2>2
<1>4. ASSUME NEW k \in 1..m  PROVE Cardinality({j \in S : j <= f[k]}) = k
  <2>1. \A i \in 1..k : i \in 1..m  BY <1>0
  <2>2. {j \in S : j <= f[k]} = {f[i] : i \in 1..k}
    <3>1. ASSUME NEW j \in S, j <= f[k]  PROVE \E i \in 1..k : j = f[i]
      <4>1. PICK i \in 1..m : j = f[i]  BY <1>2
      <4>2. i <= k /\ i \in Nat /\ i >= 1 /\ k \in Nat  BY <4>1, <3>1, <1>0, <1>1
      <4> QED  BY <4>1, <4>2
    <3>2. ASSUME NEW i \in 1..k  PROVE f[i] \in S /\ f[i] <= f[k]
      <4>1. i \in 1..m /\ i <= k  BY <1>0
      <4> QED  BY <4>1, <1>0, <1>1
    <3> QED  BY <3>1, <3>2
  <2> QED  BY <2>2, <1>1
<1>5. ASSUME NEW k \in 1..m  PROVE Nth(S, k) = f[k]
  <2>1. \A i \in S : Cardinality({j \in S : j <= i}) = k => i = f[k]
    <3>1. TAKE i \in S
    <3>2. HAVE Cardinality({j \in S : j <= i}) = k
    <3>3. PICK q \in 1..m : i = f[q]  BY <1>2
    <3>4. q = k  BY <3>2, <3>3, <1>4
    <3> QED  BY <3>3, <3>4
  <2>2. f[k] \in S /\ Cardinality({j \in S : j <= f[k]}) = k  BY <1>0, <1>4
  <2> QED  BY <2>1, <2>2 DEF Nth
<1> QED  BY <1>3, <1>5

LEMMA ItemsAreASample ==
  ASSUME NEW V, NEW s \in Seq(V), NEW S \in SUBSET (1..Len(s)), \A i, j \in S : s[i] = s[j] => i = j
  PROVE  ItemsAt(s, S) \in Seq(V) /\ IsInjective(ItemsAt(s, S))
<1> DEFINE m == Cardinality(S)  r == ItemsAt(s, S)
<1>1. Len(s) \in Nat  OBVIOUS
<1>2. PICK f : f \in Listing(S)  BY <1>1, SetsAreListed
<1>3. f \in [1..m -> S] /\ Ascends(f, m)  BY <1>2 DEF Listing, Ascends
<1>4. IsFiniteSet(S) /\ m \in Nat
  <2>1. IsFiniteSet(1..Len(s))  BY <1>1, FS_Interval
  <2>2. IsFiniteSet(S)  BY <2>1, FS_Subset
  <2> QED  BY <2>2, FS_CardinalityType
<1>4a. Places(Len(s), S, m, f)  BY <1>1, <1>3, <1>4 DEF Places
<1>5. \A i, j \in 1..m : (f[i] = f[j] => i = j)
  <2> HIDE DEF m
  <2> QED  BY <1>4a, AscendingCount
<1>6. S \subseteq {f[i] : i \in 1..m}
  <2>1. f \in Injection(1..m, S)  BY <1>3, <1>5 DEF Injection, IsInjective
  <2>2. Cardinality(1..m) = m
    <3> HIDE DEF m
    <3>1. Cardinality(1..m) = IF 1 > m THEN 0 ELSE m - 1 + 1  BY <1>4, FS_Interval
    <3> QED  BY <3>1, <1>4
  <2>3. f \in Surjection(1..m, S)  BY <2>1, <2>2, <1>4, FS_Injection
  <2> QED  BY <2>3 DEF Surjection
<1>7. \A k \in 1..m : Nth(S, k) = f[k]
  <2> HIDE DEF m
  <2> QED  BY <1>4a, <1>6, AscendingIsNth
<1>8. r = [k \in 1..m |-> s[f[k]]]  BY <1>7 DEF ItemsAt
<1>9. \A k \in 1..m : s[f[k]] \in V
  <2>1. \A k \in 1..m : f[k] \in S  BY <1>3
  <2>2. \A i \in S : i \in 1..Len(s)  OBVIOUS
  <2>3. \A i \in 1..Len(s) : s[i] \in V  OBVIOUS
  <2> QED  BY <2>1, <2>2, <2>3
<1> HIDE DEF m
<1>10. r \in [1..m -> V]  BY <1>8, <1>9
<1>11. IsInjective(r)
  <2>1. ASSUME NEW i \in 1..m, NEW j \in 1..m, r[i] = r[j]  PROVE i = j
    <3>1. s[f[i]] = s[f[j]] /\ f[i] \in S /\ f[j] \in S  BY <2>1, <1>8, <1>3
    <3> QED  BY <3>1, <1>5
  <2>2. DOMAIN r = 1..m  BY <1>10
  <2> HIDE DEF r
  <2> QED  BY <2>1, <2>2 DEF IsInjective
<1>12. r \in Seq(V)  BY <1>4, <1>10, SeqDef
<1> QED  BY <1>11, <1>12

LEMMA UniqueIsASample ==
  ASSUME NEW V, NEW s \in Seq(V)
  PROVE  Unique(s) \in Seq(V) /\ IsInjective(Unique(s))
<1> DEFINE S == {i \in DOMAIN s : \A j \in 1..(i - 1) : s[j] # s[i]}
<1>1. DOMAIN s = 1..Len(s) /\ Len(s) \in Nat  OBVIOUS
<1>2. ASSUME NEW i \in S, NEW j \in S, s[i] = s[j]  PROVE i = j
  <2>0. i \in 1..Len(s) /\ j \in 1..Len(s)  BY <1>1
  <2>1. i \in Nat \ {0} /\ j \in Nat \ {0}  BY <2>0, <1>1
  <2>2. ~(i < j)
    <3>1. i < j => i \in 1..(j - 1)  BY <2>1
    <3> QED  BY <3>1, <1>2
  <2>3. ~(j < i)
    <3>1. j < i => j \in 1..(i - 1)  BY <2>1
    <3> QED  BY <3>1, <1>2
  <2> QED  BY <2>1, <2>2, <2>3
<1>3. Unique(s) = ItemsAt(s, S)  BY DEF Unique
<1>4. S \in SUBSET (1..Len(s))  BY <1>1
<1> HIDE DEF S
<1> QED  BY <1>2, <1>3, <1>4, ItemsAreASample

(* A product has every combination once.                                    *)
Paired(A, B, C, acc, values, pair) ==
  /\ acc \in Seq(A) /\ IsInjective(acc) /\ values \in Seq(B) /\ IsInjective(values)
  /\ pair \in [A \X B -> C] /\ \A x, y \in A \X B : pair[x] = pair[y] => x = y
Pairs(acc, values, pair) == [i \in DOMAIN acc |-> [j \in DOMAIN values |-> pair[<<acc[i], values[j]>>]]]

LEMMA PairsAreASample ==
  ASSUME NEW A, NEW B, NEW C, NEW acc, NEW values, NEW pair, Paired(A, B, C, acc, values, pair)
  PROVE  FlattenSeq(Pairs(acc, values, pair)) \in Seq(C) /\ IsInjective(FlattenSeq(Pairs(acc, values, pair)))
<1> DEFINE m == Len(acc)  n == Len(values)  row(i) == [j \in 1..n |-> pair[<<acc[i], values[j]>>]]
           seqs == [i \in 1..m |-> row(i)]
<1>0. /\ acc \in Seq(A) /\ IsInjective(acc) /\ values \in Seq(B) /\ IsInjective(values)
      /\ pair \in [A \X B -> C] /\ \A x, y \in A \X B : pair[x] = pair[y] => x = y
  BY DEF Paired
<1>1. m \in Nat /\ n \in Nat /\ DOMAIN acc = 1..m /\ DOMAIN values = 1..n  BY <1>0
<1>2. (\A i \in 1..m : acc[i] \in A) /\ (\A j \in 1..n : values[j] \in B)  BY <1>0
<1>3. (\A i, k \in 1..m : acc[i] = acc[k] => i = k) /\ (\A j, k \in 1..n : values[j] = values[k] => j = k)
  BY <1>0, <1>1 DEF IsInjective
<1>4. ASSUME NEW i \in 1..m  PROVE row(i) \in [1..n -> C]
  BY <1>0, <1>2
<1>5. ASSUME NEW i \in 1..m, NEW k \in 1..m, NEW j \in 1..n, NEW l \in 1..n, row(i)[j] = row(k)[l]
      PROVE  i = k /\ j = l
  <2>1. pair[<<acc[i], values[j]>>] = pair[<<acc[k], values[l]>>]  BY <1>5
  <2>2. <<acc[i], values[j]>> \in A \X B /\ <<acc[k], values[l]>> \in A \X B  BY <1>2
  <2>3. <<acc[i], values[j]>> = <<acc[k], values[l]>>  BY <2>1, <2>2, <1>0
  <2> QED  BY <2>3, <1>3
<1> HIDE DEF row
<1>6. ASSUME NEW i \in 1..m  PROVE row(i) \in Seq(C) /\ IsInjective(row(i)) /\ DOMAIN row(i) = 1..n
  <2>1. row(i) \in [1..n -> C]  BY <1>4
  <2>2. DOMAIN row(i) = 1..n  BY <2>1
  <2>3. row(i) \in Seq(C)  BY <2>1, <1>1, SeqDef
  <2>4. IsInjective(row(i))  BY <2>2, <1>5 DEF IsInjective
  <2> QED  BY <2>2, <2>3, <2>4
<1>7. seqs \in Seq(Seq(C)) /\ Len(seqs) = m /\ \A i \in 1..m : seqs[i] = row(i)
  <2>1. seqs \in [1..m -> Seq(C)]  BY <1>6
  <2> HIDE DEF m
  <2>2. seqs \in Seq(Seq(C))  BY <2>1, <1>1, SeqDef
  <2> QED  BY <2>1, <2>2, <1>1
<1>8. ASSUME NEW i \in 1..m, NEW k \in 1..m, i # k  PROVE Range(row(i)) \cap Range(row(k)) = {}
  <2>1. ASSUME NEW x \in Range(row(i)), x \in Range(row(k))  PROVE FALSE
    <3>1. PICK j \in 1..n : x = row(i)[j]  BY <1>6 DEF Range
    <3>2. PICK l \in 1..n : x = row(k)[l]  BY <2>1, <1>6 DEF Range
    <3> QED  BY <3>1, <3>2, <1>5, <1>8
  <2> QED  BY <2>1
<1>9. seqs = Pairs(acc, values, pair)  BY <1>1 DEF row, Pairs
<1> HIDE DEF seqs
<1>10. FlattenSeq(seqs) \in Seq(C) /\ IsInjective(FlattenSeq(seqs))
  <2>1. \A i \in 1..Len(seqs) : IsInjective(seqs[i])  BY <1>6, <1>7
  <2>2. \A i, j \in 1..Len(seqs) : i # j => Range(seqs[i]) \cap Range(seqs[j]) = {}  BY <1>7, <1>8
  <2> QED  BY <1>7, <2>1, <2>2, FlatIsASample
<1> QED  BY <1>9, <1>10

Samples(V) == {q \in Seq(V) : IsInjective(q)}
GridStep(acc, values) ==
  FlattenSeq([i \in DOMAIN acc |-> [j \in DOMAIN values |-> Append(acc[i], values[j])]])

LEMMA StepIsASample ==
  ASSUME NEW V, NEW acc \in Samples(Seq(V)), NEW values \in Samples(V)
  PROVE  GridStep(acc, values) \in Samples(Seq(V))
<1> DEFINE pair == [x \in Seq(V) \X V |-> Append(x[1], x[2])]
<1>1. acc \in Seq(Seq(V)) /\ IsInjective(acc) /\ values \in Seq(V) /\ IsInjective(values)  BY DEF Samples
<1>2. pair \in [Seq(V) \X V -> Seq(V)]  OBVIOUS
<1>3. ASSUME NEW a \in Seq(V), NEW b \in Seq(V), NEW v \in V, NEW w \in V, Append(a, v) = Append(b, w)
      PROVE  a = b /\ v = w
  <2>1. Len(Append(a, v)) = Len(a) + 1 /\ Len(Append(b, w)) = Len(b) + 1  OBVIOUS
  <2>2. Len(a) = Len(b) /\ Len(a) \in Nat  BY <2>1, <1>3
  <2>3. Append(a, v)[Len(a) + 1] = v /\ Append(b, w)[Len(b) + 1] = w  OBVIOUS
  <2>4. v = w  BY <2>2, <2>3, <1>3
  <2>5. ASSUME NEW i \in 1..Len(a)  PROVE a[i] = b[i]
    <3>1. Append(a, v)[i] = a[i] /\ Append(b, w)[i] = b[i]  BY <2>2
    <3> QED  BY <3>1, <1>3
  <2>6. a = b  BY <2>2, <2>5
  <2> QED  BY <2>4, <2>6
<1>4. \A x, y \in Seq(V) \X V : pair[x] = pair[y] => x = y
  <2>1. TAKE x, y \in Seq(V) \X V
  <2>2. x = <<x[1], x[2]>> /\ y = <<y[1], y[2]>> /\ x[1] \in Seq(V) /\ y[1] \in Seq(V) /\ x[2] \in V /\ y[2] \in V
    OBVIOUS
  <2>3. HAVE pair[x] = pair[y]
  <2>4. Append(x[1], x[2]) = Append(y[1], y[2])  BY <2>3
  <2>5. x[1] = y[1] /\ x[2] = y[2]  BY <2>2, <2>4, <1>3
  <2> QED  BY <2>2, <2>5
<1>5. \A i \in DOMAIN acc, j \in DOMAIN values : pair[<<acc[i], values[j]>>] = Append(acc[i], values[j])
  <2>1. \A i \in DOMAIN acc : acc[i] \in Seq(V)  BY <1>1
  <2>2. \A j \in DOMAIN values : values[j] \in V  BY <1>1
  <2> QED  BY <2>1, <2>2
<1> DEFINE seqs == Pairs(acc, values, pair)
<1> HIDE DEF pair
<1>6. seqs = [i \in DOMAIN acc |-> [j \in DOMAIN values |-> Append(acc[i], values[j])]]
  BY <1>5 DEF Pairs
<1>7. FlattenSeq(seqs) \in Seq(Seq(V)) /\ IsInjective(FlattenSeq(seqs))
  <2>1. Paired(Seq(V), V, Seq(V), acc, values, pair)  BY <1>1, <1>2, <1>4 DEF Paired
  <2> QED  BY <2>1, PairsAreASample
<1>8. GridStep(acc, values) = FlattenSeq(seqs)  BY <1>6 DEF GridStep
<1> HIDE DEF seqs
<1> QED  BY <1>7, <1>8 DEF Samples

ProductFolder(space) ==
  CHOOSE iter : iter = [S \in SUBSET (DOMAIN space) |->
    IF S = {} THEN <<<<>>>> ELSE GridStep(iter[S \ {Max(S)}], space[Max(S)])]

LEMMA ProductFolds ==
  ASSUME NEW V, NEW n \in Nat, NEW s, DOMAIN s = 1..n, \A i \in 1..n : s[i] \in Samples(V),
         NEW g \in [Samples(Seq(V)) \X Samples(V) -> Samples(Seq(V))],
         \A acc \in Samples(Seq(V)), v \in Samples(V) : g[<<acc, v>>] = GridStep(acc, v),
         <<<<>>>> \in Samples(Seq(V))
  PROVE  FoldsIn(ProductFolder(s), Samples(Seq(V)), n, s, <<<<>>>>, g)
<1> DEFINE F == ProductFolder(s)  T == Samples(Seq(V))  D == Samples(V)
<1>1. PICK f \in [SUBSET (1..n) -> T] : FoldsUp(f, n, s, <<<<>>>>, g)
  <2> HIDE DEF T, D
  <2> QED  BY FoldExists DEF T, D
<1>2. \A S \in SUBSET (1..n) : S # {} => Max(S) \in 1..n /\ S \ {Max(S)} \in SUBSET (1..n)
  BY LargestNumber
<1> HIDE DEF T, D
<1>3. ASSUME NEW S \in SUBSET (1..n)
      PROVE  f[S] = IF S = {} THEN <<<<>>>> ELSE GridStep(f[S \ {Max(S)}], s[Max(S)])
  <2>1. CASE S = {}  BY <2>1, <1>1 DEF FoldsUp
  <2>2. CASE S # {}
    <3>1. f[S \ {Max(S)}] \in T /\ s[Max(S)] \in D  BY <2>2, <1>1, <1>2 DEF D
    <3>2. f[S] = g[<<f[S \ {Max(S)}], s[Max(S)]>>]  BY <2>2, <1>1 DEF FoldsUp
    <3> QED  BY <3>1, <3>2, <2>2 DEF T, D
  <2> QED  BY <2>1, <2>2
<1>4. f = [S \in SUBSET (DOMAIN s) |-> IF S = {} THEN <<<<>>>> ELSE GridStep(f[S \ {Max(S)}], s[Max(S)])]
  BY <1>1, <1>3
<1>5. F = [S \in SUBSET (DOMAIN s) |-> IF S = {} THEN <<<<>>>> ELSE GridStep(F[S \ {Max(S)}], s[Max(S)])]
  <2>1. \E iter : iter = [S \in SUBSET (DOMAIN s) |->
                            IF S = {} THEN <<<<>>>> ELSE GridStep(iter[S \ {Max(S)}], s[Max(S)])]
    BY <1>4
  <2> QED  BY Zenon, <2>1 DEF ProductFolder
<1> HIDE DEF F
<1>6. F[{}] = <<<<>>>>  BY <1>5
<1>7. ASSUME NEW S \in SUBSET (1..n), S # {}, F[S \ {Max(S)}] \in T
      PROVE  F[S] = g[<<F[S \ {Max(S)}], s[Max(S)]>>]
  <2>1. F[S] = GridStep(F[S \ {Max(S)}], s[Max(S)])  BY <1>5, <1>7
  <2>2. s[Max(S)] \in D  BY <1>7, <1>2 DEF D
  <2> QED  BY <2>1, <2>2, <1>7 DEF T, D
<1>8. FoldsIn(F, T, n, s, <<<<>>>>, g)  BY <1>6, <1>7 DEF FoldsIn
<1> QED  BY <1>8 DEF F, T

LEMMA ProductIsASample ==
  ASSUME NEW V, NEW n \in Nat, NEW s, DOMAIN s = 1..n, \A i \in 1..n : s[i] \in Samples(V)
  PROVE  Product(s) \in Samples(Seq(V))
<1> DEFINE T == Samples(Seq(V))  D == Samples(V)  g == [x \in T \X D |-> GridStep(x[1], x[2])]
<1>1. \A acc \in T, v \in D : GridStep(acc, v) \in T  BY StepIsASample
<1>2. <<<<>>>> \in T
  <2>1. <<<<>>>> \in Seq(Seq(V)) /\ DOMAIN <<<<>>>> = 1..1  OBVIOUS
  <2>2. \A i, j \in 1..1 : i = j  OBVIOUS
  <2>3. IsInjective(<<<<>>>>)  BY <2>1, <2>2 DEF IsInjective
  <2> QED  BY <2>1, <2>3 DEF Samples
<1> HIDE DEF T, D
<1>3. g \in [T \X D -> T] /\ \A acc \in T, v \in D : g[<<acc, v>>] = GridStep(acc, v)  BY <1>1
<1> HIDE DEF g
<1>4. FoldsIn(ProductFolder(s), T, n, s, <<<<>>>>, g)
  BY <1>2, <1>3, ProductFolds DEF T, D
<1>5. \A i \in 1..n : s[i] \in D  BY DEF D
<1>6. ProductFolder(s)[1..n] \in T  BY <1>2, <1>3, <1>4, <1>5, FoldStays
<1>7. Product(s) = ProductFolder(s)[DOMAIN s]
  BY Zenon DEF Product, FoldLeft, MapThenFoldSet, ProductFolder, GridStep
<1> QED  BY <1>6, <1>7 DEF T

(* The grid of a search has every valid combination once.                   *)
LEMMA OfTheSettings ==
  /\ \A a \in Accounts : a.count \in Nat /\ a.limit \in Nat /\ a.threshold \in Nat /\ a.balance \in Seq(Nat)
  /\ LotSize \in Nat /\ Space \in Seq(Seq(Int)) /\ MaxTrials \in Nat \ {0}
  /\ MinTrain \in Nat \ {0} /\ Library \in Seq(Range(Library)) /\ Gains \subseteq Int
BY Zenon, OptimizerAssumption

LEMMA OneOfTwo ==
  ASSUME NEW x \in Int, NEW y \in Int  PROVE Max({x, y}) \in Int /\ Min({x, y}) \in Int
BY GreaterOfTwo

LEMMA PartsAreASample ==
  ASSUME NEW balance \in Nat, NEW bps \in Seq(Nat)
  PROVE  PartsOf(balance, bps) \in Samples(Int)
<1> DEFINE low(i) == Min({balance, (balance * bps[i]) \div 10000})
           values == [i \in DOMAIN bps |-> Max({1, low(i)})]
<1>1. DOMAIN bps = 1..Len(bps) /\ Len(bps) \in Nat  OBVIOUS
<1>2. ASSUME NEW i \in 1..Len(bps)  PROVE Max({1, low(i)}) \in Int
  <2> DEFINE part == (balance * bps[i]) \div 10000
  <2>1. bps[i] \in Nat  OBVIOUS
  <2>2. part \in Int  BY <2>1
  <2>3. low(i) = Min({balance, part}) /\ balance \in Int  OBVIOUS
  <2> HIDE DEF low, part
  <2>4. low(i) \in Int  BY <2>2, <2>3, OneOfTwo
  <2> QED  BY <2>4, OneOfTwo
<1> HIDE DEF low
<1>3. values \in [1..Len(bps) -> Int]  BY <1>1, <1>2
<1>4. PartsOf(balance, bps) = Unique(values)  BY DEF PartsOf, low
<1> HIDE DEF values
<1>5. values \in Seq(Int)  BY <1>1, <1>3, SeqDef
<1> QED  BY <1>4, <1>5, UniqueIsASample DEF Samples

LEMMA ThreeAreASample ==
  ASSUME NEW x \in Int, NEW y \in Int, NEW z \in Int
  PROVE  Unique(<<x, y, z>>) \in Samples(Int)
<1>1. <<x, y, z>> \in Seq(Int)  OBVIOUS
<1> QED  BY <1>1, UniqueIsASample DEF Samples

LEMMA OneIsASample ==
  ASSUME NEW x \in Int  PROVE <<x>> \in Samples(Int)
<1>1. <<x>> \in Seq(Int) /\ DOMAIN <<x>> = 1..1  OBVIOUS
<1>2. \A i, j \in 1..1 : i = j  OBVIOUS
<1>3. IsInjective(<<x>>)  BY <1>1, <1>2 DEF IsInjective
<1> QED  BY <1>1, <1>3 DEF Samples

LEMMA ExecutionIsSampled ==
  ASSUME NEW a \in Accounts
  PROVE  DOMAIN ExecutionSpace(a) = 1..3 /\ \A i \in 1..3 : ExecutionSpace(a)[i] \in Samples(Int)
<1>1. a.count \in Nat /\ a.limit \in Nat /\ a.threshold \in Nat /\ a.balance \in Seq(Nat) /\ LotSize \in Nat
  BY OfTheSettings
<1>2. \A i \in 1..3 : i = 1 \/ i = 2 \/ i = 3  OBVIOUS
<1>3. CASE a.execution
  <2>1. OrderSizes(a) \in Samples(Int)
    <3>1. CASE a.balance = <<>>
      <4>1. a.count \div 2 \in Int  BY <1>1
      <4>2. Max({1, a.count \div 2}) \in Int /\ a.count \in Int /\ a.count * 2 \in Int  BY <4>1, <1>1, OneOfTwo
      <4> QED  BY <4>2, <3>1, ThreeAreASample DEF OrderSizes
    <3>2. CASE a.balance # <<>>
      <4>1. a.balance[1] \in Nat  BY <1>1, <3>2
      <4> DEFINE bps == <<50, 100, 200>>
      <4>2. bps \in Seq(Nat)  OBVIOUS
      <4>3. OrderSizes(a) = PartsOf(a.balance[1], bps)  BY <3>2 DEF OrderSizes
      <4> HIDE DEF bps
      <4> QED  BY <4>1, <4>2, <4>3, PartsAreASample
    <3> QED  BY <3>1, <3>2
  <2>2. MaxPositions(a) \in Samples(Int)
    <3>1. CASE a.balance = <<>>
      <4>1. a.limit \div 2 \in Int  BY <1>1
      <4>2. Max({LotSize, a.limit \div 2}) \in Int /\ a.limit \in Int /\ a.limit * 2 \in Int  BY <4>1, <1>1, OneOfTwo
      <4> QED  BY <4>2, <3>1, ThreeAreASample DEF MaxPositions
    <3>2. CASE a.balance # <<>>
      <4>1. a.balance[1] \in Nat  BY <1>1, <3>2
      <4> DEFINE bps == <<500, 1000, 2000>>
      <4>2. bps \in Seq(Nat)  OBVIOUS
      <4>3. MaxPositions(a) = PartsOf(a.balance[1], bps)  BY <3>2 DEF MaxPositions
      <4> HIDE DEF bps
      <4> QED  BY <4>1, <4>2, <4>3, PartsAreASample
    <3> QED  BY <3>1, <3>2
  <2>3. Unique(<<a.threshold, 0, 100>>) \in Samples(Int)  BY <1>1, ThreeAreASample
  <2>4. ExecutionSpace(a) = <<OrderSizes(a), MaxPositions(a), Unique(<<a.threshold, 0, 100>>)>>
    BY <1>3 DEF ExecutionSpace
  <2> QED  BY <2>1, <2>2, <2>3, <2>4, <1>2
<1>4. CASE ~a.execution
  <2>1. <<a.count>> \in Samples(Int) /\ <<a.limit>> \in Samples(Int) /\ <<a.threshold>> \in Samples(Int)
    BY <1>1, OneIsASample
  <2>2. ExecutionSpace(a) = <<<<a.count>>, <<a.limit>>, <<a.threshold>>>>  BY <1>4 DEF ExecutionSpace
  <2> QED  BY <2>1, <2>2, <1>2
<1> QED  BY <1>3, <1>4

LEMMA GridIsASample == ParameterGrid \in Samples(Seq(Int))
<1> DEFINE n == Len(Space)  s == [i \in DOMAIN Space |-> Unique(Space[i])]
<1>1. Space \in Seq(Seq(Int))  BY OfTheSettings
<1>2. n \in Nat /\ DOMAIN Space = 1..n /\ \A i \in 1..n : Space[i] \in Seq(Int)  BY <1>1
<1> HIDE DEF n
<1>3. DOMAIN s = 1..n /\ \A i \in 1..n : s[i] \in Samples(Int)
  BY <1>2, UniqueIsASample DEF Samples
<1>4. ParameterGrid = Product(s)  BY DEF ParameterGrid
<1> HIDE DEF s
<1> QED  BY <1>2, <1>3, <1>4, ProductIsASample

Combination == [settings : Seq(Int), params : Seq(Int)]
Combined == [x \in Seq(Int) \X Seq(Int) |-> [settings |-> x[1], params |-> x[2]]]

LEMMA CombinedOnce ==
  /\ Combined \in [Seq(Int) \X Seq(Int) -> Combination]
  /\ \A x, y \in Seq(Int) \X Seq(Int) : Combined[x] = Combined[y] => x = y
<1>1. Combined \in [Seq(Int) \X Seq(Int) -> Combination]  BY DEF Combined, Combination
<1>2. ASSUME NEW x \in Seq(Int) \X Seq(Int), NEW y \in Seq(Int) \X Seq(Int), Combined[x] = Combined[y]
      PROVE  x = y
  <2>1. Combined[x].settings = x[1] /\ Combined[x].params = x[2] /\ Combined[y].settings = y[1] /\ Combined[y].params = y[2]
    BY DEF Combined
  <2>2. x = <<x[1], x[2]>> /\ y = <<y[1], y[2]>>  OBVIOUS
  <2> QED  BY <2>1, <2>2, <1>2
<1> QED  BY <1>1, <1>2

LEMMA CombinationsAreASample ==
  ASSUME NEW a \in Accounts  PROVE Combinations[a] \in Samples(Combination)
<1> DEFINE tried == Product(ExecutionSpace(a))
           valid == {i \in DOMAIN tried : Valid(a, tried[i])}
           settings == ItemsAt(tried, valid)
<1>1. tried \in Samples(Seq(Int))
  <2>1. 3 \in Nat  OBVIOUS
  <2> QED  BY <2>1, ExecutionIsSampled, ProductIsASample
<1> HIDE DEF tried
<1>2. tried \in Seq(Seq(Int)) /\ IsInjective(tried) /\ DOMAIN tried = 1..Len(tried)  BY <1>1 DEF Samples
<1>3. valid \in SUBSET (1..Len(tried)) /\ \A i, j \in valid : tried[i] = tried[j] => i = j
  BY <1>2 DEF IsInjective
<1> HIDE DEF valid
<1>4. settings \in Seq(Seq(Int)) /\ IsInjective(settings)  BY <1>2, <1>3, ItemsAreASample
<1>5. ParameterGrid \in Seq(Seq(Int)) /\ IsInjective(ParameterGrid)  BY GridIsASample DEF Samples
<1>6. Combinations[a] = FlattenSeq([i \in DOMAIN settings |->
        [j \in DOMAIN ParameterGrid |-> [settings |-> settings[i], params |-> ParameterGrid[j]]]])
  BY DEF Combinations, CombinationsFor, tried, valid
<1> HIDE DEF settings
<1> DEFINE seqs == Pairs(settings, ParameterGrid, Combined)
<1>7. \A i \in DOMAIN settings, j \in DOMAIN ParameterGrid :
        Combined[<<settings[i], ParameterGrid[j]>>] = [settings |-> settings[i], params |-> ParameterGrid[j]]
  <2>1. \A i \in DOMAIN settings : settings[i] \in Seq(Int)  BY <1>4
  <2>2. \A j \in DOMAIN ParameterGrid : ParameterGrid[j] \in Seq(Int)  BY <1>5
  <2> QED  BY <2>1, <2>2 DEF Combined
<1>8. seqs = [i \in DOMAIN settings |->
        [j \in DOMAIN ParameterGrid |-> [settings |-> settings[i], params |-> ParameterGrid[j]]]]
  BY <1>7 DEF Pairs
<1>9. Paired(Seq(Int), Seq(Int), Combination, settings, ParameterGrid, Combined)
  BY <1>4, <1>5, CombinedOnce DEF Paired
<1>10. FlattenSeq(seqs) \in Seq(Combination) /\ IsInjective(FlattenSeq(seqs))
  BY <1>9, PairsAreASample
<1> HIDE DEF seqs
<1> QED  BY <1>6, <1>8, <1>10 DEF Samples

(* The indexes of a limited grid: each is the whole number nearest to its   *)
(* share, so that two that follow each other are as far apart as any other  *)
(* two but for one.                                                         *)
LEMMA Multiples ==
  ASSUME NEW b \in Nat \ {0}, NEW x \in Int, NEW y \in Int, b * x < b * y
  PROVE  x < y
<1>1. SUFFICES ASSUME x >= y  PROVE FALSE
  OBVIOUS
<1>2. x - y \in Nat  BY <1>1
<1>3. \A k, l \in Nat : k * l \in Nat  BY SMT
<1>4. b * (x - y) >= 0  BY <1>2, <1>3
<1>5. b * (x - y) = b * x - b * y  BY SMT
<1>6. b * x \in Int /\ b * y \in Int  BY SMT
<1> QED  BY <1>4, <1>5, <1>6

LEMMA RoundIsNear ==
  ASSUME NEW a \in Nat, NEW b \in Nat \ {0}
  PROVE  /\ Round(a, b) \in Int /\ b * Round(a, b) \in Int
         /\ 2 * (b * Round(a, b)) - 2 * a <= b /\ 2 * a - 2 * (b * Round(a, b)) <= b
<1> DEFINE q == a \div b  r == a % b
<1>1. a = b * q + r /\ q \in Int /\ r \in 0..(b - 1)  BY SMT
<1>2. Round(a, b) = IF 2 * r < b \/ (2 * r = b /\ q % 2 = 0) THEN q ELSE q + 1  BY DEF Round
<1> HIDE DEF q, r
<1>3. b * q \in Int /\ b * (q + 1) = b * q + b  BY <1>1, SMT
<1>4. CASE Round(a, b) = q /\ 2 * r <= b
  BY <1>1, <1>3, <1>4
<1>5. CASE Round(a, b) = q + 1 /\ 2 * r >= b
  <2>1. b * Round(a, b) = b * q + b  BY <1>3, <1>5
  <2> QED  BY <2>1, <1>1, <1>3, <1>5
<1>6. (Round(a, b) = q /\ 2 * r <= b) \/ (Round(a, b) = q + 1 /\ 2 * r >= b)
  <2>1. CASE 2 * r < b \/ (2 * r = b /\ q % 2 = 0)  BY <2>1, <1>1, <1>2
  <2>2. CASE ~(2 * r < b \/ (2 * r = b /\ q % 2 = 0))
    <3>1. Round(a, b) = q + 1  BY <2>2, <1>2
    <3>2. 2 * r >= b  BY <2>2, <1>1
    <3> QED  BY <3>1, <3>2
  <2> QED  BY <2>1, <2>2
<1> QED  BY <1>4, <1>5, <1>6

LEMMA RoundIsExact ==
  ASSUME NEW b \in Nat \ {0}, NEW k \in Nat
  PROVE  Round(b * k, b) = k
<1> DEFINE a == b * k  q == a \div b  r == a % b
<1>1. a \in Nat
  <2>1. \A x, y \in Nat : x * y \in Nat  BY SMT
  <2> QED  BY <2>1
<1>2. a = b * k  OBVIOUS
<1>3. Round(a, b) = IF 2 * r < b \/ (2 * r = b /\ q % 2 = 0) THEN q ELSE q + 1  BY DEF Round
<1> HIDE DEF a
<1>4. a = b * q + r /\ q \in Int /\ r \in 0..(b - 1)  BY <1>1, SMT
<1> HIDE DEF q, r
<1>5. b * q \in Int /\ b * (q + 1) = b * q + b /\ b * (k + 1) = b * k + b  BY <1>4, SMT
<1>6. k < q + 1
  <2>1. b * k < b * (q + 1)  BY <1>1, <1>2, <1>4, <1>5
  <2>2. q + 1 \in Int /\ k \in Int  BY <1>4
  <2> QED  BY <2>1, <2>2, Multiples
<1>7. q < k + 1
  <2>1. b * q < b * (k + 1)  BY <1>1, <1>2, <1>4, <1>5
  <2>2. k + 1 \in Int  OBVIOUS
  <2> QED  BY <2>1, <2>2, <1>4, Multiples
<1>8. q = k  BY <1>4, <1>6, <1>7
<1>9. r = 0  BY <1>1, <1>2, <1>4, <1>5, <1>8
<1>10. Round(a, b) = q
  <2>1. 2 * r < b  BY <1>9
  <2> QED  BY <2>1, <1>3
<1> QED  BY <1>2, <1>8, <1>10

LEMMA RoundsFollow ==
  ASSUME NEW b \in Nat \ {0}, NEW d \in Nat, b < d, NEW i \in Nat
  PROVE  /\ d \div b \in Nat \ {0}
         /\ Round(i * d, b) \in Int /\ Round((i + 1) * d, b) \in Int
         /\ Round((i + 1) * d, b) - Round(i * d, b) \in {d \div b, (d \div b) + 1}
<1> DEFINE c == d \div b  e == d % b  m == i * d  n == (i + 1) * d  R == Round(m, b)  Q == Round(n, b)
<1>1. d = b * c + e /\ c \in Int /\ e \in 0..(b - 1)  BY SMT
<1>2. m \in Nat /\ n \in Nat /\ n = m + d
  <2>1. \A x, y \in Nat : x * y \in Nat  BY SMT
  <2>2. (i + 1) * d = i * d + d  BY SMT
  <2> QED  BY <2>1, <2>2
<1>3. m = i * d /\ n = (i + 1) * d  OBVIOUS
<1> HIDE DEF c, e, m, n
<1>4. /\ R \in Int /\ b * R \in Int /\ 2 * (b * R) - 2 * m <= b /\ 2 * m - 2 * (b * R) <= b
      /\ Q \in Int /\ b * Q \in Int /\ 2 * (b * Q) - 2 * n <= b /\ 2 * n - 2 * (b * Q) <= b
  BY <1>2, RoundIsNear
<1> HIDE DEF R, Q
<1>5. b * c \in Int /\ b * (c - 1) = b * c - b /\ b * (c + 1) = b * c + b /\ b * (c + 2) = b * c + 2 * b
      /\ b * (Q - R) = b * Q - b * R
  BY <1>1, <1>4, SMT
<1>6. c \in Nat \ {0}
  <2>1. b * 0 = 0 /\ b * 0 < b * (c + 1)
    <3>1. b * 0 = 0  OBVIOUS
    <3> QED  BY <3>1, <1>1, <1>5
  <2>2. 0 < c + 1  BY <2>1, <1>1, Multiples
  <2>3. c # 0
    <3>1. c = 0 => b * c = 0  OBVIOUS
    <3> QED  BY <3>1, <1>1
  <2> QED  BY <2>2, <2>3, <1>1
<1>7. Q - R \in {c, c + 1}
  <2>1. CASE e = 0
    <3>1. \A x, y \in Nat : x * y \in Nat  BY SMT
    <3>2. d = b * c  BY <2>1, <1>1, <1>5
    <3>3. m = b * (i * c) /\ n = b * ((i + 1) * c)
      <4>1. i * (b * c) = b * (i * c) /\ (i + 1) * (b * c) = b * ((i + 1) * c)  BY <1>1, SMT
      <4> QED  BY <4>1, <3>2, <1>3
    <3>4. i * c \in Nat /\ (i + 1) * c \in Nat  BY <3>1, <1>6
    <3>5. R = i * c /\ Q = (i + 1) * c
      <4>1. Round(b * (i * c), b) = i * c /\ Round(b * ((i + 1) * c), b) = (i + 1) * c
        BY <3>4, RoundIsExact
      <4> QED  BY <4>1, <3>3 DEF R, Q
    <3>6. (i + 1) * c = i * c + c  BY <1>1, SMT
    <3> QED  BY <3>4, <3>5, <3>6, <1>6
  <2>2. CASE e # 0
    <3>1. b * (c - 1) < b * (Q - R)  BY <2>2, <1>1, <1>2, <1>4, <1>5
    <3>2. b * (Q - R) < b * (c + 2)  BY <1>1, <1>2, <1>4, <1>5
    <3>3. c - 1 \in Int /\ Q - R \in Int /\ c + 2 \in Int  BY <1>1, <1>4
    <3>4. c - 1 < Q - R /\ Q - R < c + 2  BY <3>1, <3>2, <3>3, Multiples
    <3> QED  BY <3>3, <3>4, <1>1
  <2> QED  BY <2>1, <2>2
<1> QED  BY <1>3, <1>4, <1>6, <1>7 DEF c, R, Q

(* What climbs at every step ascends.                                       *)
Climbs(f, m) == \A i \in 1..(m - 1) : f[i] < f[i + 1]

LEMMA ClimbingAscends ==
  ASSUME NEW m \in Nat \ {0}, NEW f, \A i \in 1..m : f[i] \in Int, Climbs(f, m)
  PROVE  Ascends(f, m) /\ \A i \in 1..m : f[1] <= f[i] /\ f[i] <= f[m]
<1> DEFINE Bad == {k \in Nat : \E i \in 1..m : i + k + 1 \in 1..m /\ ~(f[i] < f[i + k + 1])}
<1>1. Bad = {}
  <2> SUFFICES ASSUME Bad # {}  PROVE FALSE
    OBVIOUS
  <2>1. PICK k \in Bad : \A j \in Bad : k <= j  BY FirstNumber
  <2>2. k \in Nat  OBVIOUS
  <2>3. PICK i \in 1..m : i + k + 1 \in 1..m /\ ~(f[i] < f[i + k + 1])  OBVIOUS
  <2>4. i \in Nat /\ i >= 1 /\ i + k + 1 <= m  BY <2>2, <2>3
  <2>5. CASE k = 0
    <3>1. i \in 1..(m - 1) /\ i + k + 1 = i + 1  BY <2>4, <2>5
    <3> QED  BY <3>1, <2>3 DEF Climbs
  <2>6. CASE k # 0
    <3>1. k - 1 \in Nat /\ ~(k <= k - 1)  BY <2>2, <2>6
    <3>2. k - 1 \notin Bad  BY <3>1, <2>1
    <3>3. i + (k - 1) + 1 = i + k /\ i + k \in 1..m /\ i + k \in 1..(m - 1)  BY <2>2, <2>4, <2>6
    <3>4. f[i] < f[i + k]  BY <3>1, <3>2, <3>3
    <3>5. f[i + k] < f[i + k + 1]  BY <3>3 DEF Climbs
    <3>6. f[i] \in Int /\ f[i + k] \in Int /\ f[i + k + 1] \in Int  BY <2>3, <3>3
    <3> QED  BY <3>4, <3>5, <3>6, <2>3
  <2> QED  BY <2>5, <2>6
<1>2. ASSUME NEW i \in 1..m, NEW j \in 1..m, i < j  PROVE f[i] < f[j]
  <2>1. j - i - 1 \in Nat /\ i + (j - i - 1) + 1 = j  BY <1>2
  <2>2. j - i - 1 \notin Bad  BY <1>1
  <2> QED  BY <2>1, <2>2
<1>3. ASSUME NEW i \in 1..m  PROVE f[1] <= f[i] /\ f[i] <= f[m]
  <2>1. 1 \in 1..m /\ m \in 1..m /\ (i = 1 \/ 1 < i) /\ (i = m \/ i < m)  OBVIOUS
  <2>2. f[1] \in Int /\ f[i] \in Int /\ f[m] \in Int  BY <2>1
  <2> HIDE DEF Bad
  <2> QED  BY <2>1, <2>2, <1>2
<1> QED  BY <1>2, <1>3 DEF Ascends

(* What is left of a grid is spread over it.                                *)
Spread(all, s) ==
  LET k == Len(s)
      place == [i \in 1..k |-> CHOOSE j \in DOMAIN all : all[j] = s[i]]
      gaps == {place[i + 1] - place[i] : i \in 1..(k - 1)}
  IN  /\ k = Min({MaxTrials, Len(all)})
      /\ place[1] = 1 /\ (k > 1 => place[k] = Len(all))
      /\ \A g \in gaps, h \in gaps : g > 0 /\ g - h <= 1

LEMMA PlacedAreSpread ==
  ASSUME NEW V, NEW all \in Samples(V), NEW k \in Nat \ {0}, NEW c \in Nat \ {0},
         k = Min({MaxTrials, Len(all)}),
         NEW f \in [1..k -> 1..Len(all)], f[1] = 1, k > 1 => f[k] = Len(all),
         \A i \in 1..(k - 1) : f[i + 1] - f[i] \in {c, c + 1}
  PROVE  Spread(all, [i \in 1..k |-> all[f[i]]])
<1> DEFINE n == Len(all)  s == [i \in 1..k |-> all[f[i]]]
           place == [i \in 1..k |-> CHOOSE j \in DOMAIN all : all[j] = s[i]]
           gaps == {place[i + 1] - place[i] : i \in 1..(k - 1)}
<1>1. all \in Seq(V) /\ IsInjective(all) /\ DOMAIN all = 1..n /\ n \in Nat  BY DEF Samples
<1>2. Len(s) = k
  <2>0. \A j \in 1..n : all[j] \in V  BY <1>1
  <2>1. \A i \in 1..k : f[i] \in 1..n  OBVIOUS
  <2>2. s \in [1..k -> V]
    <3> HIDE DEF n
    <3> QED  BY <2>0, <2>1
  <2>4. DOMAIN s = 1..k  OBVIOUS
  <2> HIDE DEF s
  <2>3. s \in Seq(V)  BY <2>2, SeqDef
  <2> QED  BY <2>3, <2>4
<1>3. \A i \in 1..k : place[i] = f[i]
  <2> SUFFICES ASSUME NEW i \in 1..k  PROVE place[i] = f[i]
    OBVIOUS
  <2>1. f[i] \in DOMAIN all /\ all[f[i]] = s[i]  BY <1>1
  <2>2. \A j \in DOMAIN all : all[j] = s[i] => j = f[i]  BY <2>1, <1>1 DEF IsInjective
  <2>3. place[i] = CHOOSE j \in DOMAIN all : all[j] = s[i]  OBVIOUS
  <2> HIDE DEF place, s
  <2> QED  BY <2>1, <2>2, <2>3
<1>4. k = Len(s) /\ k = Min({MaxTrials, n})  BY <1>2
<1> HIDE DEF n
<1>5. place[1] = 1 /\ (k > 1 => place[k] = n)
  <2>1. 1 \in 1..k /\ k \in 1..k  OBVIOUS
  <2> HIDE DEF place
  <2> QED  BY <2>1, <1>3 DEF n
<1>6. \A g \in gaps : g = c \/ g = c + 1
  <2> SUFFICES ASSUME NEW i \in 1..(k - 1)  PROVE place[i + 1] - place[i] \in {c, c + 1}
    OBVIOUS
  <2>1. i \in 1..k /\ i + 1 \in 1..k  OBVIOUS
  <2> HIDE DEF place
  <2> QED  BY <2>1, <1>3
<1>7. \A g \in gaps, h \in gaps : g > 0 /\ g - h <= 1
  <2> HIDE DEF gaps
  <2> QED  BY <1>6
<1> QED  BY <1>2, <1>4, <1>5, <1>7 DEF Spread, n

LEMMA LimitedIsSpread ==
  ASSUME NEW V, NEW all \in Samples(V), Limited(all) # <<>>
  PROVE  Spread(all, Limited(all))
<1> DEFINE n == Len(all)  M == MaxTrials
<1>1. all \in Seq(V) /\ DOMAIN all = 1..n /\ n \in Nat  BY DEF Samples
<1>2. M \in Nat \ {0}  BY OfTheSettings
<1>3. Min({M, n}) = IF M <= n THEN M ELSE n
  <2>1. M \in Int /\ n \in Int  BY <1>1, <1>2
  <2> HIDE DEF n
  <2> QED  BY <2>1, GreaterOfTwo
<1>4. CASE n <= M
  <2> DEFINE f == [i \in 1..n |-> i]
  <2>1. Limited(all) = all /\ all # <<>>  BY <1>4 DEF Limited
  <2>2. n \in Nat \ {0}  BY <2>1, <1>1
  <2>3. all = [i \in 1..n |-> all[f[i]]]  BY <1>1
  <2>4. n = Min({M, Len(all)})  BY <1>3, <1>4, <1>1, <1>2
  <2>5. f \in [1..n -> 1..Len(all)] /\ f[1] = 1 /\ f[n] = Len(all)  BY <2>2
  <2> DEFINE c == 1
  <2>6. c \in Nat \ {0} /\ \A i \in 1..(n - 1) : f[i + 1] - f[i] \in {c, c + 1}
    <3>1. \A i \in 1..(n - 1) : i \in 1..n /\ i + 1 \in 1..n /\ (i + 1) - i = 1  BY <2>2
    <3> QED  BY <3>1
  <2>7. Spread(all, [i \in 1..n |-> all[f[i]]])
    <3> HIDE DEF f, n, c
    <3> QED  BY <2>2, <2>4, <2>5, <2>6, PlacedAreSpread
  <2> QED  BY <2>1, <2>3, <2>7
<1>5. CASE n > M /\ M = 1
  <2> DEFINE f == [i \in 1..1 |-> 1]
  <2>1. ~(Len(all) <= MaxTrials) /\ MaxTrials = 1  BY <1>5, <1>1, <1>2
  <2>2. Limited(all) = <<all[1]>>  BY <2>1 DEF Limited
  <2>3. <<all[1]>> = [i \in 1..1 |-> all[f[i]]]
    <3>1. \A i \in 1..1 : i = 1  OBVIOUS
    <3> QED  BY <3>1
  <2>4. 1 = Min({M, Len(all)})  BY <1>3, <1>5
  <2>5. f \in [1..1 -> 1..Len(all)] /\ f[1] = 1  BY <1>5, <1>1
  <2>6. \A i \in 1..(1 - 1) : f[i + 1] - f[i] \in {1, 1 + 1}  OBVIOUS
  <2>7. Spread(all, [i \in 1..1 |-> all[f[i]]])
    <3>1. 1 \in Nat \ {0} /\ (1 > 1 => f[1] = Len(all))  OBVIOUS
    <3> HIDE DEF f
    <3> QED  BY <3>1, <2>4, <2>5, <2>6, PlacedAreSpread
  <2> QED  BY <2>2, <2>3, <2>7
<1>6. CASE n > M /\ M # 1
  <2> DEFINE b == M - 1  d == n - 1  c == d \div b
             f == [i \in 1..M |-> Round((i - 1) * d, b) + 1]
             S == {i + 1 : i \in Indexes(n)}
  <2>1. b \in Nat \ {0} /\ d \in Nat /\ b < d  BY <1>6, <1>1, <1>2
  <2>2. M = b + 1 /\ n = d + 1  BY <1>1, <1>2
  <2> HIDE DEF b, d, n, M
  <2>3. \A i \in 1..M : f[i] \in Int
    <3>1. \A i \in 1..M : i - 1 \in Nat  BY <1>2
    <3>2. \A i \in Nat : Round(i * d, b) \in Int  BY <2>1, RoundsFollow
    <3> QED  BY <3>1, <3>2
  <2>4. c \in Nat \ {0} /\ \A i \in 1..(M - 1) : f[i + 1] - f[i] \in {c, c + 1}
    <3>1. c \in Nat \ {0}
      <4>1. 0 \in Nat  OBVIOUS
      <4> QED  BY <4>1, <2>1, RoundsFollow
    <3>2. ASSUME NEW i \in 1..(M - 1)  PROVE f[i + 1] - f[i] \in {c, c + 1}
      <4>1. i - 1 \in Nat /\ i \in 1..M /\ i + 1 \in 1..M /\ (i - 1) + 1 = i /\ (i + 1) - 1 = i
        BY <1>2
      <4> DEFINE j == i - 1
      <4>2. j \in Nat /\ j + 1 = i  BY <4>1
      <4>3. f[i + 1] = Round(i * d, b) + 1 /\ f[i] = Round(j * d, b) + 1  BY <4>1
      <4> HIDE DEF j, f
      <4>4. Round(j * d, b) \in Int /\ Round((j + 1) * d, b) \in Int
            /\ Round((j + 1) * d, b) - Round(j * d, b) \in {c, c + 1}
        BY <4>2, <2>1, RoundsFollow
      <4> HIDE DEF c
      <4> QED  BY <4>2, <4>3, <4>4, <3>1
    <3> QED  BY <3>1, <3>2
  <2>5. f[1] = 1 /\ f[M] = n
    <3>1. 1 \in 1..M /\ M \in 1..M  BY <1>2
    <3>2. (1 - 1) * d = b * 0 /\ (M - 1) * d = b * d  BY <2>1, <2>2
    <3>3. Round(b * 0, b) = 0 /\ Round(b * d, b) = d  BY <2>1, RoundIsExact
    <3>4. f[1] = Round((1 - 1) * d, b) + 1 /\ f[M] = Round((M - 1) * d, b) + 1  BY <3>1
    <3> HIDE DEF f
    <3> QED  BY <3>2, <3>3, <3>4, <2>2
  <2>6. S = {f[i] : i \in 1..M}
    <3>1. Indexes(n) = {Round(i * d, b) : i \in 0..(M - 1)}  BY DEF Indexes, b, d, M
    <3>2. ASSUME NEW x \in S  PROVE \E i \in 1..M : x = f[i]
      <4>1. PICK i \in 0..(M - 1) : x = Round(i * d, b) + 1  BY <3>1
      <4>2. i + 1 \in 1..M /\ (i + 1) - 1 = i  BY <1>2
      <4>3. f[i + 1] = Round(i * d, b) + 1  BY <4>2
      <4> QED  BY <4>1, <4>2, <4>3
    <3>3. ASSUME NEW i \in 1..M  PROVE f[i] \in S
      <4>1. i - 1 \in 0..(M - 1)  BY <1>2
      <4>2. Round((i - 1) * d, b) \in Indexes(n)  BY <4>1, <3>1
      <4> QED  BY <4>2
    <3> QED  BY <3>2, <3>3
  <2> HIDE DEF f, c, S
  <2>7. Climbs(f, M)
    <3>1. ASSUME NEW i \in 1..(M - 1)  PROVE f[i] < f[i + 1]
      <4>1. i \in 1..M /\ i + 1 \in 1..M  BY <1>2
      <4> QED  BY <4>1, <2>3, <2>4
    <3> QED  BY <3>1 DEF Climbs
  <2>8. Ascends(f, M) /\ \A i \in 1..M : f[1] <= f[i] /\ f[i] <= f[M]
    BY <1>2, <2>3, <2>7, ClimbingAscends
  <2>9. f \in [1..M -> S] /\ S \in SUBSET (1..n)
    <3>1. f = [i \in 1..M |-> f[i]]  BY DEF f
    <3>2. \A i \in 1..M : f[i] \in 1..n  BY <2>3, <2>5, <2>8, <1>1
    <3> QED  BY <3>1, <3>2, <2>6
  <2>10. Places(n, S, M, f)  BY <2>8, <2>9, <1>1, <1>2 DEF Places
  <2>11. Cardinality(S) = M /\ \A i \in 1..M : Nth(S, i) = f[i]
    <3>1. S \subseteq {f[i] : i \in 1..M}  BY <2>6
    <3> QED  BY <3>1, <2>10, AscendingIsNth
  <2>12. Limited(all) = [i \in 1..M |-> all[f[i]]]
    <3>1. ~(Len(all) <= MaxTrials) /\ MaxTrials # 1  BY <1>6, <1>1, <1>2 DEF n, M
    <3>2. Limited(all) = ItemsAt(all, S)  BY <3>1 DEF Limited, S, n
    <3>3. ItemsAt(all, S) = [i \in 1..M |-> all[Nth(S, i)]]  BY <2>11 DEF ItemsAt
    <3> QED  BY <3>2, <3>3, <2>11
  <2>13. Spread(all, [i \in 1..M |-> all[f[i]]])
    <3>1. M = Min({MaxTrials, Len(all)})
      <4>1. M = Min({M, n})  BY <1>3, <1>6, <1>1, <1>2
      <4> QED  BY <4>1 DEF M, n
    <3>2. f \in [1..M -> 1..Len(all)]  BY <2>9 DEF n
    <3>3. f[M] = Len(all)  BY <2>5 DEF n
    <3> QED  BY <3>1, <3>2, <3>3, <2>4, <2>5, <1>2, PlacedAreSpread
  <2> QED  BY <2>12, <2>13
<1> QED  BY <1>1, <1>2, <1>4, <1>5, <1>6

(* A search keeps what it chose from the grid.                              *)
ChosenInv == chosen # <<>> => account \in Accounts /\ chosen = Limited(Combinations[account])

LEMMA ChosenGoesOn ==
  ASSUME ChosenInv, ViewerStep \/ UNCHANGED <<viewer, search>>
  PROVE  ChosenInv'
<1>1. ASSUME UNCHANGED <<chosen, account>>  PROVE ChosenInv'
  BY <1>1 DEF ChosenInv
<1>2. UNCHANGED search => UNCHANGED <<chosen, account>>  BY DEF search
<1>3. CASE Start
  <2>1. CASE \E t \in Tabs : StartFeed(t)
    BY <2>1, <1>1, <1>2 DEF StartFeed
  <2>2. CASE \E optimize \in BOOLEAN, mode \in {"adaptive", "all"}, strategy \in {"static", "adaptive"} :
               StartReplay(optimize, mode, strategy)
    <3>1. PICK optimize \in BOOLEAN, mode \in {"adaptive", "all"}, strategy \in {"static", "adaptive"} :
            StartReplay(optimize, mode, strategy)
      BY <2>2
    <3>2. BeginSearch(mode = "all") \/ NoSearch  BY <3>1 DEF StartReplay
    <3>3. CASE BeginSearch(mode = "all")
      <4>1. account' \in Accounts /\ chosen' = Limited(Combinations[account'])  BY <3>3 DEF BeginSearch
      <4>2. ChosenInv' = (chosen' # <<>> => account' \in Accounts /\ chosen' = Limited(Combinations[account']))
        BY DEF ChosenInv
      <4> QED  BY <4>1, <4>2
    <3>4. CASE NoSearch  BY <3>4 DEF NoSearch, ChosenInv
    <3> QED  BY <3>2, <3>3, <3>4
  <2>3. CASE \E prod, sends, confirmed, agreed \in BOOLEAN :
               StartTrading(prod, sends, confirmed, agreed)
    BY <2>3, <1>1, <1>2 DEF StartTrading
  <2> QED  BY <1>3, <2>1, <2>2, <2>3 DEF Start
<1>4. CASE Window
  <2>1. BeginPoll => UNCHANGED search  BY DEF BeginPoll
  <2>2. ASSUME NEW t \in Tabs, HandleEvent(t) \/ NextTab(t)  PROVE UNCHANGED search
    BY <2>2 DEF HandleEvent, NextTab
  <2> QED  BY <1>4, <2>1, <2>2, <1>1, <1>2 DEF Window
<1>5. CASE RunTrial
  <2>1. UNCHANGED <<chosen, account>>  BY <1>5 DEF RunTrial, NextTrial
  <2> QED  BY <2>1, <1>1
<1>6. CASE FillUntold \/ CloseWindow
           \/ \E t \in Tabs : Stop(t) \/ Tell(t) \/ Leave(t) \/ PutLast(t) \/ ThreadEnds(t)
  <2>1. FillUntold \/ CloseWindow => UNCHANGED search  BY DEF FillUntold, CloseWindow
  <2>2. ASSUME NEW t \in Tabs, Stop(t) \/ Tell(t) \/ Leave(t) \/ PutLast(t) \/ ThreadEnds(t)
        PROVE  UNCHANGED search
    <3>1. CASE Stop(t)  BY <3>1 DEF Stop
    <3>2. CASE Tell(t)  BY <3>2 DEF Tell
    <3>3. CASE Leave(t)  BY <3>3 DEF Leave
    <3>4. CASE PutLast(t)  BY <3>4 DEF PutLast
    <3>5. CASE ThreadEnds(t)  BY <3>5 DEF ThreadEnds
    <3> QED  BY <2>2, <3>1, <3>2, <3>3, <3>4, <3>5
  <2> QED  BY <1>6, <2>1, <2>2, <1>1, <1>2
<1>7. CASE UNCHANGED <<viewer, search>>
  BY <1>7, <1>1, <1>2
<1> QED  BY <1>3, <1>4, <1>5, <1>6, <1>7 DEF ViewerStep

(* The trials are as many as allowed, spread over the whole grid from its   *)
(* first to its last valid combination, none twice (optimization.py:357).   *)
THEOREM TrialsStaySpread == Spec => []TrialsAreSpread
<1>1. Init => ChosenInv
  <2>1. Init => ViewerInit  BY DEF Init
  <2>2. ViewerInit => chosen = <<>>  BY DEF ViewerInit, TrialsInit
  <2> QED  BY <2>1, <2>2 DEF ChosenInv
<1>2. ChosenInv /\ [Next]_vars => ChosenInv'
  <2> SUFFICES ASSUME ChosenInv, [Next]_vars  PROVE ChosenInv'
    OBVIOUS
  <2>1. CASE UNCHANGED vars
    <3>1. UNCHANGED <<viewer, search>>  BY <2>1 DEF vars
    <3> QED  BY <3>1, ChosenGoesOn
  <2>2. CASE Next
    <3>1. started = "viewer" => ViewerStep  BY <2>2 DEF Next
    <3>2. started # "viewer" => UNCHANGED <<viewer, search>>  BY <2>2 DEF Next, Still
    <3> QED  BY <3>1, <3>2, ChosenGoesOn
  <2> QED  BY <2>1, <2>2
<1>3. ChosenInv => TrialsAreSpread
  <2> SUFFICES ASSUME ChosenInv, chosen # <<>>  PROVE Spread(Combinations[account], chosen)
    BY Zenon DEF TrialsAreSpread, Spread
  <2>1. account \in Accounts /\ chosen = Limited(Combinations[account])  BY DEF ChosenInv
  <2>2. Combinations[account] \in Samples(Combination)  BY <2>1, CombinationsAreASample
  <2>3. Limited(Combinations[account]) # <<>>  BY <2>1
  <2> QED  BY <2>1, <2>2, <2>3, LimitedIsSpread
<1> QED  BY <1>1, <1>2, <1>3, PTL DEF Spec

-----------------------------------------------------------------------------
(* The walk-forward.  A sum of whole numbers is one.                        *)
SumFolder(s) ==
  CHOOSE iter : iter = [S \in SUBSET (DOMAIN s) |->
    IF S = {} THEN 0 ELSE iter[S \ {Max(S)}] + s[Max(S)]]

LEMMA SumFolds ==
  ASSUME NEW n \in Nat, NEW s \in [1..n -> Int],
         NEW g \in [Int \X Int -> Int], \A x, y \in Int : g[<<x, y>>] = x + y
  PROVE  FoldsIn(SumFolder(s), Int, n, s, 0, g)
<1> DEFINE F == SumFolder(s)
<1>0. 0 \in Int /\ \A i \in 1..n : s[i] \in Int  OBVIOUS
<1>1. PICK f \in [SUBSET (1..n) -> Int] : FoldsUp(f, n, s, 0, g)
  BY <1>0, FoldExists
<1>2. \A S \in SUBSET (1..n) : S # {} => Max(S) \in 1..n /\ S \ {Max(S)} \in SUBSET (1..n)
  BY LargestNumber
<1>3. ASSUME NEW S \in SUBSET (1..n)
      PROVE  f[S] = IF S = {} THEN 0 ELSE f[S \ {Max(S)}] + s[Max(S)]
  <2>1. CASE S = {}  BY <2>1, <1>1 DEF FoldsUp
  <2>2. CASE S # {}
    <3>1. f[S \ {Max(S)}] \in Int /\ s[Max(S)] \in Int  BY <2>2, <1>1, <1>2
    <3>2. f[S] = g[<<f[S \ {Max(S)}], s[Max(S)]>>]  BY <2>2, <1>1 DEF FoldsUp
    <3>3. g[<<f[S \ {Max(S)}], s[Max(S)]>>] = f[S \ {Max(S)}] + s[Max(S)]  BY <3>1
    <3> QED  BY <3>2, <3>3, <2>2
  <2> QED  BY <2>1, <2>2
<1>4. f = [S \in SUBSET (DOMAIN s) |-> IF S = {} THEN 0 ELSE f[S \ {Max(S)}] + s[Max(S)]]
  BY <1>1, <1>3
<1>5. F = [S \in SUBSET (DOMAIN s) |-> IF S = {} THEN 0 ELSE F[S \ {Max(S)}] + s[Max(S)]]
  <2>1. \E iter : iter = [S \in SUBSET (DOMAIN s) |->
                            IF S = {} THEN 0 ELSE iter[S \ {Max(S)}] + s[Max(S)]]
    BY <1>4
  <2> QED  BY Zenon, <2>1 DEF SumFolder
<1> HIDE DEF F
<1>6. F[{}] = 0  BY <1>5
<1>7. ASSUME NEW S \in SUBSET (1..n), S # {}, F[S \ {Max(S)}] \in Int
      PROVE  F[S] = g[<<F[S \ {Max(S)}], s[Max(S)]>>]
  <2>1. F[S] = F[S \ {Max(S)}] + s[Max(S)]  BY <1>5, <1>7
  <2>2. s[Max(S)] \in Int  BY <1>7, <1>2
  <2> QED  BY <2>1, <2>2, <1>7
<1>8. FoldsIn(F, Int, n, s, 0, g)  BY <1>6, <1>7 DEF FoldsIn
<1> QED  BY <1>8 DEF F

LEMMA SumIsWhole ==
  ASSUME NEW n \in Nat, NEW s \in [1..n -> Int]
  PROVE  Summed(s) \in Int
<1> DEFINE g == [x \in Int \X Int |-> x[1] + x[2]]
<1>1. g \in [Int \X Int -> Int] /\ \A x, y \in Int : g[<<x, y>>] = x + y  OBVIOUS
<1> HIDE DEF g
<1>2. FoldsIn(SumFolder(s), Int, n, s, 0, g)  BY <1>1, SumFolds
<1>3. \A i \in 1..n : s[i] \in Int  OBVIOUS
<1>4. 0 \in Int  OBVIOUS
<1>5. SumFolder(s)[1..n] \in Int  BY <1>1, <1>2, <1>3, <1>4, FoldStays
<1>6. Summed(s) = SumFolder(s)[DOMAIN s]
  BY Zenon DEF Summed, FoldLeft, MapThenFoldSet, SumFolder
<1> QED  BY <1>5, <1>6

(* The least of some whole numbers is one of them.                          *)
LEMMA SomeIsLeast ==
  ASSUME NEW n \in Nat, n # 0, NEW s, \A i \in 1..n : s[i] \in Int
  PROVE  \E k \in 1..n : \A j \in 1..n : s[k] <= s[j]
<1> DEFINE Bad == {m \in Nat : m # 0 /\ m <= n /\ ~\E k \in 1..m : \A j \in 1..m : s[k] <= s[j]}
<1>1. SUFFICES ASSUME Bad # {}  PROVE FALSE
  OBVIOUS
<1>2. PICK m \in Bad : \A j \in Bad : m <= j  BY <1>1, FirstNumber
<1>3. m \in Nat /\ m # 0 /\ m <= n /\ ~\E k \in 1..m : \A j \in 1..m : s[k] <= s[j]  OBVIOUS
<1>4. \A i \in 1..m : s[i] \in Int  BY <1>3
<1>5. CASE m = 1
  <2>1. 1 \in 1..m /\ \A j \in 1..m : j = 1  BY <1>5
  <2>2. \A j \in 1..m : s[1] <= s[j]  BY <2>1, <1>4
  <2> QED  BY <2>1, <2>2, <1>3
<1>6. CASE m # 1
  <2>1. m - 1 \in Nat /\ m - 1 # 0 /\ m - 1 <= n /\ ~(m <= m - 1)  BY <1>3, <1>6
  <2>2. m - 1 \notin Bad  BY <2>1, <1>2
  <2>3. PICK k \in 1..(m - 1) : \A j \in 1..(m - 1) : s[k] <= s[j]  BY <2>1, <2>2
  <2>4. k \in 1..m /\ m \in 1..m /\ \A j \in 1..m : j \in 1..(m - 1) \/ j = m  BY <1>3
  <2>5. s[k] \in Int /\ s[m] \in Int  BY <2>4, <1>4
  <2> HIDE DEF Bad
  <2>6. CASE s[m] <= s[k]
    <3>1. ASSUME NEW j \in 1..m  PROVE s[m] <= s[j]
      <4>1. s[j] \in Int  BY <1>4
      <4>2. CASE j = m  BY <4>1, <4>2
      <4>3. CASE j \in 1..(m - 1)
        <5>1. s[k] <= s[j]  BY <4>3, <2>3
        <5> QED  BY <5>1, <4>1, <2>5, <2>6
      <4> QED  BY <4>2, <4>3, <2>4
    <3> QED  BY <3>1, <2>4, <1>3
  <2>7. CASE s[k] <= s[m]
    <3>1. \A j \in 1..m : s[k] <= s[j]  BY <2>3, <2>4, <2>7
    <3> QED  BY <3>1, <2>4, <1>3
  <2> QED  BY <2>5, <2>6, <2>7
<1> QED  BY <1>5, <1>6

LEMMA WorstIsWhole ==
  ASSUME NEW n \in Nat \ {0}, NEW s \in [1..n -> Int]
  PROVE  Min(Range(s)) \in Int
<1>1. n \in Nat /\ n # 0 /\ \A i \in 1..n : s[i] \in Int  OBVIOUS
<1>2. PICK k \in 1..n : \A j \in 1..n : s[k] <= s[j]  BY <1>1, SomeIsLeast
<1>3. Range(s) = {s[i] : i \in 1..n}  BY DEF Range
<1>4. s[k] \in Range(s) /\ \A y \in Range(s) : s[k] <= y  BY <1>2, <1>3
<1>5. Min(Range(s)) \in Range(s)  BY <1>4, Zenon DEF Min
<1> QED  BY <1>1, <1>3, <1>5

(* A parameter set is scored on the first n recordings, and ranked by what  *)
(* it made of them: the board has the worst result and the sum.             *)
Scored(board, p, n) == \A r \in 1..n : <<p, r>> \in DOMAIN board /\ board[<<p, r>>] \in Int
Gained(board, p, n) == [r \in 1..n |-> board[<<p, r>>]]
Rank(board, rule, p, n) ==
  IF rule = "worst" THEN <<Min(Range(Gained(board, p, n))), Summed(Gained(board, p, n))>>
  ELSE <<Summed(Gained(board, p, n)), Min(Range(Gained(board, p, n)))>>
Lower(x, y) == x[1] < y[1] \/ (x[1] = y[1] /\ x[2] < y[2])

LEMMA GainsAreWhole ==
  ASSUME NEW board, NEW p, NEW n \in Nat \ {0}, Scored(board, p, n)
  PROVE  /\ Gained(board, p, n) \in [1..n -> Int]
         /\ Min(Range(Gained(board, p, n))) \in Int /\ Summed(Gained(board, p, n)) \in Int
<1>1. Gained(board, p, n) \in [1..n -> Int]  BY DEF Gained, Scored
<1> QED  BY <1>1, WorstIsWhole, SumIsWhole

LEMMA RankIsWhole ==
  ASSUME NEW board, NEW rule, NEW p, NEW n \in Nat \ {0}, Scored(board, p, n)
  PROVE  Rank(board, rule, p, n) \in Int \X Int
BY GainsAreWhole DEF Rank

LEMMA LowerOrders ==
  /\ \A x \in Int \X Int : ~Lower(x, x)
  /\ \A x, y \in Int \X Int : Lower(x, y) => ~Lower(y, x)
  /\ \A x, y, z \in Int \X Int : ~Lower(x, y) /\ Lower(x, z) => Lower(y, z)
<1>1. \A x \in Int \X Int : x[1] \in Int /\ x[2] \in Int  OBVIOUS
<1> QED  BY <1>1 DEF Lower

LEMMA PrefersIsLower ==
  ASSUME NEW board, NEW rule, NEW p, NEW q, NEW n \in Nat \ {0},
         Scored(board, p, n), Scored(board, q, n)
  PROVE  Prefers(board, rule, p, q, [r \in 1..n |-> r])
           <=> Lower(Rank(board, IF rule = "total" THEN "total" ELSE "worst", q, n),
                     Rank(board, IF rule = "total" THEN "total" ELSE "worst", p, n))
<1> DEFINE train == [r \in 1..n |-> r]
           sp == Summed(Gained(board, p, n))  wp == Min(Range(Gained(board, p, n)))
           sq == Summed(Gained(board, q, n))  wq == Min(Range(Gained(board, q, n)))
<1>1. Scores(board, p, train) = Gained(board, p, n) /\ Scores(board, q, train) = Gained(board, q, n)
  BY DEF Scores, Gained
<1>2. sp \in Int /\ wp \in Int /\ sq \in Int /\ wq \in Int  BY GainsAreWhole
<1>3. /\ Total(board, p, train) = sp /\ Worst(board, p, train) = wp
      /\ Total(board, q, train) = sq /\ Worst(board, q, train) = wq
  BY <1>1 DEF Total, Worst
<1> HIDE DEF train
<1>4. Prefers(board, rule, p, q, train) <=>
        IF rule = "total" THEN sp - sq > 0 \/ (sp - sq = 0 /\ wp - wq > 0)
        ELSE wp - wq > 0 \/ (wp - wq = 0 /\ sp - sq > 0)
  BY <1>3, Zenon DEF Prefers
<1> HIDE DEF sp, sq, wp, wq
<1>5. CASE rule = "total"
  <2>1. Rank(board, "total", q, n) = <<sq, wq>> /\ Rank(board, "total", p, n) = <<sp, wp>>
    BY DEF Rank, sp, sq, wp, wq
  <2>2. Prefers(board, rule, p, q, train) <=> sp - sq > 0 \/ (sp - sq = 0 /\ wp - wq > 0)
    BY <1>4, <1>5
  <2>3. Lower(<<sq, wq>>, <<sp, wp>>) <=> sp - sq > 0 \/ (sp - sq = 0 /\ wp - wq > 0)
    BY <1>2 DEF Lower
  <2> QED  BY <1>5, <2>1, <2>2, <2>3 DEF train
<1>6. CASE rule # "total"
  <2>1. Rank(board, "worst", q, n) = <<wq, sq>> /\ Rank(board, "worst", p, n) = <<wp, sp>>
    BY DEF Rank, sp, sq, wp, wq
  <2>2. Prefers(board, rule, p, q, train) <=> wp - wq > 0 \/ (wp - wq = 0 /\ sp - sq > 0)
    BY <1>4, <1>6
  <2>3. Lower(<<wq, sq>>, <<wp, sp>>) <=> wp - wq > 0 \/ (wp - wq = 0 /\ sp - sq > 0)
    BY <1>2 DEF Lower
  <2> QED  BY <1>6, <2>1, <2>2, <2>3 DEF train
<1> QED  BY <1>5, <1>6

(* The set in the lead is the first of those tried that no other beats.     *)
FirstBest(board, rule, c, k, n) ==
  /\ c \in 1..k
  /\ \A p \in 1..k : Scored(board, p, n)
  /\ \A p \in 1..k :
       /\ ~Lower(Rank(board, rule, c, n), Rank(board, rule, p, n))
       /\ p < c => Lower(Rank(board, rule, p, n), Rank(board, rule, c, n))

LEMMA OneIsTried ==
  ASSUME NEW board, NEW rule, NEW n \in Nat \ {0}, Scored(board, 1, n)
  PROVE  FirstBest(board, rule, 1, 1, n)
<1>1. \A p \in 1..1 : p = 1 /\ ~(p < 1)  OBVIOUS
<1>2. ~Lower(Rank(board, rule, 1, n), Rank(board, rule, 1, n))  BY RankIsWhole, LowerOrders
<1>3. 1 \in 1..1  OBVIOUS
<1> QED  BY <1>1, <1>2, <1>3 DEF FirstBest

LEMMA AnotherIsTried ==
  ASSUME NEW board, NEW rule, NEW c, NEW k \in Nat, NEW n \in Nat \ {0},
         FirstBest(board, rule, c, k, n), Scored(board, k + 1, n)
  PROVE  /\ Lower(Rank(board, rule, c, n), Rank(board, rule, k + 1, n))
              => FirstBest(board, rule, k + 1, k + 1, n)
         /\ ~Lower(Rank(board, rule, c, n), Rank(board, rule, k + 1, n))
              => FirstBest(board, rule, c, k + 1, n)
<1> DEFINE rank(p) == Rank(board, rule, p, n)
<1>1. /\ c \in 1..k
      /\ \A p \in 1..k : Scored(board, p, n)
      /\ \A p \in 1..k : ~Lower(rank(c), rank(p)) /\ (p < c => Lower(rank(p), rank(c)))
  BY DEF FirstBest
<1>2. /\ k + 1 \in 1..(k + 1) /\ c \in 1..(k + 1) /\ ~(k + 1 < c)
      /\ \A p \in 1..(k + 1) : p \in 1..k \/ p = k + 1
      /\ \A p \in 1..(k + 1) : p < k + 1 => p \in 1..k
  BY <1>1
<1>3. \A p \in 1..(k + 1) : Scored(board, p, n)  BY <1>1, <1>2
<1>4. \A p \in 1..(k + 1) : rank(p) \in Int \X Int  BY <1>3, RankIsWhole
<1> HIDE DEF rank
<1>5. ASSUME Lower(rank(c), rank(k + 1))  PROVE FirstBest(board, rule, k + 1, k + 1, n)
  <2>1. \A p \in 1..k : Lower(rank(p), rank(k + 1))
    <3>1. TAKE p \in 1..k
    <3>2. p \in 1..(k + 1)  OBVIOUS
    <3>3. rank(p) \in Int \X Int /\ rank(c) \in Int \X Int /\ rank(k + 1) \in Int \X Int
      BY <3>2, <1>2, <1>4
    <3>4. ~Lower(rank(c), rank(p))  BY <1>1
    <3> QED  BY <3>3, <3>4, <1>5, LowerOrders
  <2>2. \A p \in 1..(k + 1) : ~Lower(rank(k + 1), rank(p))
    <3>1. TAKE p \in 1..(k + 1)
    <3>2. rank(p) \in Int \X Int /\ rank(k + 1) \in Int \X Int  BY <1>2, <1>4
    <3>3. CASE p = k + 1  BY <3>2, <3>3, LowerOrders
    <3>4. CASE p \in 1..k  BY <3>2, <3>4, <2>1, LowerOrders
    <3> QED  BY <3>3, <3>4, <1>2
  <2> QED  BY <2>1, <2>2, <1>2, <1>3, Zenon DEF FirstBest, rank
<1>6. ASSUME ~Lower(rank(c), rank(k + 1))  PROVE FirstBest(board, rule, c, k + 1, n)
  <2>1. \A p \in 1..(k + 1) : ~Lower(rank(c), rank(p)) /\ (p < c => Lower(rank(p), rank(c)))
    BY <1>1, <1>2, <1>6
  <2> QED  BY <2>1, <1>2, <1>3, Zenon DEF FirstBest, rank
<1> QED  BY <1>5, <1>6 DEF rank

(* A board grows: what it says of a recording it goes on saying.            *)
Grown(old, new) == \A x \in DOMAIN old : x \in DOMAIN new /\ new[x] = old[x]

LEMMA GrownSaysTheSame ==
  ASSUME NEW old, NEW new, Grown(old, new), NEW rule, NEW n \in Nat
  PROVE  /\ \A p : Scored(old, p, n) =>
                Scored(new, p, n) /\ Rank(new, rule, p, n) = Rank(old, rule, p, n)
         /\ \A c, k : FirstBest(old, rule, c, k, n) => FirstBest(new, rule, c, k, n)
<1>1. ASSUME NEW p, Scored(old, p, n)
      PROVE  Scored(new, p, n) /\ Rank(new, rule, p, n) = Rank(old, rule, p, n)
  <2>1. \A r \in 1..n : <<p, r>> \in DOMAIN new /\ new[<<p, r>>] = old[<<p, r>>] /\ old[<<p, r>>] \in Int
    BY <1>1 DEF Grown, Scored
  <2>2. Gained(new, p, n) = Gained(old, p, n)  BY <2>1 DEF Gained
  <2> QED  BY <2>1, <2>2 DEF Scored, Rank
<1>2. ASSUME NEW c, NEW k, FirstBest(old, rule, c, k, n)  PROVE FirstBest(new, rule, c, k, n)
  <2>1. c \in 1..k /\ \A p \in 1..k : Scored(old, p, n)  BY <1>2 DEF FirstBest
  <2>2. \A p \in 1..k : Scored(new, p, n) /\ Rank(new, rule, p, n) = Rank(old, rule, p, n)
    BY <2>1, <1>1
  <2>3. ASSUME NEW p \in 1..k
        PROVE  /\ ~Lower(Rank(new, rule, c, n), Rank(new, rule, p, n))
               /\ p < c => Lower(Rank(new, rule, p, n), Rank(new, rule, c, n))
    <3>1. /\ ~Lower(Rank(old, rule, c, n), Rank(old, rule, p, n))
          /\ p < c => Lower(Rank(old, rule, p, n), Rank(old, rule, c, n))
      BY <1>2 DEF FirstBest
    <3>2. Rank(new, rule, p, n) = Rank(old, rule, p, n) /\ Rank(new, rule, c, n) = Rank(old, rule, c, n)
      BY <2>1, <2>2
    <3> QED  BY <3>1, <3>2
  <2> QED  BY <2>1, <2>2, <2>3 DEF FirstBest
<1> QED  BY <1>1, <1>2

(* What is kept of a fold: the sets that were tried are scored on what came *)
(* before its recording, and the one chosen is the first that is best.      *)
FoldHolds(f, i, rule, partial, board) ==
  /\ f.test = MinTrain + i /\ f.tried \in Nat
  /\ FirstBest(board, rule, f.chosen, f.tried, f.test - 1)
  /\ f.inSample \in Int /\ f.outOfSample \in Int
  /\ f.tried = Len(ParameterGrid) \/ partial

LEMMA FoldGoesOn ==
  ASSUME NEW f, NEW i \in Nat \ {0}, NEW rule, NEW before, NEW after, NEW old, NEW new,
         FoldHolds(f, i, rule, before, old), Grown(old, new), before => after
  PROVE  FoldHolds(f, i, rule, after, new)
<1>1. MinTrain \in Nat \ {0}  BY OfTheSettings
<1>2. f.test - 1 \in Nat  BY <1>1 DEF FoldHolds
<1>3. FirstBest(new, rule, f.chosen, f.tried, f.test - 1)
  BY <1>2, GrownSaysTheSame DEF FoldHolds
<1> QED  BY <1>3 DEF FoldHolds

(* After a stop nothing is fitted, so a fold for which a part of the grid   *)
(* was tried is the last one.                                               *)
Fields(w) ==
  w = [split |-> w.split, next |-> w.next, best |-> w.best, folds |-> w.folds,
       rule |-> w.rule, stop |-> w.stop, over |-> w.over]
WalkTypes ==
  /\ Fields(fitting) /\ fitting.rule \in {"worst", "total"} /\ \E S : fitting.folds \in Seq(S)
  /\ fitting.split = MinTrain + Len(fitting.folds)
  /\ fitting.next \in 1..(Len(ParameterGrid) + 1)
  /\ \A k \in DOMAIN scoreboard : scoreboard[k] \in Int
LeadHolds ==
  \/ fitting.next = 1 /\ fitting.best = <<>>
  \/ /\ fitting.next > 1
     /\ \E c : /\ fitting.best = <<c>>
               /\ FirstBest(scoreboard, fitting.rule, c, fitting.next - 1, fitting.split)
FoldsHold ==
  \A i \in 1..Len(fitting.folds) :
    FoldHolds(fitting.folds[i], i, fitting.rule,
              fitting.stop /\ i = Len(fitting.folds) /\ fitting.best = <<>>, scoreboard)
WalkInv == WalkTypes /\ LeadHolds /\ FoldsHold

LEMMA ReplaysGrow ==
  ASSUME \A k \in DOMAIN scoreboard : scoreboard[k] \in Int,
         NEW p, NEW which, Replays(p, which)
  PROVE  /\ Grown(scoreboard, scoreboard')
         /\ \A k \in DOMAIN scoreboard' : scoreboard'[k] \in Int
         /\ \A r \in which : <<p, r>> \in DOMAIN scoreboard'
<1> DEFINE new == {r \in which : <<p, r>> \notin DOMAIN scoreboard}
<1>1. PICK gains \in [new -> Gains] :
        scoreboard' = [k \in DOMAIN scoreboard \cup {<<p, r>> : r \in DOMAIN gains} |->
                        IF k \in DOMAIN scoreboard THEN scoreboard[k] ELSE gains[k[2]]]
  BY DEF Replays
<1>2. DOMAIN gains = new /\ \A r \in new : gains[r] \in Int
  BY <1>1, OfTheSettings
<1>3. DOMAIN scoreboard' = DOMAIN scoreboard \cup {<<p, r>> : r \in new}  BY <1>1, <1>2
<1>4. \A k \in DOMAIN scoreboard : k \in DOMAIN scoreboard' /\ scoreboard'[k] = scoreboard[k]
  BY <1>1, <1>3
<1>5. ASSUME NEW r \in new  PROVE scoreboard'[<<p, r>>] \in Int
  <2>1. <<p, r>> \notin DOMAIN scoreboard /\ <<p, r>> \in DOMAIN scoreboard'  BY <1>3
  <2>2. scoreboard'[<<p, r>>] = gains[<<p, r>>[2]]  BY <2>1, <1>1, <1>3
  <2>3. <<p, r>>[2] = r  OBVIOUS
  <2> QED  BY <2>2, <2>3, <1>2
<1>6. \A r \in which : <<p, r>> \in DOMAIN scoreboard'  BY <1>3
<1>7. \A k \in DOMAIN scoreboard' : scoreboard'[k] \in Int
  <2> HIDE DEF new
  <2> QED  BY <1>3, <1>4, <1>5
<1> QED  BY <1>4, <1>6, <1>7 DEF Grown

LEMMA WalkBegins == ValidationInit => WalkInv
<1> SUFFICES ASSUME ValidationInit  PROVE WalkInv
  OBVIOUS
<1>1. /\ fitting = [split |-> MinTrain, next |-> 1, best |-> <<>>, folds |-> <<>>,
                    rule |-> "worst", stop |-> FALSE, over |-> FALSE]
      /\ scoreboard = [k \in {} |-> 0]
  BY DEF ValidationInit
<1>2. ParameterGrid \in Seq(Seq(Int))  BY GridIsASample DEF Samples
<1>3. Len(ParameterGrid) \in Nat /\ MinTrain \in Nat  BY <1>2, OfTheSettings
<1>4. fitting.folds \in Seq({}) /\ Len(fitting.folds) = 0  BY <1>1
<1>5. 1 \in 1..(Len(ParameterGrid) + 1)  BY <1>3
<1>6. WalkTypes  BY <1>1, <1>3, <1>4, <1>5 DEF WalkTypes, Fields
<1>7. LeadHolds  BY <1>1 DEF LeadHolds
<1>8. 1..Len(fitting.folds) = {}  BY <1>4
<1> QED  BY <1>6, <1>7, <1>8 DEF WalkInv, FoldsHold

(* A candidate takes the lead, or leaves it.                                *)
LEMMA FitKeepsWalk == WalkInv /\ Fit => WalkInv'
<1> SUFFICES ASSUME WalkInv, Fit  PROVE WalkInv'
  OBVIOUS
<1> DEFINE n == fitting.split  k == fitting.next  m == Len(fitting.folds)  r == fitting.rule
           best == IF fitting.best = <<>> \/ Prefers(scoreboard', r, k, fitting.best[1], Train)
                   THEN <<k>> ELSE fitting.best
<1>1. /\ Fields(fitting) /\ r \in {"worst", "total"} /\ \E S : fitting.folds \in Seq(S)
      /\ n = MinTrain + m /\ k \in 1..(Len(ParameterGrid) + 1)
      /\ \A x \in DOMAIN scoreboard : scoreboard[x] \in Int
  BY DEF WalkInv, WalkTypes
<1>2. m \in Nat /\ Len(ParameterGrid) \in Nat /\ MinTrain \in Nat \ {0}
  <2>1. m \in Nat  BY <1>1
  <2>2. ParameterGrid \in Seq(Seq(Int))  BY GridIsASample DEF Samples
  <2> QED  BY <2>1, <2>2, OfTheSettings
<1>3. n \in Nat \ {0} /\ k \in Nat \ {0}  BY <1>1, <1>2
<1>4. /\ ~fitting.stop /\ k <= Len(ParameterGrid)
      /\ Replays(k, {Train[i] : i \in DOMAIN Train})
      /\ fitting' = [fitting EXCEPT !.next = k + 1, !.best = best]
  BY DEF Fit
<1>5. fitting' = [split |-> n, next |-> k + 1, best |-> best, folds |-> fitting.folds,
                  rule |-> r, stop |-> fitting.stop, over |-> fitting.over]
  BY <1>1, <1>4 DEF Fields
<1>6. Train = [i \in 1..n |-> i]  BY DEF Train
<1> HIDE DEF n, k, m, r, best
<1>7. {Train[i] : i \in DOMAIN Train} = 1..n  BY <1>6
<1>8. /\ Grown(scoreboard, scoreboard') /\ \A x \in DOMAIN scoreboard' : scoreboard'[x] \in Int
      /\ \A i \in 1..n : <<k, i>> \in DOMAIN scoreboard'
  BY <1>1, <1>4, <1>7, ReplaysGrow
<1>9. Scored(scoreboard', k, n)  BY <1>8 DEF Scored
<1>10. WalkTypes'
  <2>1. k + 1 \in 1..(Len(ParameterGrid) + 1)  BY <1>2, <1>3, <1>4
  <2> QED  BY <2>1, <1>1, <1>5, <1>8 DEF WalkTypes, Fields, m
<1>11. \E c : best = <<c>> /\ FirstBest(scoreboard', r, c, k, n)
  <2>1. CASE k = 1 /\ fitting.best = <<>>
    <3>1. best = <<k>>  BY <2>1 DEF best
    <3>2. FirstBest(scoreboard', r, k, k, n)  BY <2>1, <1>3, <1>9, OneIsTried
    <3> QED  BY <3>1, <3>2
  <2>2. ASSUME NEW c, k > 1, fitting.best = <<c>>, FirstBest(scoreboard, r, c, k - 1, n)
        PROVE  \E d : best = <<d>> /\ FirstBest(scoreboard', r, d, k, n)
    <3>1. k - 1 \in Nat /\ (k - 1) + 1 = k  BY <1>3
    <3>2. FirstBest(scoreboard', r, c, k - 1, n)  BY <2>2, <1>3, <1>8, GrownSaysTheSame
    <3>3. Scored(scoreboard', (k - 1) + 1, n)  BY <3>1, <1>9
    <3>4. /\ Lower(Rank(scoreboard', r, c, n), Rank(scoreboard', r, k, n))
                => FirstBest(scoreboard', r, k, k, n)
          /\ ~Lower(Rank(scoreboard', r, c, n), Rank(scoreboard', r, k, n))
                => FirstBest(scoreboard', r, c, k, n)
      <4> DEFINE j == k - 1
      <4>1. j \in Nat /\ j + 1 = k /\ FirstBest(scoreboard', r, c, j, n) /\ Scored(scoreboard', j + 1, n)
        BY <3>1, <3>2, <3>3
      <4> HIDE DEF j
      <4>2. /\ Lower(Rank(scoreboard', r, c, n), Rank(scoreboard', r, j + 1, n))
                  => FirstBest(scoreboard', r, j + 1, j + 1, n)
            /\ ~Lower(Rank(scoreboard', r, c, n), Rank(scoreboard', r, j + 1, n))
                  => FirstBest(scoreboard', r, c, j + 1, n)
        BY <4>1, <1>3, AnotherIsTried
      <4> QED  BY <4>1, <4>2
    <3>5. Scored(scoreboard', c, n)  BY <3>2 DEF FirstBest
    <3>6. Prefers(scoreboard', r, k, c, Train)
            <=> Lower(Rank(scoreboard', r, c, n), Rank(scoreboard', r, k, n))
      <4>1. r = IF r = "total" THEN "total" ELSE "worst"  BY <1>1
      <4>2. Prefers(scoreboard', r, k, c, [i \in 1..n |-> i])
              <=> Lower(Rank(scoreboard', IF r = "total" THEN "total" ELSE "worst", c, n),
                        Rank(scoreboard', IF r = "total" THEN "total" ELSE "worst", k, n))
        BY <1>3, <1>9, <3>5, PrefersIsLower
      <4> QED  BY <4>1, <4>2, <1>6
    <3>7. best = IF Prefers(scoreboard', r, k, c, Train) THEN <<k>> ELSE <<c>>
      <4>1. fitting.best # <<>> /\ fitting.best[1] = c  BY <2>2
      <4> QED  BY <4>1, <2>2 DEF best
    <3> QED  BY <3>4, <3>6, <3>7
  <2>3. LeadHolds  BY DEF WalkInv
  <2> QED  BY <2>1, <2>2, <2>3 DEF LeadHolds, n, k, r
<1>12. LeadHolds'
  <2>1. /\ fitting'.next = k + 1 /\ fitting'.best = best /\ fitting'.rule = r /\ fitting'.split = n
    BY <1>5
  <2>2. k + 1 > 1 /\ (k + 1) - 1 = k  BY <1>3
  <2>3. LeadHolds' <=>
          \/ fitting'.next = 1 /\ fitting'.best = <<>>
          \/ /\ fitting'.next > 1
             /\ \E c : /\ fitting'.best = <<c>>
                       /\ FirstBest(scoreboard', fitting'.rule, c, fitting'.next - 1, fitting'.split)
    BY DEF LeadHolds
  <2> QED  BY <1>11, <2>1, <2>2, <2>3
<1>13. FoldsHold'
  <2>1. fitting'.folds = fitting.folds /\ fitting'.rule = r /\ fitting'.stop = fitting.stop  BY <1>5
  <2>2. ASSUME NEW i \in 1..m  PROVE FoldHolds(fitting.folds[i], i, r, FALSE, scoreboard')
    <3>1. FoldHolds(fitting.folds[i], i, r, fitting.stop /\ i = m /\ fitting.best = <<>>, scoreboard)
      BY DEF WalkInv, FoldsHold, m, r
    <3>2. i \in Nat \ {0}  BY <1>2
    <3>3. (fitting.stop /\ i = m /\ fitting.best = <<>>) => FALSE  BY <1>4
    <3> QED  BY <3>1, <3>2, <3>3, <1>8, FoldGoesOn
  <2>3. ASSUME NEW i \in 1..m, NEW p  PROVE FoldHolds(fitting.folds[i], i, r, p, scoreboard')
    BY <2>2 DEF FoldHolds
  <2> QED  BY <2>1, <2>3 DEF FoldsHold, m
<1> QED  BY <1>10, <1>12, <1>13 DEF WalkInv

(* The fold that is kept is of the sets tried so far.                       *)
LEMMA TestKeepsWalk == WalkInv /\ Test => WalkInv'
<1> SUFFICES ASSUME WalkInv, Test  PROVE WalkInv'
  OBVIOUS
<1> DEFINE n == fitting.split  k == fitting.next  m == Len(fitting.folds)  r == fitting.rule
           c == fitting.best[1]
           f == [train |-> Train, test |-> n + 1, chosen |-> c, tried |-> k - 1,
                 inSample |-> Total(scoreboard', c, Train),
                 outOfSample |-> scoreboard'[<<c, n + 1>>]]
           folds == Append(fitting.folds, f)
<1>1. /\ Fields(fitting) /\ r \in {"worst", "total"} /\ \E S : fitting.folds \in Seq(S)
      /\ n = MinTrain + m /\ k \in 1..(Len(ParameterGrid) + 1)
      /\ \A x \in DOMAIN scoreboard : scoreboard[x] \in Int
  BY DEF WalkInv, WalkTypes
<1>2. m \in Nat /\ Len(ParameterGrid) \in Nat /\ MinTrain \in Nat \ {0}
  <2>1. m \in Nat  BY <1>1
  <2>2. ParameterGrid \in Seq(Seq(Int))  BY GridIsASample DEF Samples
  <2> QED  BY <2>1, <2>2, OfTheSettings
<1>3. n \in Nat \ {0} /\ k \in Nat \ {0}  BY <1>1, <1>2
<1>4. /\ k > Len(ParameterGrid) \/ fitting.stop
      /\ fitting.best # <<>> /\ Replays(c, {n + 1})
      /\ fitting' = [fitting EXCEPT !.folds = folds, !.split = n + 1, !.next = 1, !.best = <<>>]
  BY DEF Test
<1>5. fitting' = [split |-> n + 1, next |-> 1, best |-> <<>>, folds |-> folds,
                  rule |-> r, stop |-> fitting.stop, over |-> fitting.over]
  BY <1>1, <1>4 DEF Fields
<1>6. k > 1 /\ FirstBest(scoreboard, r, c, k - 1, n)
  <2>1. PICK d : fitting.best = <<d>> /\ FirstBest(scoreboard, r, d, k - 1, n) /\ k > 1
    BY <1>4 DEF WalkInv, LeadHolds
  <2> QED  BY <2>1
<1>7. Train = [i \in 1..n |-> i]  BY DEF Train
<1>8. Len(folds) = m + 1 /\ folds[m + 1] = f /\ (\A i \in 1..m : folds[i] = fitting.folds[i])
      /\ \E S : folds \in Seq(S)
  <2>1. PICK S : fitting.folds \in Seq(S)  BY <1>1
  <2>2. fitting.folds \in Seq(S \cup {f})
    <3> DEFINE T == S \cup {f}
    <3>1. \A i \in 1..m : fitting.folds[i] \in T  BY <2>1
    <3>2. fitting.folds = [i \in 1..m |-> fitting.folds[i]] /\ m \in Nat  BY <2>1
    <3> HIDE DEF T, m
    <3>3. fitting.folds \in [1..m -> T]  BY <3>1, <3>2
    <3>4. fitting.folds \in Seq(T)  BY <3>2, <3>3, SeqDef
    <3> QED  BY <3>4 DEF T
  <2> HIDE DEF f
  <2>3. folds \in Seq(S \cup {f})  BY <2>2
  <2>4. Len(folds) = m + 1 /\ folds[m + 1] = f /\ \A i \in 1..m : folds[i] = fitting.folds[i]
    BY <2>2
  <2> QED  BY <2>3, <2>4
<1>9. f.test = n + 1 /\ f.chosen = c /\ f.tried = k - 1 /\ f.inSample = Total(scoreboard', c, Train)
      /\ f.outOfSample = scoreboard'[<<c, n + 1>>]
  OBVIOUS
<1> HIDE DEF n, k, m, r, c, f, folds
<1>10. /\ Grown(scoreboard, scoreboard') /\ \A x \in DOMAIN scoreboard' : scoreboard'[x] \in Int
       /\ <<c, n + 1>> \in DOMAIN scoreboard'
  BY <1>1, <1>4, ReplaysGrow
<1>11. FirstBest(scoreboard', r, c, k - 1, n)  BY <1>3, <1>6, <1>10, GrownSaysTheSame
<1>12. FoldHolds(f, m + 1, r, fitting.stop, scoreboard')
  <2>1. f.test = MinTrain + (m + 1) /\ f.test - 1 = n  BY <1>1, <1>2, <1>9
  <2>2. f.tried \in Nat  BY <1>3, <1>9
  <2>3. f.inSample \in Int
    <3>1. Scored(scoreboard', c, n)  BY <1>11 DEF FirstBest
    <3>2. Summed(Gained(scoreboard', c, n)) \in Int  BY <1>3, <3>1, GainsAreWhole
    <3>3. Scores(scoreboard', c, Train) = Gained(scoreboard', c, n)  BY <1>7 DEF Scores, Gained
    <3> QED  BY <1>9, <3>2, <3>3 DEF Total
  <2>4. f.outOfSample \in Int  BY <1>9, <1>10
  <2>5. f.tried = Len(ParameterGrid) \/ fitting.stop  BY <1>1, <1>2, <1>3, <1>4, <1>9
  <2> QED  BY <1>9, <1>11, <2>1, <2>2, <2>3, <2>4, <2>5 DEF FoldHolds
<1>13. WalkTypes'
  <2>1. 1 \in 1..(Len(ParameterGrid) + 1) /\ n + 1 = MinTrain + (m + 1)  BY <1>1, <1>2
  <2> QED  BY <2>1, <1>1, <1>5, <1>8, <1>10 DEF WalkTypes, Fields
<1>14. LeadHolds'
  <2>1. fitting'.next = 1 /\ fitting'.best = <<>>  BY <1>5
  <2> QED  BY <2>1 DEF LeadHolds
<1>15. FoldsHold'
  <2>1. /\ fitting'.folds = folds /\ fitting'.rule = r /\ fitting'.stop = fitting.stop
        /\ fitting'.best = <<>> /\ Len(fitting'.folds) = m + 1
    BY <1>5, <1>8
  <2>2. ASSUME NEW i \in 1..(m + 1)
        PROVE  FoldHolds(folds[i], i, r, fitting.stop /\ i = m + 1, scoreboard')
    <3>1. CASE i = m + 1
      <4>1. FoldHolds(f, m + 1, r, fitting.stop /\ m + 1 = m + 1, scoreboard')
        BY <1>12 DEF FoldHolds
      <4> QED  BY <3>1, <4>1, <1>8
    <3>2. CASE i \in 1..m
      <4>1. FoldHolds(fitting.folds[i], i, r, fitting.stop /\ i = m /\ fitting.best = <<>>, scoreboard)
        BY <3>2 DEF WalkInv, FoldsHold, m, r
      <4>2. i \in Nat \ {0}  BY <1>2
      <4>3. (fitting.stop /\ i = m /\ fitting.best = <<>>) => (fitting.stop /\ i = m + 1)  BY <1>4
      <4>4. FoldHolds(fitting.folds[i], i, r, fitting.stop /\ i = m + 1, scoreboard')
        BY <4>1, <4>2, <4>3, <1>10, FoldGoesOn
      <4> QED  BY <4>4, <3>2, <1>8
    <3> QED  BY <3>1, <3>2, <1>2
  <2> QED  BY <2>1, <2>2 DEF FoldsHold
<1> QED  BY <1>13, <1>14, <1>15 DEF WalkInv

(* The other rule is chosen before there is a fold; a stop stays.           *)
LEMMA OthersKeepWalk == WalkInv /\ (ChooseRule \/ WalkEnds \/ StopWalk) => WalkInv'
<1> SUFFICES ASSUME WalkInv, ChooseRule \/ WalkEnds \/ StopWalk  PROVE WalkInv'
  OBVIOUS
<1> DEFINE w == fitting'
<1>1. /\ Fields(fitting) /\ fitting.rule \in {"worst", "total"} /\ \E S : fitting.folds \in Seq(S)
      /\ fitting.split = MinTrain + Len(fitting.folds) /\ fitting.next \in 1..(Len(ParameterGrid) + 1)
      /\ \A x \in DOMAIN scoreboard : scoreboard[x] \in Int
  BY DEF WalkInv, WalkTypes
<1>2. Len(fitting.folds) \in Nat /\ MinTrain \in Nat  BY <1>1, OfTheSettings
<1>3. scoreboard' = scoreboard  BY DEF ChooseRule, WalkEnds, StopWalk
<1>4. /\ Fields(w) /\ w.split = fitting.split /\ w.next = fitting.next /\ w.best = fitting.best
      /\ w.folds = fitting.folds /\ w.rule \in {"worst", "total"} /\ (fitting.stop => w.stop)
      /\ \/ w.rule = fitting.rule
         \/ fitting.split = MinTrain /\ fitting.next = 1
  <2>1. CASE ChooseRule
    <3>1. fitting' = [split |-> fitting.split, next |-> fitting.next, best |-> fitting.best,
                      folds |-> fitting.folds, rule |-> "total", stop |-> fitting.stop, over |-> fitting.over]
          /\ fitting.split = MinTrain /\ fitting.next = 1
      BY <1>1, <2>1 DEF ChooseRule, Fields
    <3> QED  BY <3>1 DEF Fields
  <2>2. CASE WalkEnds
    <3>1. fitting' = [split |-> fitting.split, next |-> fitting.next, best |-> fitting.best,
                      folds |-> fitting.folds, rule |-> fitting.rule, stop |-> fitting.stop, over |-> TRUE]
      BY <1>1, <2>2 DEF WalkEnds, Fields
    <3> QED  BY <3>1, <1>1 DEF Fields
  <2>3. CASE StopWalk
    <3>1. fitting' = [split |-> fitting.split, next |-> fitting.next, best |-> fitting.best,
                      folds |-> fitting.folds, rule |-> fitting.rule, stop |-> TRUE, over |-> fitting.over]
      BY <1>1, <2>3 DEF StopWalk, Fields
    <3> QED  BY <3>1, <1>1 DEF Fields
  <2> QED  BY <2>1, <2>2, <2>3
<1>5. WalkTypes'  BY <1>1, <1>3, <1>4 DEF WalkTypes
<1>6. LeadHolds'
  <2>1. LeadHolds  BY DEF WalkInv
  <2>2. CASE fitting.next = 1 /\ fitting.best = <<>>  BY <2>2, <1>4 DEF LeadHolds
  <2>3. CASE fitting.next > 1
    <3>1. w.rule = fitting.rule  BY <2>3, <1>4
    <3> QED  BY <2>1, <2>3, <3>1, <1>3, <1>4 DEF LeadHolds
  <2> QED  BY <2>1, <2>2, <2>3 DEF LeadHolds
<1>7. FoldsHold'
  <2>1. CASE w.rule = fitting.rule
    <3>1. ASSUME NEW i \in 1..Len(fitting.folds)
          PROVE  FoldHolds(w.folds[i], i, w.rule, w.stop /\ i = Len(w.folds) /\ w.best = <<>>, scoreboard')
      <4>1. FoldHolds(fitting.folds[i], i, fitting.rule,
                      fitting.stop /\ i = Len(fitting.folds) /\ fitting.best = <<>>, scoreboard)
        BY DEF WalkInv, FoldsHold
      <4>2. i \in Nat \ {0} /\ Grown(scoreboard, scoreboard)  BY <1>2 DEF Grown
      <4>3. (fitting.stop /\ i = Len(fitting.folds) /\ fitting.best = <<>>)
              => (w.stop /\ i = Len(w.folds) /\ w.best = <<>>)
        BY <1>4
      <4>4. FoldHolds(fitting.folds[i], i, fitting.rule, w.stop /\ i = Len(w.folds) /\ w.best = <<>>, scoreboard)
        BY <4>1, <4>2, <4>3, FoldGoesOn
      <4> QED  BY <4>4, <2>1, <1>3, <1>4
    <3> QED  BY <3>1, <1>4 DEF FoldsHold
  <2>2. CASE fitting.split = MinTrain
    <3>1. Len(w.folds) = 0  BY <2>2, <1>1, <1>2, <1>4
    <3> QED  BY <3>1 DEF FoldsHold
  <2> QED  BY <2>1, <2>2, <1>4
<1> QED  BY <1>5, <1>6, <1>7 DEF WalkInv

LEMMA WalkGoesOn == WalkInv /\ (ValidationStep \/ UNCHANGED validation) => WalkInv'
<1>1. WalkInv /\ UNCHANGED validation => WalkInv'
  BY DEF validation, WalkInv, WalkTypes, LeadHolds, FoldsHold
<1> QED  BY <1>1, FitKeepsWalk, TestKeepsWalk, OthersKeepWalk DEF ValidationStep

(* What the invariant says of a fold.  The keys that are compared are the   *)
(* ranks.                                                                   *)
LEMMA FoldIsUnseen ==
  ASSUME WalkInv, NEW i \in DOMAIN fitting.folds
  PROVE  LET f == fitting.folds[i]
             seen == 1..(f.test - 1)
             score(p) == {scoreboard[<<p, r>>] : r \in seen}
             floor(p) == CHOOSE x \in score(p) : \A y \in score(p) : x <= y
             sum(p) == Summed([r \in seen |-> scoreboard[<<p, r>>]])
             key(p) == IF fitting.rule = "worst" THEN <<floor(p), sum(p)>> ELSE <<sum(p), floor(p)>>
             less(x, y) == x[1] < y[1] \/ (x[1] = y[1] /\ x[2] < y[2])
         IN  /\ f.test = MinTrain + i
             /\ f.tried = Len(ParameterGrid) \/ (fitting.stop /\ i = Len(fitting.folds))
             /\ \A p \in 1..f.tried :
                  ~less(key(f.chosen), key(p)) /\ (p < f.chosen => less(key(p), key(f.chosen)))
<1> DEFINE f == fitting.folds[i]
           seen == 1..(f.test - 1)
           score(p) == {scoreboard[<<p, r>>] : r \in seen}
           floor(p) == CHOOSE x \in score(p) : \A y \in score(p) : x <= y
           sum(p) == Summed([r \in seen |-> scoreboard[<<p, r>>]])
           key(p) == IF fitting.rule = "worst" THEN <<floor(p), sum(p)>> ELSE <<sum(p), floor(p)>>
           less(x, y) == x[1] < y[1] \/ (x[1] = y[1] /\ x[2] < y[2])
           n == f.test - 1
<1>1. DOMAIN fitting.folds = 1..Len(fitting.folds)
  <2>1. PICK S : fitting.folds \in Seq(S)  BY DEF WalkInv, WalkTypes
  <2> QED  BY <2>1
<1>2. FoldHolds(f, i, fitting.rule, fitting.stop /\ i = Len(fitting.folds) /\ fitting.best = <<>>, scoreboard)
  BY <1>1 DEF WalkInv, FoldsHold
<1> HIDE DEF f
<1>3. f.test = MinTrain + i /\ (f.tried = Len(ParameterGrid) \/ (fitting.stop /\ i = Len(fitting.folds)))
  BY <1>2 DEF FoldHolds
<1>4. FirstBest(scoreboard, fitting.rule, f.chosen, f.tried, n)  BY <1>2 DEF FoldHolds
<1>5. \A p : key(p) = Rank(scoreboard, fitting.rule, p, n)
  <2> SUFFICES ASSUME NEW p  PROVE key(p) = Rank(scoreboard, fitting.rule, p, n)
    OBVIOUS
  <2>1. score(p) = Range(Gained(scoreboard, p, n))  BY DEF Range, Gained
  <2> HIDE DEF score
  <2>2. floor(p) = Min(Range(Gained(scoreboard, p, n)))  BY <2>1, Zenon DEF Min
  <2>3. sum(p) = Summed(Gained(scoreboard, p, n))  BY DEF Gained
  <2> HIDE DEF floor, sum
  <2> QED  BY <2>2, <2>3 DEF Rank
<1> HIDE DEF key, n
<1>6. ASSUME NEW p \in 1..f.tried
      PROVE  ~less(key(f.chosen), key(p)) /\ (p < f.chosen => less(key(p), key(f.chosen)))
  <2>1. /\ ~Lower(Rank(scoreboard, fitting.rule, f.chosen, n), Rank(scoreboard, fitting.rule, p, n))
        /\ p < f.chosen => Lower(Rank(scoreboard, fitting.rule, p, n), Rank(scoreboard, fitting.rule, f.chosen, n))
    BY <1>4 DEF FirstBest
  <2>2. ~Lower(key(f.chosen), key(p)) /\ (p < f.chosen => Lower(key(p), key(f.chosen)))
    BY <2>1, <1>5
  <2> QED  BY <2>2 DEF Lower
<1> QED  BY <1>3, <1>6 DEF f, key

(* A sum out of sample that is no less than three tenths of one that is     *)
(* above zero is above zero itself.                                         *)
LEMMA SumsAreWhole ==
  ASSUME WalkInv  PROVE InSample \in Int /\ OutOfSample \in Int
<1> DEFINE m == Len(fitting.folds)
           inside == [i \in DOMAIN fitting.folds |-> fitting.folds[i].inSample]
           outside == [i \in DOMAIN fitting.folds |-> fitting.folds[i].outOfSample]
<1>1. DOMAIN fitting.folds = 1..m /\ m \in Nat
  <2>1. PICK S : fitting.folds \in Seq(S)  BY DEF WalkInv, WalkTypes
  <2> QED  BY <2>1
<1>2. \A i \in 1..m : fitting.folds[i].inSample \in Int /\ fitting.folds[i].outOfSample \in Int
  BY DEF WalkInv, FoldsHold, FoldHolds
<1> HIDE DEF m
<1>3. inside \in [1..m -> Int] /\ outside \in [1..m -> Int]  BY <1>1, <1>2
<1>4. InSample = Summed(inside) /\ OutOfSample = Summed(outside)  BY DEF InSample, OutOfSample
<1> HIDE DEF inside, outside
<1> QED  BY <1>1, <1>3, <1>4, SumIsWhole

LEMMA TenthsArePositive ==
  ASSUME NEW x \in Int, NEW y \in Int, ~(x <= 0), ~(10 * y < 3 * x)  PROVE y > 0
OBVIOUS

LEMMA VerdictSays == Verdict = "worth continuing" => ~(InSample <= 0) /\ ~(10 * OutOfSample < 3 * InSample)
BY Zenon DEF Verdict

LEMMA ContinuingMadeMoney == WalkInv => (Verdict = "worth continuing" => OutOfSample > 0)
BY SumsAreWhole, TenthsArePositive, VerdictSays, Zenon

(* A fold of the walk-forward is tested on the recording after those it was *)
(* fitted on, with the first of the parameter sets that no other of those   *)
(* tried beats on these alone; only the last may have tried a part of the   *)
(* grid; and what the scripts call worth continuing made money on           *)
(* recordings it was not fitted on (validation.py:235).                     *)
THEOREM FoldsStayUnseen == Spec => []FoldsAreUnseen
<1>1. Init => WalkInv  BY WalkBegins DEF Init
<1>2. WalkInv /\ [Next]_vars => WalkInv'
  <2> SUFFICES ASSUME WalkInv, [Next]_vars  PROVE WalkInv'
    OBVIOUS
  <2>1. CASE UNCHANGED vars
    <3>1. UNCHANGED validation  BY <2>1 DEF vars
    <3> QED  BY <3>1, WalkGoesOn
  <2>2. CASE Next
    <3>1. ValidationStep \/ UNCHANGED validation  BY <2>2, Zenon DEF Next, Still
    <3> QED  BY <3>1, WalkGoesOn
  <2> QED  BY <2>1, <2>2
<1>3. WalkInv => FoldsAreUnseen
  BY FoldIsUnseen, ContinuingMadeMoney, Zenon DEF FoldsAreUnseen
<1> QED  BY <1>1, <1>2, <1>3, PTL DEF Spec

-----------------------------------------------------------------------------
(* The trials are as many as allowed, spread over the whole grid from its   *)
(* first to its last valid combination, none twice; and a fold of the       *)
(* walk-forward is tested on the recording after those it was fitted on,    *)
(* with the first of the sets tried that is best on these alone, and what   *)
(* is called worth continuing made money out of sample                      *)
(* (optimization.py:357, validation.py:235).                                *)
THEOREM SearchStaysSpread == Spec => []SearchIsSpread
<1>1. TrialsAreSpread /\ FoldsAreUnseen => SearchIsSpread  BY DEF SearchIsSpread
<1> QED  BY <1>1, TrialsStaySpread, FoldsStayUnseen, PTL
==============================================================================
