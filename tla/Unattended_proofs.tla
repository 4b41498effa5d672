-------------------------- MODULE Unattended_proofs --------------------------
(***************************************************************************)
(* What the unattended programs keep for any markets, sizes, failures and  *)
(* timing: recordings are kept, halts are final, and an exit turns the     *)
(* position it closes the other way round by no more than its races allow. *)
(***************************************************************************)
EXTENDS Unattended, FiniteSetTheorems, TLAPS

-----------------------------------------------------------------------------
(* The collector and its recorder.                                         *)

RecordingTypes ==
  /\ options \in [websocket : BOOLEAN, bucket : BOOLEAN, keepLocal : BOOLEAN]
  /\ cPc \in {"select", "record", "keep", "remove", "ended"}
  /\ rPc \in {"subscribe", "record", "closing", "finalized", "over"}
  /\ failed \in BOOLEAN /\ killed \in BOOLEAN /\ written \in Nat
  /\ file \in [exists : BOOLEAN, lines : Nat, manifest : Nat \cup {None, Open}]

(* Where the manifest and the lines are, at each stage of the recorder.    *)
FileOK ==
  /\ file.lines <= written
  /\ rPc # "over" => file.exists /\ cPc = "record" /\ ~killed
  /\ rPc \in {"subscribe", "record", "closing"} => file.manifest \in {None, Open}
  /\ rPc = "record" => file.manifest = Open
  /\ rPc = "finalized" => file.manifest \in {None, Open, written}
  /\ FinalCountIsTrue

(* A recorder that did not fail has a manifest, and leaves a whole file.   *)
WholeOK ==
  /\ rPc \in {"closing", "finalized"} /\ ~failed => file.manifest # None
  /\ cPc \in {"record", "keep", "remove"} /\ rPc = "over" /\ ~failed =>
       file.lines = written /\ file.exists /\ file.manifest # None
  /\ rPc \in {"subscribe", "record"} => ~failed
  /\ cPc \in {"keep", "remove"} => ~failed
  /\ cPc = "remove" /\ file.lines >= Thin /\ options.bucket => uploaded.file = file

RecordingInv == RecordingTypes /\ FileOK /\ WholeOK /\ UploadedIsWhole /\ ~lost

LEMMA RecordingBegins ==
  ASSUME RecordingInit
  PROVE  RecordingInv
<1>1. /\ file.lines = 0 /\ file.manifest = -2
      /\ file \in [exists : BOOLEAN, lines : Nat, manifest : Nat \cup {None, Open}]
  BY DEF RecordingInit, NoFile, None, Open
<1>2. UploadedIsWhole
  BY DEF RecordingInit, NoUpload, UploadedIsWhole, None, Open
<1>3. RecordingTypes
  BY <1>1 DEF RecordingInit, RecordingTypes
<1>4. FileOK
  BY <1>1 DEF RecordingInit, FileOK, FinalCountIsTrue
<1>5. WholeOK /\ ~lost
  BY DEF RecordingInit, WholeOK
<1> QED
  BY <1>2, <1>3, <1>4, <1>5 DEF RecordingInv

LEMMA RecorderKeeps ==
  ASSUME RecordingInv, Recorder \/ Kill, UNCHANGED collector
  PROVE  RecordingInv'
<1> USE RecordingAssumption
    DEF RecordingInv, RecordingTypes, FileOK, WholeOK, UploadedIsWhole, FinalCountIsTrue,
        collector, None, Open
<1>1. CASE Subscribed  BY <1>1 DEF Subscribed
<1>2. CASE Receive
  <2>1. PICK n \in Nat : n <= written + 1 /\ file' = [file EXCEPT !.lines = n]
    <3>1. file.lines \in Nat /\ (file.lines <= written) /\ written' = written + 1
      BY <1>2 DEF Receive, Receiving
    <3>2. file' = [file EXCEPT !.lines = IF written' % FlushEvery = 0 THEN written' ELSE file.lines]
      BY <1>2 DEF Receive
    <3>3. (IF written' % FlushEvery = 0 THEN written' ELSE file.lines) \in 0..(written + 1)
      BY <3>1
    <3> QED  BY <3>2, <3>3
  <2> QED  BY <1>2, <2>1 DEF Receive, Receiving
<1>3. CASE StopRecording
  <2>1. failed' \in BOOLEAN /\ (~failed' => rPc = "record" /\ ~failed)
    BY <1>3 DEF StopRecording
  <2> QED  BY <1>3, <2>1 DEF StopRecording
<1>4. CASE CloseRaises  BY <1>4 DEF CloseRaises
<1>5. CASE Finalize  BY <1>5 DEF Finalize
<1>6. CASE Close  BY <1>6 DEF Close
<1>7. CASE Kill
  <2>1. PICK n \in file.lines..written : file' = [file EXCEPT !.lines = n]
    BY <1>7 DEF Kill
  <2> QED  BY <1>7, <2>1 DEF Kill
<1> QED  BY <1>1, <1>2, <1>3, <1>4, <1>5, <1>6, <1>7 DEF Recorder

LEMMA CollectorKeeps ==
  ASSUME RecordingInv, Collector
  PROVE  RecordingInv'
<1> USE RecordingAssumption
    DEF RecordingInv, RecordingTypes, FileOK, WholeOK, UploadedIsWhole, FinalCountIsTrue,
        recorder, None, Open, NextCycle
<1>1. CASE Cycle
  <2>1. cPc = "select" /\ rPc = "over" /\ UNCHANGED <<options, lost>>
    BY <1>1 DEF Cycle
  <2>2. UploadedIsWhole'
    BY <1>1 DEF Cycle, NoUpload
  <2>3. CASE UNCHANGED recorder /\ cPc' \in {"select", "ended"}
    BY <2>1, <2>2, <2>3
  <2>4. CASE /\ cPc' = "record" /\ rPc' = "subscribe" /\ failed' = FALSE /\ killed' = FALSE
             /\ written' = 0 /\ file' = [NoFile EXCEPT !.exists = TRUE]
    <3>1. /\ file' = [exists |-> TRUE, lines |-> 0, manifest |-> -2]
      BY <2>4 DEF NoFile
    <3>2. /\ file' \in [exists : BOOLEAN, lines : Nat, manifest : Nat \cup {None, Open}]
          /\ file'.exists /\ file'.lines = 0 /\ file'.manifest = None
      BY <3>1
    <3>3. RecordingTypes'
      BY <2>1, <2>4, <3>2
    <3>4. FileOK' /\ WholeOK'
      BY <2>1, <2>4, <3>2
    <3> QED  BY <2>1, <2>2, <3>3, <3>4
  <2> QED  BY <1>1, <2>3, <2>4 DEF Cycle
<1>2. CASE Recorded  BY <1>2 DEF Recorded, RecorderFailed
<1>3. CASE Keep  BY <1>3 DEF Keep, UploadFailed
<1>4. CASE Remove
  <2>1. cPc = "remove" /\ cPc' = "select" /\ rPc = "over" /\ lost' = FALSE
    BY <1>4 DEF Remove
  <2>2. UNCHANGED <<options, cycles, uploaded, rPc, failed, killed, written>>
    BY <1>4 DEF Remove
  <2>3. CASE file' = file
    BY <2>1, <2>2, <2>3
  <2>4. CASE file' = [exists |-> FALSE, lines |-> 0, manifest |-> -2]
    <3>1. /\ file' \in [exists : BOOLEAN, lines : Nat, manifest : Nat \cup {None, Open}]
          /\ file'.lines = 0 /\ file'.manifest = None
      BY <2>4
    <3>2. RecordingTypes'
      BY <2>1, <2>2, <3>1
    <3>3. FileOK' /\ WholeOK'
      BY <2>1, <2>2, <3>1
    <3> QED  BY <2>1, <2>2, <3>2, <3>3
  <2> QED  BY <1>4, <2>3, <2>4 DEF Remove, NoFile
<1> QED  BY <1>1, <1>2, <1>3, <1>4 DEF Collector

LEMMA RecordingKeeps ==
  ASSUME RecordingInv, [Next]_vars
  PROVE  RecordingInv'
<1>1. CASE UNCHANGED recording
  BY <1>1 DEF recording, recorder, collector, RecordingInv, RecordingTypes, FileOK, WholeOK,
              UploadedIsWhole, FinalCountIsTrue
<1>2. CASE RecordingStep
  BY <1>2, RecorderKeeps, CollectorKeeps DEF RecordingStep
<1> QED
  BY <1>1, <1>2 DEF Next, vars

(* Whatever fails, is killed or refused, no events worth keeping are       *)
(* removed before they are in the bucket, a finalized manifest counts what *)
(* is in the file, and the bucket holds whole recordings only.             *)
THEOREM RecordingsKept == Spec => []RecordingsAreKept
<1>1. Init => RecordingInv
  BY RecordingBegins DEF Init
<1>2. RecordingInv => RecordingsAreKept
  BY DEF RecordingInv, RecordingsAreKept, FileOK
<1> QED
  BY <1>1, <1>2, RecordingKeeps, PTL DEF Spec

-----------------------------------------------------------------------------
(* The halts of the monitor and of the runner.                             *)

(* A check without a halt measured all it had to, once the grace is over;  *)
(* the time it goes by is no earlier than the age of the script.           *)
MonitorInv ==
  /\ age \in Nat /\ elapsed \in Nat /\ age <= elapsed
  /\ args \in [watch : BOOLEAN, quotes : {0, 1, 40}, floor : BOOLEAN, cap : BOOLEAN]
  /\ MonitorHaltIsFinal /\ MeasuredOrHalted

LEMMA MeasuredIfSound ==
  ASSUME NEW s \in Samples, ~ShouldHalt(s), elapsed \in Nat, elapsed >= Grace,
         args \in [watch : BOOLEAN, quotes : {0, 1, 40}, floor : BOOLEAN, cap : BOOLEAN]
  PROVE  /\ s.blind = 0 /\ s.makers >= MinMakerFills
         /\ s.takers > 0 /\ s.takerFee > 0
         /\ s.scored >= MinScored /\ args.quotes > 0
<1>1. /\ s.makers \in Nat /\ s.blind \in Nat /\ s.takers \in Nat /\ s.takerFee \in Int
      /\ s.scored \in Nat /\ MinMakerFills \in Nat /\ MinScored \in Nat
  BY CampaignAssumption
<1>2. PendingOrUnknown = "unknown"
  BY CampaignAssumption DEF PendingOrUnknown
<1>3. /\ MakerFee(s) # "unknown" /\ FeeReaderControl(s) # "unknown"
      /\ Markout(s) # "unknown" /\ FillRate(s) # "unknown"
  BY DEF ShouldHalt, Readings
<1>4. s.blind = 0 /\ s.makers >= MinMakerFills
  BY <1>1, <1>2, <1>3 DEF MakerFee
<1>5. s.takers > 0 /\ s.takerFee > 0
  BY <1>1, <1>2, <1>3 DEF FeeReaderControl
<1>6. s.scored >= MinScored
  BY <1>1, <1>2, <1>3 DEF Markout
<1>7. args.quotes > 0
  BY <1>2, <1>3 DEF FillRate
<1> QED
  BY <1>4, <1>5, <1>6, <1>7

LEMMA MonitorKeeps ==
  ASSUME MonitorInv, [Next]_vars
  PROVE  MonitorInv'
<1> USE DEF MonitorInv, MonitorHaltIsFinal
<1>1. CASE UNCHANGED watching
  BY <1>1 DEF watching, MeasuredOrHalted
<1>2. CASE Check
  <2>1. UNCHANGED <<args, age, elapsed>> /\ mPc = "check" /\ ~latched
    BY <1>2 DEF Check
  <2>2. latched' => mPc' = "exited" /\ code' = "halt"
    BY <1>2, <2>1 DEF Check, Unreachable
  <2>3. code' = "ok" => sample' \in Samples /\ ~ShouldHalt(sample')
    BY <1>2 DEF Check, Unreachable
  <2>4. MeasuredOrHalted'
    <3> SUFFICES ASSUME code' = "ok", age >= Grace
                 PROVE  /\ sample'.blind = 0 /\ sample'.makers >= MinMakerFills
                        /\ sample'.takers > 0 /\ sample'.takerFee > 0
                        /\ sample'.scored >= MinScored /\ args.quotes > 0
      BY <2>1 DEF MeasuredOrHalted
    <3>1. elapsed >= Grace
      BY CampaignAssumption
    <3> QED
      BY <2>3, <3>1, MeasuredIfSound
  <2> QED
    BY <2>1, <2>2, <2>4
<1>3. CASE Sleep
  BY <1>3 DEF Sleep, Elapsed, MeasuredOrHalted
<1> QED
  BY <1>1, <1>2, <1>3 DEF Next, vars, MonitorStep

(* A runner that was stopped for good has exited for a reason that its     *)
(* supervisor does not start it again for.                                 *)
HaltInv ==
  /\ halted \in BOOLEAN
  /\ halted => sPc = "exited" /\ reason \in Final

LEMMA HaltKeeps ==
  ASSUME HaltInv, [Next]_vars
  PROVE  HaltInv'
<1> USE DEF HaltInv
<1>1. CASE UNCHANGED session
  BY <1>1 DEF session
<1>2. CASE Runner
  <2>1. (\E why : Stop(why)) \/ (\E there : Go(there))
    BY <1>2 DEF Runner, StartBalance, LoopTop, SleepOn, Child, Positions, NextTicker, Remaining,
                CancelExit, Cross, After, Fail
  <2>2. sPc # "exited"
    BY <1>2 DEF Runner, StartBalance, LoopTop, SleepOn, Child, Positions, NextTicker,
                Remaining, CancelExit, Cross, After
  <2>3. ASSUME NEW why, Stop(why) PROVE HaltInv'
    <3>1. /\ sPc' = "exited" /\ reason' = why
          /\ halted' = (halted \/ why \in Final)
      BY <2>3 DEF Stop
    <3>2. halted = FALSE
      BY <2>2
    <3> QED  BY <3>1, <3>2
  <2>4. ASSUME NEW there, Go(there) PROVE HaltInv'
    BY <2>2, <2>4 DEF Go
  <2> QED  BY <2>1, <2>3, <2>4
<1>3. CASE (\E o \in Orders : ExitTrades(o)) \/ Deadline \/ Restart
  BY <1>3 DEF ExitTrades, Deadline, Restart, session
<1> QED
  BY <1>1, <1>2, <1>3 DEF Next, vars, SessionStep

(* After a floor, a permanent stop or a halt nothing runs again, and the   *)
(* monitor calls no premise sound that it has not measured.                *)
THEOREM HaltsFinal == Spec => []HaltsAreFinal
<1>1. Init => MonitorInv /\ HaltInv
  <2> SUFFICES ASSUME MonitorInit, SessionInit PROVE MonitorInv /\ HaltInv
    BY DEF Init
  <2>1. MonitorInv
    BY CampaignAssumption DEF MonitorInit, MonitorInv, MonitorHaltIsFinal, MeasuredOrHalted
  <2>2. HaltInv
    BY DEF SessionInit, HaltInv
  <2> QED  BY <2>1, <2>2
<1>2. MonitorInv /\ HaltInv => HaltsAreFinal
  BY DEF MonitorInv, HaltInv, HaltsAreFinal, SessionHaltIsFinal
<1> QED
  BY <1>1, <1>2, MonitorKeeps, HaltKeeps, PTL DEF Spec

-----------------------------------------------------------------------------
(* The orders at rest of a market.                                         *)

Sides == {-1, 1}

(* n counted from side s: positive when it is on that side.                *)
Ahead(s, n) == IF s = 1 THEN n ELSE -n

At(t, k, d) == resting[Order(t, k, d)]
NoneAt(t) == \A k \in Kinds, d \in Sides : At(t, k, d) = 0
Only(ks) == \A t \in Markets, k \in Kinds \ ks, d \in Sides : At(t, k, d) = 0

ExitKinds == Kinds \ {"tlt-in-"}
Exiting(t, d) == At(t, "rflat-", d) + At(t, "flat-", d) + At(t, "tlt-rest-", d) + At(t, "tlt-flat-", d)

(* A market is held on side s, or flat; its entries are of that side, and  *)
(* its exits close no more than what is held.                              *)
Covered(t, s) ==
  /\ At(t, "tlt-in-", -s) = 0
  /\ \A k \in ExitKinds : At(t, k, s) = 0
  /\ Exiting(t, -s) <= Ahead(s, position[t])
  /\ Ahead(s, held[t]) >= 0

ExitsCovered == \A t \in Markets \ excused : \E s \in Sides : Covered(t, s)

LEMMA TheOrders ==
  ASSUME NEW t \in Markets, NEW k \in Kinds, NEW d \in Sides
  PROVE  /\ Order(t, k, d) \in Orders
         /\ Order(t, k, d).ticker = t /\ Order(t, k, d).kind = k /\ Order(t, k, d).dir = d
BY DEF Order, Orders, Sides

LEMMA OrdersDiffer ==
  ASSUME NEW t, NEW k, NEW d, NEW u, NEW j, NEW e, Order(t, k, d) = Order(u, j, e)
  PROVE  t = u /\ k = j /\ d = e
BY DEF Order

LEMMA OrderIs ==
  ASSUME NEW o \in Orders
  PROVE  /\ o.ticker \in Markets /\ o.kind \in Kinds /\ o.dir \in Sides
         /\ o = Order(o.ticker, o.kind, o.dir)
BY DEF Order, Orders, Sides

LEMMA AtIsNat ==
  ASSUME AccountTypeOK
  PROVE  \A t \in Markets, k \in Kinds, d \in Sides : At(t, k, d) \in Nat
BY TheOrders DEF AccountTypeOK, At

LEMMA Times ==
  ASSUME NEW d \in Sides, NEW n \in Int
  PROVE  d * n = Ahead(d, n)
BY DEF Sides, Ahead

LEMMA AheadOfNone ==
  ASSUME NEW d \in Sides
  PROVE  Ahead(d, 0) = 0
<1>1. d * 0 = 0
  BY DEF Sides
<1> QED
  BY <1>1, Times

LEMMA Opposite ==
  ASSUME NEW s \in Sides
  PROVE  -s \in Sides
BY DEF Sides

LEMMA SignOf ==
  ASSUME NEW n \in Int, n # 0
  PROVE  /\ Sign(n) \in Sides /\ -Sign(n) \in Sides
         /\ Size(n) \in Nat /\ Ahead(Sign(n), n) = Size(n)
         /\ \A s \in Sides : Ahead(s, n) >= 0 => s = Sign(n)
<1>1. CASE n > 0
  <2>1. Sign(n) = 1 /\ Size(n) = n  BY <1>1 DEF Sign, Size
  <2> QED  BY <1>1, <2>1 DEF Sides, Ahead
<1>2. CASE n < 0
  <2>1. Sign(n) = -1 /\ Size(n) = -n  BY <1>2 DEF Sign, Size
  <2>2. -Sign(n) \in Sides
    <3>1. Sign(n) \in Sides  BY <2>1 DEF Sides
    <3> QED  BY <3>1, Opposite
  <2>3. Ahead(Sign(n), n) = -n  BY <2>1 DEF Ahead
  <2>4. \A s \in Sides : Ahead(s, n) >= 0 => s = -1  BY <1>2 DEF Sides, Ahead
  <2> QED  BY <1>2, <2>1, <2>2, <2>3, <2>4 DEF Sides
<1> QED  BY <1>1, <1>2

(* n contracts are added to what rests of an order, and q to the position. *)
Adds(t, k, d, n, q) ==
  /\ position' = [position EXCEPT ![t] = @ + q]
  /\ resting' = [resting EXCEPT ![Order(t, k, d)] = @ + n]

LEMMA AddsAt ==
  ASSUME AccountTypeOK, NEW t \in Markets, NEW k \in Kinds, NEW d \in Sides,
         NEW n \in Int, NEW q \in Int, Adds(t, k, d, n, q)
  PROVE  /\ At(t, k, d)' = At(t, k, d) + n
         /\ \A u \in Markets, j \in Kinds, e \in Sides :
              u # t \/ j # k \/ e # d => At(u, j, e)' = At(u, j, e)
         /\ position'[t] = position[t] + q
         /\ \A u \in Markets : u # t => position'[u] = position[u]
<1>1. \A u \in Markets, j \in Kinds, e \in Sides :
        Order(u, j, e) \in Orders /\ (Order(u, j, e) = Order(t, k, d) => u = t /\ j = k /\ e = d)
  BY TheOrders, OrdersDiffer
<1>2. \A u \in Markets, j \in Kinds, e \in Sides :
        At(u, j, e)' = IF Order(u, j, e) = Order(t, k, d) THEN At(u, j, e) + n ELSE At(u, j, e)
  BY <1>1 DEF Adds, At, AccountTypeOK
<1>3. position \in [Markets -> Int]
  BY DEF AccountTypeOK
<1> QED
  BY <1>1, <1>2, <1>3 DEF Adds

LEMMA TradeAdds ==
  ASSUME AccountTypeOK, NEW t \in Markets, NEW k \in Kinds, NEW d \in Sides,
         FillAtRest(Order(t, k, d))
  PROVE  Adds(t, k, d, -1, d) /\ At(t, k, d) > 0
<1>1. Order(t, k, d).ticker = t /\ Order(t, k, d).dir = d
  BY TheOrders
<1>2. resting[Order(t, k, d)] \in Nat
  BY TheOrders DEF AccountTypeOK
<1>3. /\ resting' = [resting EXCEPT ![Order(t, k, d)] = @ - 1]
      /\ position' = [position EXCEPT ![t] = @ + d]
  BY <1>1 DEF FillAtRest
<1>4. resting[Order(t, k, d)] - 1 = resting[Order(t, k, d)] + (-1)
  BY <1>2
<1> QED
  BY <1>3, <1>4 DEF FillAtRest, Adds, At

LEMMA TakenAdds ==
  ASSUME AccountTypeOK, NEW t \in Markets, NEW k \in Kinds, NEW d \in Sides,
         NEW n \in Nat, NEW done \in 0..n, Taken(Order(t, k, d), n, done)
  PROVE  Adds(t, k, d, n - done, Ahead(d, done))
<1>1. /\ position' = [position EXCEPT ![t] = @ + d * done]
      /\ resting' = [resting EXCEPT ![Order(t, k, d)] = @ + n - done]
  <2>1. Order(t, k, d).ticker = t /\ Order(t, k, d).dir = d
    BY TheOrders
  <2> QED
    BY <2>1, Zenon DEF Taken
<1>2. d * done = Ahead(d, done)
  BY Times
<1>3. resting[Order(t, k, d)] \in Nat
  BY TheOrders DEF AccountTypeOK
<1>4. resting[Order(t, k, d)] + n - done = resting[Order(t, k, d)] + (n - done)
  BY <1>3
<1> QED
  BY <1>1, <1>2, <1>4 DEF Adds

(* A create is refused, or some of it trades at once.                      *)
LEMMA CreateAdds ==
  ASSUME AccountTypeOK, NEW t \in Markets, NEW k \in Kinds, NEW d \in Sides, NEW n \in Nat,
         Crossing(Order(t, k, d), n) \/ PostOnly(Order(t, k, d), n)
  PROVE  UNCHANGED account \/ \E done \in 0..n : Adds(t, k, d, n - done, Ahead(d, done))
<1>1. UNCHANGED account \/ \E done \in 0..n : Taken(Order(t, k, d), n, done)
  BY DEF Crossing, PostOnly
<1> QED
  BY <1>1, TakenAdds

(* The types of the account.                                               *)
LEMMA CreateTypes ==
  ASSUME AccountTypeOK, NEW o \in Orders, NEW n \in Nat, Crossing(o, n) \/ PostOnly(o, n)
  PROVE  /\ position' \in [Markets -> Int] /\ resting' \in [Orders -> Nat]
         /\ placed' \in 0..MaxPlaced
<1>1. CASE UNCHANGED account
  BY <1>1 DEF account, AccountTypeOK
<1>2. ASSUME NEW done \in 0..n, Taken(o, n, done)
      PROVE  /\ position' \in [Markets -> Int] /\ resting' \in [Orders -> Nat]
             /\ placed' \in 0..MaxPlaced
  <2>1. o.ticker \in Markets /\ o.dir * done \in Int
    BY OrderIs, Times DEF Sides
  <2>2. resting[o] \in Nat /\ resting[o] + n - done \in Nat
    BY DEF AccountTypeOK
  <2> QED
    BY <1>2, <2>1, <2>2, AccountAssumption DEF Taken, AccountTypeOK
<1> QED
  BY <1>1, <1>2 DEF Crossing, PostOnly

LEMMA TradeTypes ==
  ASSUME AccountTypeOK, NEW o \in Orders, FillAtRest(o)
  PROVE  /\ position' \in [Markets -> Int] /\ resting' \in [Orders -> Nat]
         /\ placed' \in 0..MaxPlaced
BY OrderIs DEF FillAtRest, AccountTypeOK, Sides

LEMMA CancelTypes ==
  ASSUME AccountTypeOK, NEW os, CancelAll(os) \/ UNCHANGED account
  PROVE  /\ position' \in [Markets -> Int] /\ resting' \in [Orders -> Nat]
         /\ placed' \in 0..MaxPlaced
BY DEF CancelAll, AccountTypeOK, account

-----------------------------------------------------------------------------
(* What keeps a market covered.                                            *)

(* What is covered never was crossed.                                      *)
LEMMA CoveredIsRight ==
  ASSUME AccountTypeOK, NEW t \in Markets, NEW s \in Sides, Covered(t, s)
  PROVE  held[t] * position[t] >= 0 /\ Ahead(s, position[t]) >= 0
<1>1. Exiting(t, -s) >= 0
  <2>1. -s \in Sides /\ {"rflat-", "flat-", "tlt-rest-", "tlt-flat-"} \subseteq Kinds
    BY DEF Sides, Kinds
  <2> QED
    BY <2>1, AtIsNat DEF Exiting
<1>2. Exiting(t, -s) \in Int
  <2>1. -s \in Sides /\ {"rflat-", "flat-", "tlt-rest-", "tlt-flat-"} \subseteq Kinds
    BY DEF Sides, Kinds
  <2> QED
    BY <2>1, AtIsNat DEF Exiting
<1>3. position[t] \in Int /\ held[t] \in Int
  BY DEF AccountTypeOK
<1>4. Ahead(s, position[t]) >= 0 /\ Ahead(s, held[t]) >= 0
  BY <1>1, <1>2, <1>3 DEF Covered, Ahead
<1>5. \A a, b \in Int : (a >= 0 /\ b >= 0) \/ (a <= 0 /\ b <= 0) => a * b >= 0
  OBVIOUS
<1> QED
  BY <1>3, <1>4, <1>5 DEF Ahead

LEMMA CoveredSame ==
  ASSUME NEW t \in Markets, NEW s \in Sides, Covered(t, s),
         \A k \in Kinds, d \in Sides : At(t, k, d)' = At(t, k, d),
         position'[t] = position[t], held'[t] = held[t] \/ held'[t] = 0
  PROVE  Covered(t, s)'
<1>1. -s \in Sides /\ ExitKinds \subseteq Kinds /\ "tlt-in-" \in Kinds
      /\ {"rflat-", "flat-", "tlt-rest-", "tlt-flat-"} \subseteq Kinds
  BY DEF Sides, Kinds, ExitKinds
<1>2. Exiting(t, -s)' = Exiting(t, -s)
  BY <1>1 DEF Exiting
<1>3. Ahead(s, held'[t]) >= 0
  BY DEF Covered, Ahead
<1> QED
  BY <1>1, <1>2, <1>3 DEF Covered

(* With nothing at rest any position is covered, on its side.              *)
LEMMA FlatIsCovered ==
  ASSUME NEW t \in Markets, NoneAt(t)', position'[t] \in Int,
         held'[t] = 0 \/ held'[t] = position'[t]
  PROVE  \E s \in Sides : Covered(t, s)'
<1>0. PICK s \in Sides : Ahead(s, position'[t]) >= 0
  <2>1. 1 \in Sides /\ -1 \in Sides  BY DEF Sides
  <2>2. Ahead(1, position'[t]) >= 0 \/ Ahead(-1, position'[t]) >= 0  BY DEF Ahead
  <2> QED  BY <2>1, <2>2
<1>1. s \in Sides /\ -s \in Sides /\ ExitKinds \subseteq Kinds /\ "tlt-in-" \in Kinds
      /\ {"rflat-", "flat-", "tlt-rest-", "tlt-flat-"} \subseteq Kinds
  <2>1. -s \in Sides
    BY DEF Sides
  <2>2. /\ ExitKinds \subseteq Kinds /\ "tlt-in-" \in Kinds
        /\ {"rflat-", "flat-", "tlt-rest-", "tlt-flat-"} \subseteq Kinds
    BY DEF Kinds, ExitKinds
  <2> QED
    BY <2>1, <2>2
<1>2. Ahead(s, position'[t]) >= 0 /\ Ahead(s, held'[t]) >= 0
  BY <1>0 DEF Ahead
<1>3. Exiting(t, -s)' = 0
  BY <1>1 DEF Exiting, NoneAt
<1>4. Covered(t, s)'
  BY <1>1, <1>2, <1>3 DEF Covered, NoneAt
<1> QED
  BY <1>1, <1>4

(* What is added to an exit of a covered market is no more than what is    *)
(* ahead and not being closed.                                             *)
LEMMA ExitKeepsCovered ==
  ASSUME AccountTypeOK, NEW t \in Markets, NEW s \in Sides, Covered(t, s),
         NEW k \in ExitKinds, NEW n \in Int, NEW q \in Int, Adds(t, k, -s, n, q),
         Exiting(t, -s) + n <= Ahead(s, position[t] + q), UNCHANGED held
  PROVE  Covered(t, s)'
<1>1. /\ -s \in Sides /\ -s # s /\ ExitKinds \subseteq Kinds /\ "tlt-in-" \in Kinds
      /\ k # "tlt-in-" /\ {"rflat-", "flat-", "tlt-rest-", "tlt-flat-"} = ExitKinds
  <2>1. -s \in Sides /\ -s # s
    BY DEF Sides
  <2>2. /\ ExitKinds \subseteq Kinds /\ "tlt-in-" \in Kinds /\ "tlt-in-" \notin ExitKinds
        /\ {"rflat-", "flat-", "tlt-rest-", "tlt-flat-"} = ExitKinds
    BY DEF Kinds, ExitKinds
  <2> QED
    BY <2>1, <2>2
<1>2. /\ At(t, k, -s)' = At(t, k, -s) + n
      /\ \A j \in Kinds, e \in Sides : j # k \/ e # -s => At(t, j, e)' = At(t, j, e)
      /\ position'[t] = position[t] + q
  BY <1>1, AddsAt
<1>3. \A j \in ExitKinds : At(t, j, -s) \in Int
  BY <1>1, AtIsNat
<1>4. \A j \in ExitKinds : At(t, j, -s)' = IF j = k THEN At(t, j, -s) + n ELSE At(t, j, -s)
  BY <1>1, <1>2
<1>5. Exiting(t, -s)' = Exiting(t, -s) + n
  BY <1>1, <1>3, <1>4 DEF Exiting
<1>6. At(t, "tlt-in-", -s)' = 0 /\ \A j \in ExitKinds : At(t, j, s)' = 0
  BY <1>1, <1>2 DEF Covered
<1> QED
  BY <1>2, <1>5, <1>6 DEF Covered

LEMMA EntryKeepsCovered ==
  ASSUME AccountTypeOK, NEW t \in Markets, NEW s \in Sides, Covered(t, s),
         NEW n \in Int, NEW q \in Int, Ahead(s, q) >= 0, Adds(t, "tlt-in-", s, n, q),
         UNCHANGED held
  PROVE  Covered(t, s)'
<1>1. /\ -s \in Sides /\ -s # s /\ ExitKinds \subseteq Kinds /\ "tlt-in-" \in Kinds
      /\ "tlt-in-" \notin ExitKinds /\ {"rflat-", "flat-", "tlt-rest-", "tlt-flat-"} = ExitKinds
  <2>1. -s \in Sides /\ -s # s
    BY DEF Sides
  <2>2. /\ ExitKinds \subseteq Kinds /\ "tlt-in-" \in Kinds /\ "tlt-in-" \notin ExitKinds
        /\ {"rflat-", "flat-", "tlt-rest-", "tlt-flat-"} = ExitKinds
    BY DEF Kinds, ExitKinds
  <2> QED
    BY <2>1, <2>2
<1>2. /\ \A j \in Kinds, e \in Sides : j # "tlt-in-" \/ e # s => At(t, j, e)' = At(t, j, e)
      /\ position'[t] = position[t] + q
  <2>1. ASSUME NEW k \in Kinds, Adds(t, k, s, n, q)
        PROVE  /\ \A j \in Kinds, e \in Sides : j # k \/ e # s => At(t, j, e)' = At(t, j, e)
               /\ position'[t] = position[t] + q
    BY <2>1, AddsAt
  <2> QED  BY <1>1, <2>1
<1>3. Exiting(t, -s)' = Exiting(t, -s)
  <2>1. \A j \in ExitKinds : At(t, j, -s)' = At(t, j, -s)
    BY <1>1, <1>2
  <2>2. /\ At(t, "rflat-", -s)' = At(t, "rflat-", -s) /\ At(t, "flat-", -s)' = At(t, "flat-", -s)
        /\ At(t, "tlt-rest-", -s)' = At(t, "tlt-rest-", -s)
        /\ At(t, "tlt-flat-", -s)' = At(t, "tlt-flat-", -s)
    BY <1>1, <2>1
  <2> QED  BY <2>2 DEF Exiting
<1>4. Exiting(t, -s) \in Int
  <2>1. \A j \in ExitKinds : At(t, j, -s) \in Int
    BY <1>1, AtIsNat
  <2> QED
    BY <1>1, <2>1 DEF Exiting
<1>5. Exiting(t, -s)' <= Ahead(s, position'[t])
  BY <1>2, <1>3, <1>4 DEF Covered, Ahead, AccountTypeOK
<1> QED
  BY <1>1, <1>2, <1>5 DEF Covered

(* An order at rest trades.                                                *)
LEMMA TradeKeepsCovered ==
  ASSUME AccountTypeOK, NEW t \in Markets, NEW k \in Kinds, NEW d \in Sides,
         FillAtRest(Order(t, k, d)), UNCHANGED held,
         NEW u \in Markets, NEW s \in Sides, Covered(u, s)
  PROVE  Covered(u, s)'
<1>1. Adds(t, k, d, -1, d) /\ At(t, k, d) > 0
  BY TradeAdds
<1>2. CASE u # t
  <2>1. /\ \A j \in Kinds, e \in Sides : At(u, j, e)' = At(u, j, e)
        /\ position'[u] = position[u]
    BY <1>1, <1>2, AddsAt DEF Sides
  <2> QED
    BY <2>1, CoveredSame
<1>3. CASE u = t /\ k = "tlt-in-"
  <2>1. d = s
    BY <1>1, <1>3 DEF Covered, Sides
  <2>2. Ahead(s, d) >= 0
    BY <2>1 DEF Ahead, Sides
  <2> QED
    BY <1>1, <1>3, <2>1, <2>2, EntryKeepsCovered DEF Sides
<1>4. CASE u = t /\ k # "tlt-in-"
  <2>1. k \in ExitKinds
    BY <1>4 DEF ExitKinds
  <2>2. d = -s
    BY <1>1, <1>4, <2>1 DEF Covered, Sides
  <2>3. Exiting(t, -s) \in Int
    <3>1. -s \in Sides /\ {"rflat-", "flat-", "tlt-rest-", "tlt-flat-"} \subseteq Kinds
      BY DEF Sides, Kinds
    <3> QED
      BY <3>1, AtIsNat DEF Exiting
  <2>4. Exiting(t, -s) + (-1) <= Ahead(s, position[t] + d)
    BY <1>4, <2>2, <2>3 DEF Covered, Ahead, Sides, AccountTypeOK
  <2> QED
    BY <1>1, <1>4, <2>1, <2>2, <2>4, ExitKeepsCovered DEF Sides
<1> QED
  BY <1>2, <1>3, <1>4

(* Some of an exit of n trades as it arrives, the rest is put to rest.     *)
LEMMA CreateKeepsCovered ==
  ASSUME AccountTypeOK, NEW t \in Markets, NEW s \in Sides, Covered(t, s),
         NEW k \in ExitKinds, NEW n \in Nat, UNCHANGED held,
         Crossing(Order(t, k, -s), n) \/ PostOnly(Order(t, k, -s), n),
         Exiting(t, -s) + n <= Ahead(s, position[t])
  PROVE  Covered(t, s)'
<1>1. -s \in Sides /\ k \in Kinds
  BY DEF Sides, ExitKinds
<1>2. CASE UNCHANGED account
  BY <1>2, CoveredSame DEF account, At
<1>3. ASSUME NEW done \in 0..n, Adds(t, k, -s, n - done, Ahead(-s, done))
      PROVE  Covered(t, s)'
  <2>1. Exiting(t, -s) \in Int
    <3>1. {"rflat-", "flat-", "tlt-rest-", "tlt-flat-"} \subseteq Kinds
      BY DEF Kinds
    <3> QED
      BY <1>1, <3>1, AtIsNat DEF Exiting
  <2>2. Exiting(t, -s) + (n - done) <= Ahead(s, position[t] + Ahead(-s, done))
    BY <2>1 DEF Ahead, Sides, AccountTypeOK
  <2>3. Ahead(-s, done) \in Int
    BY DEF Ahead
  <2> QED
    BY <1>3, <2>2, <2>3, ExitKeepsCovered
<1> QED
  BY <1>1, <1>2, <1>3, CreateAdds

(* Canceling lessens what closes.                                          *)
LEMMA CancelKeepsCovered ==
  ASSUME AccountTypeOK, NEW os, CancelAll(os) \/ UNCHANGED account, UNCHANGED held,
         NEW u \in Markets, NEW s \in Sides, Covered(u, s)
  PROVE  Covered(u, s)'
<1>1. -s \in Sides /\ ExitKinds \subseteq Kinds /\ "tlt-in-" \in Kinds
      /\ {"rflat-", "flat-", "tlt-rest-", "tlt-flat-"} \subseteq Kinds
  BY DEF Sides, Kinds, ExitKinds
<1>2. \A k \in Kinds, d \in Sides :
        At(u, k, d)' \in Nat /\ At(u, k, d) \in Nat /\ At(u, k, d)' <= At(u, k, d)
  BY AtIsNat, TheOrders DEF CancelAll, At, account
<1>3. UNCHANGED position
  BY DEF CancelAll, account
<1>4. Exiting(u, -s)' <= Exiting(u, -s) /\ Exiting(u, -s) \in Int /\ Exiting(u, -s)' \in Int
  BY <1>1, <1>2 DEF Exiting
<1>5. Ahead(s, position[u]) \in Int
  BY DEF Ahead, AccountTypeOK
<1> QED
  BY <1>1, <1>2, <1>3, <1>4, <1>5 DEF Covered

-----------------------------------------------------------------------------
(***************************************************************************)
(* The session runner.                                                     *)
(***************************************************************************)
Flattening == sPc \in {"next", "rest", "cancel", "cross"}
InMarket == sPc \in {"rest", "cancel", "cross"}

(* The side of t that flatten set out to close, what is held on it, and    *)
(* what rests against it of the two kinds of exit.                         *)
Side(t) == Sign(held[t])
Front(t) == Ahead(Side(t), position[t])
RestingExit(t) == At(t, "rflat-", -Side(t))
CrossedRest(t) == At(t, "flat-", -Side(t))

Unread(t) == t \in todo \/ (sPc = "rest" /\ t = ticker)
Canceling(t) == sPc = "cancel" /\ t = ticker
Stubbed(t) == sPc \in {"cancel", "cross"} /\ t = ticker

(* What may still trade against t and is not counted yet, and what flatten *)
(* will still put against it.                                              *)
Out(t) == CrossedRest(t) + IF Canceling(t) THEN 0 ELSE RestingExit(t)
Planned(t) ==
  IF t \in todo THEN Size(held[t])
  ELSE IF Stubbed(t) /\ Ahead(Side(t), remaining) > 0 THEN Ahead(Side(t), remaining)
  ELSE 0

(* All of that is no more than what is held and what is counted.           *)
MarketOK(t) ==
  held[t] # 0 =>
    /\ Out(t) + Planned(t) <= Front(t) + against[t]
    /\ Unread(t) => CrossedRest(t) <= against[t]

MarketsOK == \A t \in Markets : MarketOK(t)

(* A market with nothing at rest when it was read has its own exit at rest *)
(* at most, for no more than what is held, and only until it is canceled.  *)
CleanUnread == \A t \in todo \ excused : NoneAt(t) /\ position[t] = held[t]
CleanExit ==
  sPc = "rest" /\ ticker \notin excused =>
    /\ RestingExit(ticker) <= Front(ticker) /\ At(ticker, "rflat-", Side(ticker)) = 0
    /\ \A d \in Sides : At(ticker, "flat-", d) = 0
CleanOthers ==
  \A t \in Markets \ excused, d \in Sides :
    At(t, "rflat-", d) > 0 => t = ticker /\ sPc \in {"rest", "cancel"}

SessionOK ==
  /\ Only({"rflat-", "flat-"})
  /\ ~Flattening => todo = {}
  /\ Flattening => \A t \in todo : held[t] # 0
  /\ InMarket => ticker \in tickers \ todo /\ held[ticker] # 0
  /\ sPc \in {"cancel", "cross"} => remaining # 0
  /\ CleanUnread /\ CleanExit /\ CleanOthers

SessionTypes ==
  /\ AccountTypeOK /\ SessionTypeOK
  /\ sPc # "exited" => failures < MaxFailures
  /\ timeUp \in BOOLEAN /\ remaining \in Int /\ against \in [Markets -> Nat]

SessionInv == SessionTypes /\ SessionOK /\ MarketsOK

LEMMA OppositeOf ==
  ASSUME NEW n \in Int, n # 0
  PROVE  Sign(n) \in Sides /\ -Sign(n) \in Sides /\ \A d \in Sides : d = Sign(n) \/ d = -Sign(n)
<1>1. Sign(n) = 1 \/ Sign(n) = -1
  BY SignOf DEF Sides
<1> QED  BY <1>1 DEF Sides

(* The numbers of a market that is closed.                                 *)
LEMMA Numbers ==
  ASSUME SessionTypes, NEW t \in Markets, held[t] # 0
  PROVE  /\ held[t] \in Int /\ Side(t) \in Sides /\ -Side(t) \in Sides
         /\ \A d \in Sides : d = Side(t) \/ d = -Side(t)
         /\ RestingExit(t) \in Nat /\ CrossedRest(t) \in Nat
         /\ Front(t) \in Int /\ against[t] \in Nat /\ Size(held[t]) \in Nat
         /\ Front(t) = Left(t)
<1>1. held[t] \in Int /\ position[t] \in Int /\ against[t] \in Nat
  BY DEF SessionTypes, AccountTypeOK
<1>2. Side(t) \in Sides /\ -Side(t) \in Sides /\ \A d \in Sides : d = Side(t) \/ d = -Side(t)
  BY <1>1, OppositeOf DEF Side
<1>3. RestingExit(t) \in Nat /\ CrossedRest(t) \in Nat
  <2>1. "rflat-" \in Kinds /\ "flat-" \in Kinds
    BY DEF Kinds
  <2> QED  BY <1>2, <2>1, AtIsNat DEF SessionTypes, RestingExit, CrossedRest
<1>4. Front(t) \in Int /\ Size(held[t]) \in Nat
  BY <1>1, SignOf DEF Front, Ahead
<1>5. Front(t) = Left(t)
  BY <1>1, <1>2, Times DEF Front, Left, Side
<1> QED  BY <1>1, <1>2, <1>3, <1>4, <1>5

LEMMA PlannedIsNat ==
  ASSUME SessionTypes, NEW t \in Markets, held[t] # 0
  PROVE  Planned(t) \in Nat
<1>1. Size(held[t]) \in Nat /\ Ahead(Side(t), remaining) \in Int
  BY Numbers DEF SessionTypes, Ahead
<1> QED  BY <1>1 DEF Planned

(* The bound of the property, from what is planned and at rest.            *)
LEMMA MarketsBounded ==
  ASSUME SessionTypes, MarketsOK
  PROVE  FlattenReversesLittle
<1>1. ASSUME NEW t \in Markets PROVE Left(t) >= -against[t]
  <2>1. CASE held[t] = 0
    <3>1. position[t] \in Int /\ against[t] \in Nat
      BY DEF SessionTypes, AccountTypeOK
    <3>2. Sign(held[t]) = 0
      BY <2>1 DEF Sign
    <3>3. Left(t) = 0
      BY <3>1, <3>2 DEF Left
    <3> QED  BY <3>1, <3>3
  <2>2. CASE held[t] # 0
    <3>1. Out(t) \in Nat /\ Planned(t) \in Nat
      BY <2>2, Numbers, PlannedIsNat DEF Out
    <3>2. Out(t) + Planned(t) <= Front(t) + against[t]
      BY <2>2 DEF MarketsOK, MarketOK
    <3>3. Front(t) \in Int /\ against[t] \in Nat /\ Front(t) = Left(t)
      BY <2>2, Numbers
    <3> QED  BY <3>1, <3>2, <3>3
  <2> QED  BY <2>1, <2>2
<1> QED  BY <1>1 DEF FlattenReversesLittle

(* A step that leaves the account of a market alone.                       *)
Same(t) ==
  /\ \A d \in Sides : At(t, "rflat-", d)' = At(t, "rflat-", d) /\ At(t, "flat-", d)' = At(t, "flat-", d)
  /\ position'[t] = position[t] /\ against'[t] = against[t]

LEMMA MarketStays ==
  ASSUME SessionTypes, NEW t \in Markets, MarketOK(t), Same(t),
         held'[t] = held[t] \/ held'[t] = 0,
         ~Stubbed(t), ~Stubbed(t)', t \in todo' => t \in todo, Unread(t)' => Unread(t)
  PROVE  MarketOK(t)'
<1> SUFFICES ASSUME held'[t] # 0 PROVE MarketOK(t)'
  BY DEF MarketOK
<1>1. held'[t] = held[t] /\ held[t] # 0
  OBVIOUS
<1>2. Side(t)' = Side(t) /\ -Side(t) \in Sides
  BY <1>1, Numbers DEF Side
<1>3. CrossedRest(t)' = CrossedRest(t) /\ RestingExit(t)' = RestingExit(t) /\ Front(t)' = Front(t)
  BY <1>1, <1>2 DEF CrossedRest, RestingExit, Front, Same
<1>4. Out(t)' = Out(t)
  BY <1>3 DEF Out, Stubbed, Canceling
<1>5. Planned(t) \in Nat /\ (Planned(t)' = Planned(t) \/ Planned(t)' = 0)
  BY <1>1, PlannedIsNat DEF Planned
<1>6. Out(t) \in Nat /\ Front(t) \in Int /\ against[t] \in Nat
  BY <1>1, Numbers DEF Out
<1> QED
  BY <1>1, <1>3, <1>4, <1>5, <1>6 DEF MarketOK, Same

(* A step elsewhere.                                                       *)
LEMMA MarketAside ==
  ASSUME SessionTypes, NEW t \in Markets, MarketOK(t), Same(t), held'[t] = held[t],
         UNCHANGED <<sPc, ticker, todo, remaining>>
  PROVE  MarketOK(t)'
<1> SUFFICES ASSUME held[t] # 0 PROVE MarketOK(t)'
  BY DEF MarketOK
<1>2. Side(t)' = Side(t) /\ -Side(t) \in Sides
  BY Numbers DEF Side
<1>3. CrossedRest(t)' = CrossedRest(t) /\ RestingExit(t)' = RestingExit(t) /\ Front(t)' = Front(t)
  BY <1>2 DEF CrossedRest, RestingExit, Front, Same
<1>4. Out(t)' = Out(t) /\ Planned(t)' = Planned(t) /\ (Unread(t)' <=> Unread(t))
  BY <1>2, <1>3 DEF Out, Canceling, Planned, Stubbed, Unread
<1> QED
  BY <1>3, <1>4 DEF MarketOK, Same

LEMMA SessionTypesKept ==
  ASSUME SessionInv, SessionStep
  PROVE  SessionTypes'
<1> USE SessionRunnerAssumption DEF SessionInv, SessionTypes, SessionTypeOK
<1>1. AccountTypeOK'
  <2>1. CASE UNCHANGED <<account, exit>>
    BY <2>1 DEF account, exit, AccountTypeOK
  <2>2. CASE Child
    <3>1. PICK left \in [tickers -> Leftovers] :
            position' = [t \in Markets |-> IF t \in tickers THEN left[t] ELSE position[t]]
      BY <2>2 DEF Child
    <3>2. \A t \in tickers : left[t] \in Int
      OBVIOUS
    <3>3. position' \in [Markets -> Int] /\ held' \in [Markets -> Int]
      BY <2>2, <3>1, <3>2 DEF AccountTypeOK, Child
    <3> QED  BY <2>2, <3>3 DEF Child, AccountTypeOK
  <2>3. CASE Positions
    <3>1. held' = held \/ held' = [t \in Markets |-> IF t \in todo' THEN position[t] ELSE held[t]]
      BY <2>3 DEF Positions
    <3>2. excused' \subseteq Markets
      BY <2>3 DEF Positions, AccountTypeOK
    <3> QED  BY <2>3, <3>1, <3>2 DEF Positions, account, AccountTypeOK
  <2>4. CASE NextTicker
    <3>1. CASE UNCHANGED <<account, ticker>>
      BY <2>4, <3>1 DEF NextTicker, account, AccountTypeOK
    <3>2. ASSUME NEW t \in todo, ticker' = t,
                 \/ UNCHANGED account
                 \/ PostOnly(Order(t, "rflat-", -Sign(held[t])), Size(held[t]))
          PROVE  AccountTypeOK'
      <4>1. t \in Markets /\ held[t] \in Int /\ held[t] # 0
        BY <2>4 DEF SessionOK, NextTicker, Flattening, AccountTypeOK
      <4>2. -Sign(held[t]) \in Sides /\ Size(held[t]) \in Nat /\ "rflat-" \in Kinds
        BY <4>1, SignOf DEF Kinds
      <4>3. Order(t, "rflat-", -Sign(held[t])) \in Orders
        BY <4>1, <4>2, TheOrders
      <4>4. /\ position' \in [Markets -> Int] /\ resting' \in [Orders -> Nat]
            /\ placed' \in 0..MaxPlaced
        BY <3>2, <4>2, <4>3, CreateTypes, CancelTypes
      <4> QED  BY <2>4, <3>2, <4>1, <4>4 DEF NextTicker, AccountTypeOK
    <3> QED  BY <2>4, <3>1, <3>2 DEF NextTicker
  <2>5. CASE Remaining
    BY <2>5 DEF Remaining, Excuse, account, AccountTypeOK, SessionOK, InMarket
  <2>6. CASE CancelExit
    <3>1. CancelAll(Stale) \/ UNCHANGED account
      BY <2>6 DEF CancelExit
    <3> QED
      BY <2>6, <3>1, CancelTypes DEF CancelExit, Excuse, AccountTypeOK, SessionOK, InMarket
  <2>7. CASE Cross
    <3>1. ticker \in Markets /\ remaining \in Int /\ remaining # 0
      BY <2>7 DEF Cross, SessionOK, InMarket
    <3>2. -Sign(Stub) \in Sides /\ Size(Stub) \in Nat /\ "flat-" \in Kinds
      BY <3>1, SignOf DEF Kinds, Stub
    <3>3. Order(ticker, "flat-", -Sign(Stub)) \in Orders
      BY <3>1, <3>2, TheOrders
    <3>4. Crossing(Order(ticker, "flat-", -Sign(Stub)), Size(Stub)) /\ UNCHANGED exit
      BY <2>7 DEF Cross
    <3> QED  BY <3>2, <3>3, <3>4, CreateTypes DEF exit, AccountTypeOK
  <2>8. ASSUME NEW o \in Orders, ExitTrades(o)  PROVE AccountTypeOK'
    BY <2>8, TradeTypes DEF ExitTrades, exit, AccountTypeOK
  <2> QED
    BY <2>1, <2>2, <2>3, <2>4, <2>5, <2>6, <2>7, <2>8
       DEF SessionStep, Runner, StartBalance, LoopTop, SleepOn, After, Deadline, Restart
<1>2. remaining' \in Int
  <2>1. CASE Remaining
    BY <2>1 DEF Remaining, AccountTypeOK, SessionOK, InMarket
  <2>2. CASE Cross
    BY <2>2 DEF Cross
  <2>3. UNCHANGED remaining \/ Remaining \/ Cross
    BY DEF SessionStep, Runner, StartBalance, LoopTop, SleepOn, Child, Positions, NextTicker,
           CancelExit, After, ExitTrades, Deadline, Restart, cycle
  <2> QED  BY <2>1, <2>2, <2>3
<1>3. against' \in [Markets -> Nat]
  <2>1. CASE Positions
    <3>1. \A t \in Markets : position[t] # 0 => Opposing(t, Sign(position[t])) \in Nat
      <4> SUFFICES ASSUME NEW t \in Markets, position[t] # 0
                   PROVE  Opposing(t, Sign(position[t])) \in Nat
        OBVIOUS
      <4>1. -Sign(position[t]) \in Sides /\ "rflat-" \in Kinds /\ "flat-" \in Kinds
        BY SignOf DEF AccountTypeOK, Kinds
      <4> QED  BY <4>1, AtIsNat DEF Opposing, At
    <3>2. CASE UNCHANGED against
      BY <3>2
    <3>3. CASE todo' = {t \in tickers : position[t] # 0} /\ against' = [t \in Markets |->
                 IF t \in todo' THEN Opposing(t, Sign(position[t])) ELSE against[t]]
      BY <3>1, <3>3
    <3> QED  BY <2>1, <3>2, <3>3 DEF Positions
  <2>2. CASE CancelExit
    <3>1. ticker \in Markets /\ held[ticker] # 0
      BY <2>2 DEF CancelExit, SessionOK, InMarket
    <3>2. resting[Order(ticker, "rflat-", -Sign(held[ticker]))] \in Nat
      BY <3>1, Numbers DEF RestingExit, At, Side
    <3> QED  BY <2>2, <3>1, <3>2 DEF CancelExit
  <2>3. ASSUME NEW o \in Orders, ExitTrades(o)  PROVE against' \in [Markets -> Nat]
    <3>1. sPc = "cancel" => ticker \in Markets
      BY DEF SessionOK, InMarket
    <3> QED  BY <2>3, <3>1 DEF ExitTrades
  <2>4. UNCHANGED against \/ Positions \/ CancelExit \/ \E o \in Orders : ExitTrades(o)
    BY DEF SessionStep, Runner, StartBalance, LoopTop, SleepOn, Child, NextTicker, Remaining,
           Cross, After, Deadline, Restart, cycle
  <2> QED  BY <2>1, <2>2, <2>3, <2>4
<1>4. (SessionTypeOK /\ (sPc # "exited" => failures < MaxFailures) /\ timeUp \in BOOLEAN)'
  <2>1. CASE Runner
    <3> USE <2>1 DEF Runner, cycle, Go, Stop, Fail, Final
    <3>1. CASE StartBalance  BY <3>1 DEF StartBalance, LoopTop
    <3>2. CASE LoopTop
      <4>1. todo = {} /\ sPc = "top"  BY <3>2 DEF LoopTop, SessionOK, Flattening
      <4>2. \A ts \in SUBSET Markets : Cardinality(ts) \in Nat
        BY FS_Subset, FS_CardinalityType
      <4>3. offers' \in 0..MaxOffers
        BY <3>2, <4>2 DEF LoopTop
      <4> QED  BY <3>2, <4>1, <4>3 DEF LoopTop, TimeIsUp
    <3>3. CASE SleepOn  BY <3>3 DEF SleepOn, LoopTop
    <3>4. CASE Child  BY <3>4 DEF Child, LoopTop
    <3>5. CASE Positions  BY <3>5 DEF Positions, LoopTop
    <3>6. CASE NextTicker  BY <3>6 DEF NextTicker, LoopTop
    <3>7. CASE Remaining  BY <3>7 DEF Remaining, LoopTop
    <3>8. CASE CancelExit  BY <3>8 DEF CancelExit, LoopTop
    <3>9. CASE Cross  BY <3>9 DEF Cross, LoopTop
    <3>10. CASE After
      <4>1. todo = {}  BY <3>10 DEF After, SessionOK, Flattening
      <4> QED  BY <3>10, <4>1 DEF After, LoopTop
    <3> QED
      BY <3>1, <3>2, <3>3, <3>4, <3>5, <3>6, <3>7, <3>8, <3>9, <3>10
  <2>2. CASE \E o \in Orders : ExitTrades(o)
    BY <2>2 DEF ExitTrades
  <2>3. CASE Deadline  BY <2>3 DEF Deadline, cycle
  <2>4. CASE Restart
    <3>1. /\ sPc' = "start" /\ reason' = "deadline" /\ failures' = 0 /\ timeUp' = FALSE
          /\ starts' = starts + 1 /\ starts < MaxStarts /\ todo' = {} /\ tickers' = {}
          /\ offers' = offers
      BY <2>4 DEF Restart
    <3>2. starts' \in 1..MaxStarts /\ failures' \in 0..MaxFailures /\ failures' < MaxFailures
      BY <3>1
    <3> QED  BY <3>1, <3>2
  <2> QED  BY <2>1, <2>2, <2>3, <2>4 DEF SessionStep
<1> QED
  BY <1>1, <1>2, <1>3, <1>4

(* The parts of the invariant when neither the account nor the exit moves. *)
LEMMA AccountStays ==
  ASSUME UNCHANGED account, UNCHANGED exit
  PROVE  /\ \A t, k, d : At(t, k, d)' = At(t, k, d)
         /\ UNCHANGED <<position, held, excused, ticker>>
         /\ \A t : NoneAt(t)' <=> NoneAt(t)
BY DEF account, exit, At, NoneAt

LEMMA CoverStays ==
  ASSUME ExitsCovered, UNCHANGED account, UNCHANGED exit
  PROVE  ExitsCovered'
<1>1. \A t \in Markets \ excused, s \in Sides : Covered(t, s) => Covered(t, s)'
  BY AccountStays, CoveredSame
<1>2. UNCHANGED excused
  BY DEF exit
<1> QED
  BY <1>1, <1>2 DEF ExitsCovered

(* Outside flatten no market is unread, and none is crossed.               *)
LEMMA Outside ==
  ASSUME ~Flattening, todo = {}
  PROVE  \A t : ~Stubbed(t) /\ ~Unread(t) /\ t \notin todo
BY DEF Flattening, Stubbed, Unread

LEMMA BetweenFlattens ==
  ASSUME SessionInv, SessionTypes', UNCHANGED account, UNCHANGED exit, UNCHANGED against,
         ~Flattening, ~Flattening', todo' = {}
  PROVE  SessionOK' /\ MarketsOK'
<1>1. todo = {}
  BY DEF SessionInv, SessionOK
<1>2. SessionOK'
  <2>1. ~InMarket' /\ sPc' \notin {"rest", "cancel", "cross"} /\ sPc \notin {"rest", "cancel", "cross"}
    BY DEF Flattening, InMarket
  <2> QED
    BY <2>1, AccountStays DEF SessionInv, SessionOK, Only, CleanUnread, CleanExit, CleanOthers
<1>3. ASSUME NEW t \in Markets  PROVE MarketOK(t)'
  <2>1. ~Stubbed(t) /\ ~Stubbed(t)' /\ ~Unread(t)' /\ t \notin todo'
    BY <1>1 DEF Flattening, Stubbed, Unread
  <2>2. Same(t) /\ held'[t] = held[t]
    BY AccountStays DEF Same
  <2>3. MarketOK(t)
    BY DEF SessionInv, MarketsOK
  <2> QED  BY <2>1, <2>2, <2>3, MarketStays DEF SessionInv
<1> QED  BY <1>2, <1>3 DEF MarketsOK

LEMMA RunnerWaits ==
  ASSUME SessionInv, SessionTypes',
         StartBalance \/ LoopTop \/ SleepOn \/ After \/ Restart
  PROVE  SessionOK' /\ MarketsOK'
<1>1. /\ UNCHANGED account /\ UNCHANGED exit /\ UNCHANGED against
      /\ sPc \in {"start", "top", "sleep", "after", "exited"}
      /\ sPc' \in {"start", "top", "sleep", "child", "exited"}
      /\ todo' = todo \/ todo' = {}
  BY DEF StartBalance, LoopTop, SleepOn, After, Restart, Go, Stop, Fail, cycle
<1>2. ~Flattening /\ ~Flattening'
  BY <1>1 DEF Flattening
<1>3. todo' = {}
  BY <1>1, <1>2 DEF SessionInv, SessionOK
<1> QED  BY <1>1, <1>2, <1>3, BetweenFlattens

(* The session of a cycle leaves any position in its markets.              *)
LEMMA ChildKeeps ==
  ASSUME SessionInv, SessionTypes', Child
  PROVE  SessionOK' /\ MarketsOK'
<1>1. /\ \E left \in [tickers -> Leftovers] :
           position' = [t \in Markets |-> IF t \in tickers THEN left[t] ELSE position[t]]
      /\ held' = [t \in Markets |-> IF t \in tickers THEN 0 ELSE held[t]]
      /\ UNCHANGED <<resting, ticker, excused, todo, remaining, tickers, against>>
      /\ sPc = "child" /\ sPc' \in {"positions", "top", "exited"}
  BY DEF Child, Go, Stop, Fail, cycle
<1>2. \A t, k, d : At(t, k, d)' = At(t, k, d)
  BY <1>1 DEF At
<1>3. todo = {} /\ ~Flattening /\ ~Flattening' /\ ~InMarket'
  BY <1>1 DEF SessionInv, SessionOK, Flattening, InMarket
<1>4. SessionOK'
  BY <1>1, <1>2, <1>3 DEF SessionInv, SessionOK, Only, CleanUnread, CleanExit, CleanOthers
<1>5. ASSUME NEW t \in Markets  PROVE MarketOK(t)'
  <2>1. CASE t \in tickers
    BY <1>1, <2>1 DEF MarketOK
  <2>2. CASE t \notin tickers
    <3>1. Same(t) /\ held'[t] = held[t]
      BY <1>1, <1>2, <2>2 DEF Same
    <3>2. ~Stubbed(t) /\ ~Stubbed(t)' /\ ~Unread(t)' /\ t \notin todo'
      BY <1>1, <1>3 DEF Stubbed, Unread
    <3> QED  BY <3>1, <3>2, MarketStays DEF SessionInv, MarketsOK
  <2> QED  BY <2>1, <2>2
<1> QED  BY <1>4, <1>5 DEF MarketsOK

(* The positions are read, or not: what rests against them is counted.     *)
LEMMA PositionsKeeps ==
  ASSUME SessionInv, SessionTypes', Positions
  PROVE  SessionOK' /\ MarketsOK'
<1>1. UNCHANGED account /\ UNCHANGED <<tickers, ticker, remaining>> /\ sPc = "positions"
  BY DEF Positions
<1>2. UNCHANGED position /\ \A t, k, d : At(t, k, d)' = At(t, k, d)
  BY <1>1 DEF account, At
<1>3. todo = {} /\ ~Flattening
  BY <1>1 DEF SessionInv, SessionOK, Flattening
<1>4. CASE sPc' = "after" /\ UNCHANGED <<todo, held, against, excused>>
  <2>1. UNCHANGED exit /\ ~Flattening'
    BY <1>1, <1>4 DEF exit, Flattening
  <2> QED  BY <1>1, <1>3, <1>4, <2>1, BetweenFlattens
<1>5. CASE /\ sPc' = "next" /\ todo' = {t \in tickers : position[t] # 0}
           /\ held' = [t \in Markets |-> IF t \in todo' THEN position[t] ELSE held[t]]
           /\ against' = [t \in Markets |->
                IF t \in todo' THEN Opposing(t, Sign(position[t])) ELSE against[t]]
           /\ excused' = excused \cup
                {t \in todo' : \E o \in Orders : o.ticker = t /\ resting[o] > 0}
  <2>1. tickers \subseteq Markets /\ todo' \subseteq Markets
    BY <1>5 DEF SessionInv, SessionTypes, SessionTypeOK
  <2>2. CleanUnread'
    <3>1. ASSUME NEW t \in todo' \ excused'  PROVE NoneAt(t)' /\ position'[t] = held'[t]
      <4>1. ASSUME NEW k \in Kinds, NEW d \in Sides  PROVE At(t, k, d) = 0
        <5>1. Order(t, k, d) \in Orders /\ Order(t, k, d).ticker = t
          BY <2>1, TheOrders
        <5>2. At(t, k, d) \in Nat
          BY <2>1, AtIsNat DEF SessionInv, SessionTypes
        <5> QED  BY <1>5, <5>1, <5>2 DEF At
      <4> QED  BY <1>2, <1>5, <2>1, <4>1 DEF NoneAt
    <3> QED  BY <3>1 DEF CleanUnread
  <2>3. SessionOK'
    BY <1>1, <1>2, <1>5, <2>1, <2>2
       DEF SessionInv, SessionOK, Only, CleanExit, CleanOthers, Flattening, InMarket
  <2>4. ASSUME NEW t \in Markets  PROVE MarketOK(t)'
    <3>1. CASE t \in todo'
      <4>1. held'[t] = position[t] /\ position[t] # 0 /\ position[t] \in Int
            /\ against'[t] = Opposing(t, Sign(position[t]))
        BY <1>5, <3>1 DEF SessionInv, SessionTypes, AccountTypeOK
      <4>2. PICK s \in Sides : s = Sign(position[t]) /\ -s \in Sides /\ Size(position[t]) \in Nat
                               /\ Ahead(s, position[t]) = Size(position[t])
        BY <4>1, SignOf
      <4>3. Side(t)' = s
        BY <4>1, <4>2 DEF Side
      <4>4. /\ RestingExit(t)' = At(t, "rflat-", -s) /\ CrossedRest(t)' = At(t, "flat-", -s)
            /\ Front(t)' = Size(position[t])
        BY <1>2, <4>2, <4>3 DEF RestingExit, CrossedRest, Front
      <4>5. At(t, "rflat-", -s) \in Nat /\ At(t, "flat-", -s) \in Nat
        BY <4>2, AtIsNat DEF SessionInv, SessionTypes, Kinds
      <4>6. against'[t] = At(t, "rflat-", -s) + At(t, "flat-", -s)
        BY <4>1, <4>2 DEF Opposing, At
      <4>7. Planned(t)' = Size(position[t])
        BY <3>1, <4>1 DEF Planned
      <4>8. Out(t)' = CrossedRest(t)' + RestingExit(t)'
        BY <1>5 DEF Out, Canceling
      <4> QED  BY <4>2, <4>4, <4>5, <4>6, <4>7, <4>8 DEF MarketOK
    <3>2. CASE t \notin todo'
      <4>1. Same(t) /\ held'[t] = held[t]
        BY <1>2, <1>5, <3>2 DEF Same
      <4>2. ~Stubbed(t) /\ ~Stubbed(t)' /\ ~Unread(t)'
        BY <1>1, <1>5, <3>2 DEF Stubbed, Unread
      <4> QED  BY <3>2, <4>1, <4>2, MarketStays DEF SessionInv, MarketsOK
    <3> QED  BY <3>1, <3>2
  <2> QED  BY <2>3, <2>4 DEF MarketsOK
<1> QED  BY <1>4, <1>5 DEF Positions, Go

(* What a create and a trade leave alone.                                  *)
LEMMA OthersStay ==
  ASSUME AccountTypeOK, NEW t \in Markets, NEW k \in Kinds, NEW d \in Sides, NEW n \in Nat,
         \/ Crossing(Order(t, k, d), n) \/ PostOnly(Order(t, k, d), n)
         \/ FillAtRest(Order(t, k, d))
  PROVE  /\ \A u \in Markets, j \in Kinds, e \in Sides :
              u # t \/ j # k \/ e # d => At(u, j, e)' = At(u, j, e)
         /\ \A u \in Markets : u # t => position'[u] = position[u]
<1>1. ASSUME NEW m \in Int, NEW q \in Int, Adds(t, k, d, m, q)
      PROVE  /\ \A u \in Markets, j \in Kinds, e \in Sides :
                  u # t \/ j # k \/ e # d => At(u, j, e)' = At(u, j, e)
             /\ \A u \in Markets : u # t => position'[u] = position[u]
  BY <1>1, AddsAt
<1>2. CASE UNCHANGED account
  BY <1>2 DEF account, At
<1>3. CASE \E done \in 0..n : Adds(t, k, d, n - done, Ahead(d, done))
  <2>1. PICK done \in 0..n : Adds(t, k, d, n - done, Ahead(d, done))
    BY <1>3
  <2>2. n - done \in Int /\ Ahead(d, done) \in Int
    BY DEF Ahead
  <2> QED  BY <1>1, <2>1, <2>2
<1>4. CASE FillAtRest(Order(t, k, d))
  <2>1. -1 \in Int /\ d \in Int
    BY DEF Sides
  <2> QED  BY <1>1, <1>4, <2>1, TradeAdds
<1> QED  BY <1>2, <1>3, <1>4, CreateAdds

(* What a create adds to its order, and to the position seen from a side.  *)
LEMMA CreateAt ==
  ASSUME AccountTypeOK, NEW t \in Markets, NEW k \in Kinds, NEW d \in Sides, NEW n \in Nat,
         Crossing(Order(t, k, d), n) \/ PostOnly(Order(t, k, d), n)
  PROVE  /\ At(t, k, d) \in Nat /\ At(t, k, d)' \in Nat /\ position[t] \in Int
         /\ position'[t] \in Int
         /\ At(t, k, d)' - At(t, k, d) \in 0..n
         /\ Ahead(d, position'[t]) - Ahead(d, position[t]) >= 0
         /\ (At(t, k, d)' - At(t, k, d)) + (Ahead(d, position'[t]) - Ahead(d, position[t])) <= n
<1>1. At(t, k, d) \in Nat /\ position[t] \in Int
  BY AtIsNat DEF AccountTypeOK
<1>2. CASE UNCHANGED account
  <2>1. At(t, k, d)' = At(t, k, d) /\ position'[t] = position[t]
    BY <1>2 DEF account, At
  <2> QED  BY <1>1, <2>1 DEF Ahead
<1>3. CASE \E done \in 0..n : Adds(t, k, d, n - done, Ahead(d, done))
  <2>1. PICK done \in 0..n : Adds(t, k, d, n - done, Ahead(d, done))
    BY <1>3
  <2>2. n - done \in Int /\ Ahead(d, done) \in Int
    BY DEF Ahead
  <2>3. At(t, k, d)' = At(t, k, d) + (n - done) /\ position'[t] = position[t] + Ahead(d, done)
    BY <2>1, <2>2, AddsAt
  <2>4. Ahead(d, position'[t]) = Ahead(d, position[t]) + done
    BY <1>1, <2>3 DEF Ahead, Sides
  <2> QED  BY <1>1, <2>2, <2>3, <2>4 DEF Ahead
<1> QED  BY <1>2, <1>3, CreateAdds

(* The next market is skipped, or its exit is put to rest.                 *)
LEMMA NextTickerKeeps ==
  ASSUME SessionInv, SessionTypes', NextTicker
  PROVE  SessionOK' /\ MarketsOK'
<1>1. /\ UNCHANGED <<tickers, held, remaining, against, excused>> /\ sPc = "next"
      /\ \A u \in todo : held[u] # 0
      /\ tickers \subseteq Markets /\ todo \subseteq tickers
      /\ AccountTypeOK /\ CleanUnread /\ CleanOthers
  BY DEF NextTicker, SessionInv, SessionOK, SessionTypes, SessionTypeOK, Flattening
<1>2. CASE todo = {} /\ sPc' = "after" /\ UNCHANGED <<todo, ticker, account>>
  <2>1. \A u, k, d : At(u, k, d)' = At(u, k, d)
    BY <1>2 DEF account, At
  <2>2. UNCHANGED position
    BY <1>2 DEF account
  <2>3. SessionOK'
    BY <1>1, <1>2, <2>1, <2>2
       DEF SessionInv, SessionOK, Only, CleanUnread, CleanExit, CleanOthers, Flattening, InMarket
  <2>4. ASSUME NEW u \in Markets  PROVE MarketOK(u)'
    <3>1. Same(u) /\ ~Stubbed(u) /\ ~Stubbed(u)' /\ ~Unread(u)' /\ u \notin todo'
      BY <1>1, <1>2, <2>1, <2>2 DEF Same, Stubbed, Unread
    <3> QED  BY <1>1, <3>1, MarketStays DEF SessionInv, MarketsOK
  <2> QED  BY <2>3, <2>4 DEF MarketsOK
<1>3. ASSUME NEW t \in todo, todo' = todo \ {t}, ticker' = t, sPc' = "next", UNCHANGED account
      PROVE  SessionOK' /\ MarketsOK'
  <2>1. UNCHANGED position /\ \A u, k, d : At(u, k, d)' = At(u, k, d)
    BY <1>3 DEF account, At
  <2>2. \A u : NoneAt(u)' <=> NoneAt(u)
    BY <2>1 DEF NoneAt
  <2>3. SessionOK'
    BY <1>1, <1>3, <2>1, <2>2
       DEF SessionInv, SessionOK, Only, CleanUnread, CleanExit, CleanOthers, Flattening, InMarket
  <2>4. ASSUME NEW u \in Markets  PROVE MarketOK(u)'
    <3>1. /\ Same(u) /\ ~Stubbed(u) /\ ~Stubbed(u)' /\ (u \in todo' => u \in todo)
          /\ Unread(u)' => Unread(u)
      BY <1>1, <1>3, <2>1 DEF Same, Stubbed, Unread
    <3> QED  BY <1>1, <3>1, MarketStays DEF SessionInv, MarketsOK
  <2> QED  BY <2>3, <2>4 DEF MarketsOK
<1>4. ASSUME NEW t \in todo, todo' = todo \ {t}, ticker' = t, sPc' = "rest",
             PostOnly(Order(t, "rflat-", -Sign(held[t])), Size(held[t]))
      PROVE  SessionOK' /\ MarketsOK'
  <2>1. t \in Markets /\ held[t] # 0
    BY <1>1
  <2>2. /\ Side(t) \in Sides /\ -Side(t) \in Sides /\ Size(held[t]) \in Nat
        /\ \A d \in Sides : d = Side(t) \/ d = -Side(t)
        /\ RestingExit(t) \in Nat /\ CrossedRest(t) \in Nat /\ Front(t) \in Int
        /\ against[t] \in Nat
        /\ held[t] \in Int /\ "rflat-" \in Kinds /\ "flat-" \in Kinds
    BY <2>1, Numbers DEF SessionInv, Kinds
  <2>3. PostOnly(Order(t, "rflat-", -Side(t)), Size(held[t]))
    BY <1>4 DEF Side
  <2>4. /\ \A u \in Markets, k \in Kinds, d \in Sides :
             u # t \/ k # "rflat-" \/ d # -Side(t) => At(u, k, d)' = At(u, k, d)
        /\ \A u \in Markets : u # t => position'[u] = position[u]
    BY <1>1, <2>1, <2>2, <2>3, OthersStay
  <2>5. /\ Side(t)' = Side(t) /\ CrossedRest(t)' = CrossedRest(t)
    BY <1>1, <2>1, <2>2, <2>4 DEF Side, CrossedRest
  <2> PICK e \in Sides : e = -Side(t)
    BY <2>2
  <2> PICK n \in Nat : n = Size(held[t])
    BY <2>2
  <2>6. /\ position'[t] = position[t] /\ At(t, "rflat-", e)' \in Nat
        /\ At(t, "rflat-", e)' <= At(t, "rflat-", e) + n
    <3>1. position[t] \in Int /\ At(t, "rflat-", e) \in Nat
      BY <1>1, <2>1, <2>2, AtIsNat DEF AccountTypeOK
    <3>2. CASE UNCHANGED account
      BY <3>1, <3>2 DEF account, At
    <3>3. CASE Taken(Order(t, "rflat-", e), n, 0)
      <4>1. Adds(t, "rflat-", e, n - 0, Ahead(e, 0))
        BY <1>1, <2>1, <2>2, <3>3, TakenAdds
      <4>2. n - 0 \in Int /\ n - 0 = n /\ Ahead(e, 0) \in Int /\ Ahead(e, 0) = 0
        BY AheadOfNone
      <4>3. /\ At(t, "rflat-", e)' = At(t, "rflat-", e) + (n - 0)
            /\ position'[t] = position[t] + Ahead(e, 0)
        BY <1>1, <2>1, <2>2, <4>1, <4>2, AddsAt
      <4> QED  BY <3>1, <4>2, <4>3
    <3> QED  BY <2>3, <3>2, <3>3 DEF PostOnly
  <2>7. /\ Front(t)' = Front(t) /\ RestingExit(t)' \in Nat
        /\ RestingExit(t)' <= RestingExit(t) + Size(held[t])
    <3>1. RestingExit(t)' = At(t, "rflat-", e)' /\ RestingExit(t) = At(t, "rflat-", e)
      BY <2>5 DEF RestingExit
    <3> QED  BY <2>5, <2>6, <3>1 DEF Front
  <2>8. MarketOK(t)'
    <3>1. Out(t) = CrossedRest(t) + RestingExit(t) /\ Planned(t) = Size(held[t]) /\ Unread(t)
      BY <1>1 DEF Out, Canceling, Planned, Unread
    <3>2. Out(t)' = CrossedRest(t)' + RestingExit(t)' /\ Planned(t)' = 0
      BY <1>4 DEF Out, Canceling, Planned, Stubbed
    <3>3. Out(t) + Planned(t) <= Front(t) + against[t] /\ CrossedRest(t) <= against[t]
      BY <2>1, <3>1 DEF SessionInv, MarketsOK, MarketOK
    <3> QED
      BY <1>1, <2>2, <2>5, <2>7, <3>1, <3>2, <3>3 DEF MarketOK
  <2>9. ASSUME NEW u \in Markets, u # t  PROVE MarketOK(u)'
    <3>1. /\ Same(u) /\ ~Stubbed(u) /\ ~Stubbed(u)' /\ (u \in todo' => u \in todo)
          /\ Unread(u)' => Unread(u)
      BY <1>1, <1>4, <2>2, <2>4, <2>9 DEF Same, Stubbed, Unread
    <3> QED  BY <1>1, <3>1, MarketStays DEF SessionInv, MarketsOK
  <2>10. CleanUnread' /\ CleanOthers'
    <3>1. \A u \in Markets : u # t => (NoneAt(u)' <=> NoneAt(u))
      BY <2>4 DEF NoneAt
    <3>2. CleanUnread'
      BY <1>1, <1>4, <2>4, <3>1 DEF CleanUnread
    <3>3. \A u \in Markets \ excused, d \in Sides : ~(At(u, "rflat-", d) > 0)
      BY <1>1 DEF CleanOthers
    <3> QED  BY <1>1, <1>4, <2>2, <2>4, <3>2, <3>3 DEF CleanOthers
  <2>11. CleanExit'
    <3> SUFFICES ASSUME t \notin excused
                 PROVE  /\ RestingExit(t)' <= Front(t)' /\ At(t, "rflat-", Side(t))' = 0
                        /\ \A d \in Sides : At(t, "flat-", d)' = 0
      BY <1>1, <1>4, <2>5 DEF CleanExit
    <3>1. NoneAt(t) /\ position[t] = held[t]
      BY <1>1 DEF CleanUnread
    <3>2. Front(t) = Size(held[t])
      BY <2>2, <2>1, <3>1, SignOf DEF Front, Side
    <3>3. RestingExit(t) = 0
      BY <2>2, <3>1 DEF RestingExit, NoneAt
    <3>4. RestingExit(t)' <= Front(t)'
      BY <2>2, <2>7, <3>2, <3>3
    <3>5. At(t, "rflat-", Side(t))' = 0
      <4>1. PICK s \in Sides : s = Side(t) /\ s # -Side(t)
        BY <2>2 DEF Sides
      <4>2. At(t, "rflat-", s)' = At(t, "rflat-", s) /\ At(t, "rflat-", s) = 0
        BY <2>1, <2>2, <2>4, <3>1, <4>1 DEF NoneAt
      <4> QED  BY <2>5, <4>1, <4>2
    <3>6. \A d \in Sides : At(t, "flat-", d)' = 0
      BY <2>1, <2>2, <2>4, <3>1 DEF NoneAt
    <3> QED  BY <3>4, <3>5, <3>6
  <2>12. Only({"rflat-", "flat-"})'
    BY <2>2, <2>4 DEF SessionInv, SessionOK, Only
  <2>13. SessionOK'
    BY <1>1, <1>4, <2>10, <2>11, <2>12 DEF SessionInv, SessionOK, Flattening, InMarket
  <2> QED  BY <2>8, <2>9, <2>13 DEF MarketsOK
<1> QED  BY <1>2, <1>3, <1>4 DEF NextTicker, Go

(* What remains is read, or the read fails and the market is excused.      *)
LEMMA RemainingKeeps ==
  ASSUME SessionInv, SessionTypes', Remaining
  PROVE  SessionOK' /\ MarketsOK'
<1>1. /\ UNCHANGED account /\ UNCHANGED <<tickers, held, ticker, against>> /\ sPc = "rest"
      /\ AccountTypeOK /\ excused \subseteq excused'
      /\ ticker \in Markets /\ ticker \notin todo /\ held[ticker] # 0
      /\ todo' = todo \/ todo' = {}
      /\ sPc' \in {"next", "cancel", "after"}
  BY DEF Remaining, Go, SessionInv, SessionTypes, SessionTypeOK, SessionOK, InMarket, Excuse
<1>2. /\ UNCHANGED position /\ \A u, k, d : At(u, k, d)' = At(u, k, d)
      /\ \A u : NoneAt(u)' <=> NoneAt(u)
  BY <1>1 DEF account, At, NoneAt
<1>3. ASSUME NEW u \in Markets, u # ticker \/ sPc' # "cancel"  PROVE MarketOK(u)'
  <2>1. /\ Same(u) /\ ~Stubbed(u) /\ ~Stubbed(u)' /\ (u \in todo' => u \in todo)
        /\ Unread(u)' => Unread(u)
    BY <1>1, <1>2, <1>3 DEF Same, Stubbed, Unread
  <2> QED  BY <1>1, <2>1, MarketStays DEF SessionInv, MarketsOK
<1>4. CASE remaining' = position[ticker] /\ UNCHANGED <<todo, excused>>
           /\ sPc' = IF remaining' = 0 THEN "next" ELSE "cancel"
  <2>1. CASE remaining' = 0
    <3>1. ASSUME ticker \notin excused  PROVE \A d \in Sides : At(ticker, "rflat-", d) = 0
      <4>1. RestingExit(ticker) <= Front(ticker) /\ At(ticker, "rflat-", Side(ticker)) = 0
        BY <1>1, <3>1 DEF SessionInv, SessionOK, CleanExit
      <4>2. Front(ticker) = 0
        <5>1. position[ticker] = 0
          BY <1>4, <2>1
        <5>2. Side(ticker) \in Sides
          BY <1>1, Numbers DEF SessionInv
        <5> QED  BY <5>1, <5>2, AheadOfNone DEF Front
      <4>3. RestingExit(ticker) \in Nat /\ \A d \in Sides : d = Side(ticker) \/ d = -Side(ticker)
        BY <1>1, Numbers DEF SessionInv
      <4>4. RestingExit(ticker) = 0
        BY <4>1, <4>2, <4>3
      <4> QED  BY <4>1, <4>3, <4>4 DEF RestingExit
    <3>2. \A t \in Markets \ excused, d \in Sides : ~(At(t, "rflat-", d) > 0)
      BY <3>1 DEF SessionInv, SessionOK, CleanOthers
    <3>3. SessionOK'
      BY <1>1, <1>2, <1>4, <2>1, <3>2
         DEF SessionInv, SessionOK, Only, CleanUnread, CleanExit, CleanOthers, Flattening, InMarket
    <3> QED  BY <1>3, <1>4, <2>1, <3>3 DEF MarketsOK
  <2>2. CASE remaining' # 0
    <3>1. SessionOK'
      BY <1>1, <1>2, <1>4, <2>2
         DEF SessionInv, SessionOK, Only, CleanUnread, CleanExit, CleanOthers, Flattening, InMarket
    <3>2. /\ RestingExit(ticker) \in Nat /\ CrossedRest(ticker) \in Nat /\ Front(ticker) \in Int
          /\ against[ticker] \in Nat /\ Side(ticker) \in Sides /\ -Side(ticker) \in Sides
      BY <1>1, Numbers DEF SessionInv
    <3>3. Side(ticker)' = Side(ticker) /\ Front(ticker)' = Front(ticker)
          /\ CrossedRest(ticker)' = CrossedRest(ticker)
      BY <1>1, <1>2 DEF Side, Front, CrossedRest
    <3>4. Out(ticker)' = CrossedRest(ticker)'
      BY <1>1, <1>4, <2>2, <3>2, <3>3 DEF Out, Canceling
    <3>5. Planned(ticker)' = IF Front(ticker) > 0 THEN Front(ticker) ELSE 0
      BY <1>1, <1>4, <2>2, <3>3 DEF Planned, Stubbed, Front
    <3>6. Out(ticker) = CrossedRest(ticker) + RestingExit(ticker) /\ Planned(ticker) = 0
          /\ Unread(ticker)
      BY <1>1 DEF Out, Canceling, Planned, Stubbed, Unread
    <3>7. /\ Out(ticker) + Planned(ticker) <= Front(ticker) + against[ticker]
          /\ CrossedRest(ticker) <= against[ticker]
      BY <1>1, <3>6 DEF SessionInv, MarketsOK, MarketOK
    <3>8. ~Unread(ticker)'
      BY <1>1, <1>4, <2>2 DEF Unread
    <3>9. Out(ticker)' + Planned(ticker)' <= Front(ticker)' + against'[ticker]
      BY <1>1, <3>2, <3>3, <3>4, <3>5, <3>6, <3>7
    <3>10. MarketOK(ticker)'
      BY <1>1, <3>8, <3>9 DEF MarketOK
    <3> QED  BY <1>1, <1>3, <3>1, <3>10 DEF MarketsOK
  <2> QED  BY <2>1, <2>2
<1>5. CASE sPc' = "after" /\ todo' = {} /\ excused' = excused \cup {ticker} /\ UNCHANGED remaining
  <2>1. \A t \in Markets \ excused', d \in Sides : ~(At(t, "rflat-", d) > 0)
    BY <1>1, <1>5 DEF SessionInv, SessionOK, CleanOthers
  <2>2. SessionOK'
    BY <1>1, <1>2, <1>5, <2>1
       DEF SessionInv, SessionOK, Only, CleanUnread, CleanExit, CleanOthers, Flattening, InMarket
  <2> QED  BY <1>3, <1>5, <2>2 DEF MarketsOK
<1> QED  BY <1>4, <1>5 DEF Remaining, Go, Excuse

(* The exit at rest is canceled, or what it may still trade is counted.    *)
LEMMA CancelExitKeeps ==
  ASSUME SessionInv, SessionTypes', CancelExit
  PROVE  SessionOK' /\ MarketsOK'
<1>1. /\ UNCHANGED <<tickers, todo, remaining, ticker, held>>
      /\ sPc = "cancel" /\ sPc' = "cross" /\ AccountTypeOK /\ ticker \in Markets
      /\ held[ticker] # 0 /\ ticker \notin todo /\ todo \subseteq Markets
      /\ excused \subseteq excused'
      /\ \/ CancelAll(Stale) /\ UNCHANGED against
         \/ /\ UNCHANGED account /\ ticker \in excused'
            /\ against' = [against EXCEPT ![ticker] = @ + RestingExit(ticker)]
  BY DEF CancelExit, Go, SessionInv, SessionTypes, SessionTypeOK, SessionOK, InMarket,
         Excuse, RestingExit, At, Side
<1>2. UNCHANGED position
  BY <1>1 DEF CancelAll, account
<1>3. \A u \in Markets, k \in Kinds, d \in Sides :
        /\ Order(u, k, d) \in Orders
        /\ Order(u, k, d) \in Stale <=> u = ticker /\ k = "rflat-"
  BY TheOrders DEF Stale, RestingOf
<1>4. \A u \in Markets, k \in Kinds, d \in Sides :
        /\ u # ticker \/ k # "rflat-" => At(u, k, d)' = At(u, k, d)
        /\ CancelAll(Stale) /\ u = ticker /\ k = "rflat-" => At(u, k, d)' = 0
        /\ At(u, k, d) = 0 => At(u, k, d)' = 0
  <2>1. CASE CancelAll(Stale)
    BY <1>3, <2>1 DEF CancelAll, At
  <2>2. CASE ~CancelAll(Stale)
    BY <1>1, <2>2 DEF account, At
  <2> QED  BY <2>1, <2>2
<1>5. "rflat-" \in Kinds /\ "flat-" \in Kinds
  BY DEF Kinds
<1>6. CleanUnread'
  <2>1. \A u \in Markets : NoneAt(u) => NoneAt(u)'
    BY <1>4 DEF NoneAt
  <2> QED  BY <1>1, <1>2, <2>1 DEF SessionInv, SessionOK, CleanUnread
<1>7. CleanOthers'
  <2> SUFFICES ASSUME NEW t \in Markets \ excused', NEW d \in Sides  PROVE ~(At(t, "rflat-", d)' > 0)
    BY DEF CleanOthers
  <2>1. CASE t = ticker
    <3>1. At(t, "rflat-", d)' = 0
      BY <1>1, <1>4, <1>5, <2>1
    <3> QED  BY <3>1
  <2>2. CASE t # ticker
    <3>1. ~(At(t, "rflat-", d) > 0)
      BY <1>1, <2>2 DEF SessionInv, SessionOK, CleanOthers
    <3> QED  BY <1>4, <1>5, <2>2, <3>1
  <2> QED  BY <2>1, <2>2
<1>8. SessionOK'
  <2>1. Only({"rflat-", "flat-"})'
    BY <1>4 DEF SessionInv, SessionOK, Only
  <2> QED
    BY <1>1, <1>6, <1>7, <2>1 DEF SessionInv, SessionOK, CleanExit, Flattening, InMarket
<1>9. ASSUME NEW u \in Markets, u # ticker  PROVE MarketOK(u)'
  <2>1. /\ Same(u) /\ ~Stubbed(u) /\ ~Stubbed(u)' /\ (u \in todo' => u \in todo)
        /\ Unread(u)' => Unread(u)
    <3>1. Same(u)
      <4>1. against'[u] = against[u]
        BY <1>1, <1>9 DEF SessionInv, SessionTypes
      <4> QED  BY <1>2, <1>4, <1>5, <1>9, <4>1 DEF Same
    <3> QED  BY <1>1, <1>9, <3>1 DEF Stubbed, Unread
  <2> QED  BY <1>1, <2>1, MarketStays DEF SessionInv, MarketsOK
<1>10. MarketOK(ticker)'
  <2>1. /\ RestingExit(ticker) \in Nat /\ CrossedRest(ticker) \in Nat /\ Front(ticker) \in Int
        /\ against[ticker] \in Nat /\ Side(ticker) \in Sides /\ -Side(ticker) \in Sides
    BY <1>1, Numbers DEF SessionInv
  <2>2. Side(ticker)' = Side(ticker) /\ Front(ticker)' = Front(ticker)
        /\ CrossedRest(ticker)' = CrossedRest(ticker)
    BY <1>1, <1>2, <1>4, <1>5, <2>1 DEF Side, Front, CrossedRest
  <2>3. Planned(ticker)' = Planned(ticker) /\ Planned(ticker) \in Nat
    BY <1>1, <2>2, PlannedIsNat DEF SessionInv, Planned, Stubbed
  <2>4. Out(ticker) = CrossedRest(ticker) /\ Out(ticker)' = CrossedRest(ticker)' + RestingExit(ticker)'
    BY <1>1, <2>1 DEF Out, Canceling
  <2>5. Out(ticker) + Planned(ticker) <= Front(ticker) + against[ticker]
    BY <1>1 DEF SessionInv, MarketsOK, MarketOK
  <2>6. ~Unread(ticker)'
    BY <1>1 DEF Unread
  <2>7. CASE CancelAll(Stale) /\ UNCHANGED against
    <3>1. RestingExit(ticker)' = 0
      BY <1>1, <1>4, <1>5, <2>1, <2>2, <2>7 DEF RestingExit
    <3>2. Out(ticker)' + Planned(ticker)' <= Front(ticker)' + against'[ticker]
      BY <1>1, <2>1, <2>2, <2>3, <2>4, <2>5, <2>7, <3>1
    <3> QED  BY <1>1, <2>6, <3>2 DEF MarketOK
  <2>8. CASE UNCHANGED account /\ against' = [against EXCEPT ![ticker] = @ + RestingExit(ticker)]
    <3>1. RestingExit(ticker)' = RestingExit(ticker)
      BY <1>1, <2>2, <2>8 DEF RestingExit, At, account
    <3>2. against'[ticker] = against[ticker] + RestingExit(ticker)
      BY <1>1, <2>8 DEF SessionInv, SessionTypes
    <3>3. Out(ticker)' + Planned(ticker)' <= Front(ticker)' + against'[ticker]
      BY <2>1, <2>2, <2>3, <2>4, <2>5, <3>1, <3>2
    <3> QED  BY <1>1, <2>6, <3>3 DEF MarketOK
  <2> QED  BY <1>1, <2>7, <2>8
<1> QED  BY <1>1, <1>8, <1>9, <1>10 DEF MarketsOK

(* What remains is crossed.                                                *)
LEMMA CrossKeeps ==
  ASSUME SessionInv, SessionTypes', Cross
  PROVE  SessionOK' /\ MarketsOK'
<1>1. /\ UNCHANGED <<tickers, todo, against, ticker, held, excused>>
      /\ sPc = "cross" /\ sPc' = "next" /\ AccountTypeOK
      /\ ticker \in Markets /\ ticker \notin todo /\ todo \subseteq Markets
      /\ held[ticker] # 0 /\ remaining \in Int /\ remaining # 0
      /\ Crossing(Order(ticker, "flat-", -Sign(remaining)), Size(remaining))
  BY DEF Cross, Go, exit, SessionInv, SessionTypes, SessionTypeOK, SessionOK, InMarket, Stub
<1>2. PICK r \in Sides : /\ r = Sign(remaining) /\ Size(remaining) \in Nat /\ -r \in Sides
                         /\ Ahead(r, remaining) = Size(remaining)
  BY <1>1, SignOf
<1>3. "flat-" \in Kinds /\ "rflat-" \in Kinds /\ "rflat-" # "flat-"
  BY DEF Kinds
<1>4. PICK t \in Markets : t = ticker
  BY <1>1
<1>5. Crossing(Order(t, "flat-", -r), Size(remaining))
  BY <1>1, <1>2, <1>4
<1>6. /\ \A u \in Markets, k \in Kinds, d \in Sides :
           u # t \/ k # "flat-" \/ d # -r => At(u, k, d)' = At(u, k, d)
      /\ \A u \in Markets : u # t => position'[u] = position[u]
  BY <1>1, <1>2, <1>3, <1>5, OthersStay
<1>7. SessionOK'
  <2>1. \A u \in Markets : u # t => (NoneAt(u)' <=> NoneAt(u))
    BY <1>6 DEF NoneAt
  <2>2. Only({"rflat-", "flat-"})'
    BY <1>6 DEF SessionInv, SessionOK, Only
  <2>3. \A u \in Markets \ excused, d \in Sides : ~(At(u, "rflat-", d)' > 0)
    BY <1>1, <1>3, <1>6 DEF SessionInv, SessionOK, CleanOthers
  <2>4. CleanUnread'
    BY <1>1, <1>4, <1>6, <2>1 DEF SessionInv, SessionOK, CleanUnread
  <2> QED
    BY <1>1, <2>2, <2>3, <2>4
       DEF SessionInv, SessionOK, CleanExit, CleanOthers, Flattening, InMarket
<1>8. ASSUME NEW u \in Markets, u # t  PROVE MarketOK(u)'
  <2>1. /\ Same(u) /\ ~Stubbed(u) /\ ~Stubbed(u)' /\ (u \in todo' => u \in todo)
        /\ Unread(u)' => Unread(u)
    BY <1>1, <1>3, <1>4, <1>6, <1>8 DEF Same, Stubbed, Unread
  <2> QED  BY <1>1, <2>1, MarketStays DEF SessionInv, MarketsOK
<1>9. MarketOK(t)'
  <2>1. /\ RestingExit(t) \in Nat /\ CrossedRest(t) \in Nat /\ Front(t) \in Int
        /\ against[t] \in Nat /\ Side(t) \in Sides /\ -Side(t) \in Sides
        /\ \A d \in Sides : d = Side(t) \/ d = -Side(t)
    BY <1>1, <1>4, Numbers DEF SessionInv
  <2>2. Side(t)' = Side(t) /\ RestingExit(t)' = RestingExit(t)
    BY <1>1, <1>3, <1>4, <1>6, <2>1 DEF Side, RestingExit
  <2>3. Out(t) = CrossedRest(t) + RestingExit(t) /\ Out(t)' = CrossedRest(t)' + RestingExit(t)'
        /\ Planned(t)' = 0 /\ ~Unread(t)'
    BY <1>1, <1>4 DEF Out, Canceling, Planned, Stubbed, Unread
  <2>4. Out(t) + Planned(t) <= Front(t) + against[t]
    BY <1>1, <1>4 DEF SessionInv, MarketsOK, MarketOK
  <2>5. /\ At(t, "flat-", -r) \in Nat /\ At(t, "flat-", -r)' \in Nat /\ position[t] \in Int
        /\ position'[t] \in Int
        /\ At(t, "flat-", -r)' - At(t, "flat-", -r) \in 0..Size(remaining)
        /\ Ahead(-r, position'[t]) - Ahead(-r, position[t]) >= 0
        /\ (At(t, "flat-", -r)' - At(t, "flat-", -r))
             + (Ahead(-r, position'[t]) - Ahead(-r, position[t])) <= Size(remaining)
    BY <1>1, <1>2, <1>3, <1>5, CreateAt
  <2>6. CASE r = Side(t)
    <3>1. CrossedRest(t) = At(t, "flat-", -r) /\ CrossedRest(t)' = At(t, "flat-", -r)'
      BY <2>2, <2>6 DEF CrossedRest
    <3>2. Planned(t) = Size(remaining)
      <4>1. Size(remaining) > 0
        BY <1>1 DEF Size
      <4> QED  BY <1>1, <1>2, <1>4, <2>6, <4>1 DEF Planned, Stubbed
    <3>3. /\ Front(t) = -Ahead(-r, position[t]) /\ Front(t)' = -Ahead(-r, position'[t])
      BY <1>2, <2>2, <2>5, <2>6 DEF Front, Ahead, Sides
    <3>4. Ahead(-r, position[t]) \in Int /\ Ahead(-r, position'[t]) \in Int
      BY <2>5 DEF Ahead
    <3>5. Out(t)' + Planned(t)' <= Front(t)' + against[t]
      BY <1>2, <2>1, <2>2, <2>3, <2>4, <2>5, <3>1, <3>2, <3>3, <3>4
    <3> QED  BY <1>1, <2>3, <3>5 DEF MarketOK
  <2>7. CASE r = -Side(t)
    <3>1. -r = Side(t) /\ Side(t) # -Side(t)
      BY <2>1, <2>7 DEF Sides
    <3>2. CrossedRest(t)' = CrossedRest(t)
      BY <1>3, <1>6, <2>1, <2>2, <3>1 DEF CrossedRest
    <3>3. Front(t) = Ahead(-r, position[t]) /\ Front(t)' = Ahead(-r, position'[t])
      BY <2>2, <3>1 DEF Front
    <3>4. Front(t)' \in Int /\ Front(t)' >= Front(t)
      BY <2>1, <2>5, <3>3 DEF Ahead
    <3>5. Planned(t) \in Nat
      BY <1>1, <1>4, PlannedIsNat DEF SessionInv
    <3> QED  BY <1>1, <2>1, <2>2, <2>3, <2>4, <3>2, <3>4, <3>5 DEF MarketOK
  <2> QED  BY <1>2, <2>1, <2>6, <2>7
<1> QED  BY <1>4, <1>7, <1>8, <1>9 DEF MarketsOK

(* An order at rest trades; what flatten does not hear of is counted.      *)
LEMMA ExitTradesKeeps ==
  ASSUME SessionInv, SessionTypes', NEW o \in Orders, ExitTrades(o)
  PROVE  SessionOK' /\ MarketsOK'
<1>1. PICK t \in Markets, k \in Kinds, d \in Sides : o = Order(t, k, d)
  BY OrderIs
<1>2. /\ UNCHANGED <<sPc, tickers, todo, remaining, ticker, held, excused>>
      /\ FillAtRest(Order(t, k, d)) /\ AccountTypeOK
      /\ todo \subseteq Markets /\ against \in [Markets -> Nat]
  BY <1>1 DEF ExitTrades, exit, SessionInv, SessionTypes, SessionTypeOK
<1>3. Adds(t, k, d, -1, d) /\ At(t, k, d) > 0 /\ d \in Int /\ -1 \in Int
  BY <1>2, TradeAdds DEF Sides
<1>4. /\ At(t, k, d)' = At(t, k, d) - 1 /\ position'[t] = position[t] + d
      /\ \A u \in Markets, j \in Kinds, e \in Sides :
           u # t \/ j # k \/ e # d => At(u, j, e)' = At(u, j, e)
      /\ \A u \in Markets : u # t => position'[u] = position[u]
  <2>1. At(t, k, d) \in Nat
    BY <1>2, AtIsNat
  <2>2. At(t, k, d)' = At(t, k, d) + (-1)
    BY <1>2, <1>3, AddsAt
  <2> QED  BY <1>2, <1>3, <2>1, <2>2, AddsAt
<1>5. k \in {"rflat-", "flat-"}
  <2>1. \A u \in Markets, j \in Kinds \ {"rflat-", "flat-"}, e \in Sides : At(u, j, e) = 0
    BY DEF SessionInv, SessionOK, Only
  <2> QED  BY <1>3, <2>1
<1>6. t \notin todo \ excused
  BY <1>3 DEF SessionInv, SessionOK, CleanUnread, NoneAt
<1>7. SessionOK'
  <2>1. CleanUnread'
    <3>1. \A u \in Markets : u # t => (NoneAt(u)' <=> NoneAt(u))
      BY <1>4 DEF NoneAt
    <3> QED  BY <1>2, <1>4, <1>6, <3>1 DEF SessionInv, SessionOK, CleanUnread
  <2>2. CleanOthers'
    <3>1. \A u \in Markets, e \in Sides : At(u, "rflat-", e)' > 0 => At(u, "rflat-", e) > 0
      <4>1. \A u \in Markets, e \in Sides : At(u, "rflat-", e) \in Nat
        BY <1>2, AtIsNat DEF Kinds
      <4>2. "rflat-" \in Kinds  BY DEF Kinds
      <4> QED  BY <1>3, <1>4, <4>1, <4>2
    <3> QED  BY <1>2, <3>1 DEF SessionInv, SessionOK, CleanOthers
  <2>3. CleanExit'
    <3> SUFFICES ASSUME sPc = "rest", ticker \notin excused
                 PROVE  /\ RestingExit(ticker)' <= Front(ticker)' /\ At(ticker, "rflat-", Side(ticker))' = 0
                        /\ \A e \in Sides : At(ticker, "flat-", e)' = 0
      BY <1>2 DEF CleanExit, Side
    <3>1. /\ RestingExit(ticker) <= Front(ticker) /\ At(ticker, "rflat-", Side(ticker)) = 0
          /\ \A e \in Sides : At(ticker, "flat-", e) = 0
      BY DEF SessionInv, SessionOK, CleanExit
    <3>2. ticker \in Markets /\ held[ticker] # 0
      BY DEF SessionInv, SessionOK, InMarket, SessionTypes, SessionTypeOK
    <3>3. /\ Side(ticker) \in Sides /\ -Side(ticker) \in Sides /\ Side(ticker)' = Side(ticker)
          /\ RestingExit(ticker) \in Nat /\ Front(ticker) \in Int
          /\ \A e \in Sides : e = Side(ticker) \/ e = -Side(ticker)
          /\ "rflat-" \in Kinds /\ "flat-" \in Kinds
      BY <1>2, <3>2, Numbers DEF SessionInv, Side, Kinds
    <3>4. PICK v \in Markets, s \in Sides, r \in Sides :
            v = ticker /\ s = Side(ticker) /\ r = -Side(ticker) /\ s # r
      BY <3>2, <3>3 DEF Sides
    <3>5. /\ RestingExit(ticker) = At(v, "rflat-", r) /\ RestingExit(ticker)' = At(v, "rflat-", r)'
          /\ Front(ticker) = Ahead(s, position[v]) /\ Front(ticker)' = Ahead(s, position'[v])
          /\ At(ticker, "rflat-", Side(ticker)) = At(v, "rflat-", s)
          /\ At(ticker, "rflat-", Side(ticker))' = At(v, "rflat-", s)'
          /\ \A e \in Sides : /\ At(ticker, "flat-", e) = At(v, "flat-", e)
                             /\ At(ticker, "flat-", e)' = At(v, "flat-", e)'
      BY <1>2, <3>3, <3>4 DEF RestingExit, Front, At
    <3>6. CASE t # v
      BY <1>4, <3>1, <3>3, <3>4, <3>5, <3>6
    <3>7. CASE t = v
      <4>1. k = "rflat-" /\ d = r
        BY <1>3, <1>5, <3>1, <3>3, <3>4, <3>5, <3>7
      <4>2. At(v, "rflat-", s)' = 0 /\ \A e \in Sides : At(v, "flat-", e)' = 0
        BY <1>4, <3>1, <3>3, <3>4, <3>5, <3>7, <4>1
      <4>3. At(v, "rflat-", r)' = At(v, "rflat-", r) - 1
        BY <1>4, <3>7, <4>1
      <4>4. Ahead(s, position'[v]) = Ahead(s, position[v]) - 1
        <5>1. position[v] \in Int /\ position'[v] = position[v] + r /\ r = -s
          BY <1>2, <1>4, <3>4, <3>7, <4>1 DEF AccountTypeOK
        <5> QED  BY <5>1 DEF Ahead, Sides
      <4> QED  BY <3>1, <3>3, <3>5, <4>2, <4>3, <4>4
    <3> QED  BY <3>6, <3>7
  <2>4. Only({"rflat-", "flat-"})'
    BY <1>4, <1>5 DEF SessionInv, SessionOK, Only
  <2> QED
    BY <1>2, <2>1, <2>2, <2>3, <2>4 DEF SessionInv, SessionOK, Flattening, InMarket
<1>8. ASSUME NEW u \in Markets, u # t  PROVE MarketOK(u)'
  <2>1. against'[u] = against[u]
    <3>1. o = Order(ticker, "rflat-", -Sign(held[ticker])) => ticker = t
      BY <1>1 DEF Order
    <3> QED  BY <1>2, <1>8, <3>1 DEF ExitTrades, SessionInv, SessionTypes
  <2>2. Same(u)
    BY <1>4, <1>8, <2>1 DEF Same, Kinds
  <2> QED  BY <1>2, <2>2, MarketAside DEF SessionInv, MarketsOK
<1>9. MarketOK(t)'
  <2> SUFFICES ASSUME held[t] # 0  PROVE MarketOK(t)'
    BY <1>2 DEF MarketOK
  <2>1. /\ RestingExit(t) \in Nat /\ CrossedRest(t) \in Nat /\ Front(t) \in Int
        /\ against[t] \in Nat /\ Side(t) \in Sides /\ -Side(t) \in Sides
        /\ \A e \in Sides : e = Side(t) \/ e = -Side(t)
        /\ Side(t) # -Side(t) /\ "rflat-" \in Kinds /\ "flat-" \in Kinds /\ position[t] \in Int
    <3>1. Side(t) \in Sides  BY Numbers DEF SessionInv
    <3>2. Side(t) # -Side(t)  BY <3>1 DEF Sides
    <3>3. position[t] \in Int  BY <1>2 DEF AccountTypeOK
    <3> QED  BY <3>2, <3>3, Numbers DEF SessionInv, Kinds
  <2>2. /\ Side(t)' = Side(t) /\ Planned(t)' = Planned(t) /\ Planned(t) \in Nat
        /\ (Unread(t)' <=> Unread(t)) /\ (Canceling(t)' <=> Canceling(t))
    BY <1>2, PlannedIsNat DEF SessionInv, Side, Planned, Stubbed, Unread, Canceling
  <2>3. /\ Out(t) + Planned(t) <= Front(t) + against[t]
        /\ Unread(t) => CrossedRest(t) <= against[t]
    BY DEF SessionInv, MarketsOK, MarketOK
  <2>4. CASE d = Side(t)
    <3>1. RestingExit(t)' = RestingExit(t) /\ CrossedRest(t)' = CrossedRest(t)
      BY <1>4, <2>1, <2>2, <2>4 DEF RestingExit, CrossedRest
    <3>2. Front(t)' = Front(t) + 1
      BY <1>4, <2>1, <2>2, <2>4 DEF Front, Ahead, Sides
    <3>3. UNCHANGED against
      <4>1. o # Order(ticker, "rflat-", -Sign(held[ticker]))
        <5>1. o = Order(ticker, "rflat-", -Sign(held[ticker])) => ticker = t /\ d = -Side(t)
          BY <1>1 DEF Order, Side
        <5> QED  BY <2>1, <2>4, <5>1
      <4> QED  BY <4>1 DEF ExitTrades
    <3>4. Out(t)' = Out(t) /\ Out(t) \in Nat
      BY <2>1, <2>2, <3>1 DEF Out
    <3> QED  BY <2>1, <2>2, <2>3, <3>1, <3>2, <3>3, <3>4 DEF MarketOK
  <2>5. CASE d = -Side(t)
    <3>1. Front(t)' = Front(t) - 1
      BY <1>4, <2>1, <2>2, <2>5 DEF Front, Ahead, Sides
    <3>2. CASE k = "flat-"
      <4>1. CrossedRest(t)' = CrossedRest(t) - 1 /\ RestingExit(t)' = RestingExit(t)
        BY <1>4, <2>1, <2>2, <2>5, <3>2 DEF RestingExit, CrossedRest
      <4>2. UNCHANGED against
        <5>1. o # Order(ticker, "rflat-", -Sign(held[ticker]))
          BY <1>1, <3>2 DEF Order
        <5> QED  BY <5>1 DEF ExitTrades
      <4>3. Out(t)' = Out(t) - 1 /\ Out(t) \in Nat
        BY <2>1, <2>2, <4>1 DEF Out
      <4> QED  BY <2>1, <2>2, <2>3, <3>1, <4>1, <4>2, <4>3 DEF MarketOK
    <3>3. CASE k = "rflat-"
      <4>1. CrossedRest(t)' = CrossedRest(t) /\ RestingExit(t)' = RestingExit(t) - 1
        BY <1>4, <2>1, <2>2, <2>5, <3>3 DEF RestingExit, CrossedRest
      <4>2. CASE Canceling(t)
        <5>1. sPc = "cancel" /\ o = Order(ticker, "rflat-", -Sign(held[ticker])) /\ t = ticker
          BY <1>1, <2>5, <3>3, <4>2 DEF Canceling, Side
        <5>2. against'[t] = against[t] + 1
          BY <1>2, <5>1 DEF ExitTrades
        <5>3. Out(t)' = Out(t) /\ Out(t) \in Nat
          BY <2>1, <2>2, <4>1, <4>2 DEF Out
        <5>4. ~Unread(t)
          BY <5>1, <4>2 DEF Unread, SessionInv, SessionOK, InMarket
        <5> QED  BY <2>1, <2>2, <2>3, <3>1, <5>2, <5>3, <5>4 DEF MarketOK
      <4>3. CASE ~Canceling(t)
        <5>1. UNCHANGED against
          <6>1. sPc = "cancel" => o # Order(ticker, "rflat-", -Sign(held[ticker]))
            BY <1>1, <4>3 DEF Order, Canceling
          <6> QED  BY <6>1 DEF ExitTrades
        <5>2. Out(t)' = Out(t) - 1 /\ Out(t) \in Nat
          BY <2>1, <2>2, <4>1, <4>3 DEF Out
        <5> QED  BY <2>1, <2>2, <2>3, <3>1, <4>1, <5>1, <5>2 DEF MarketOK
      <4> QED  BY <4>2, <4>3
    <3> QED  BY <1>5, <3>2, <3>3
  <2> QED  BY <2>1, <2>4, <2>5
<1> QED  BY <1>7, <1>8, <1>9 DEF MarketsOK

LEMMA SessionBegins ==
  ASSUME AccountInit, SessionInit
  PROVE  SessionInv
<1> USE SessionRunnerAssumption, AccountAssumption
<1>1. AccountTypeOK
  BY DEF AccountInit, AccountTypeOK
<1>2. SessionTypes
  <2>1. /\ failures \in 0..MaxFailures /\ failures < MaxFailures /\ starts \in 1..MaxStarts
        /\ offers \in 0..MaxOffers
    BY DEF SessionInit
  <2>2. timeUp \in BOOLEAN /\ remaining \in Int /\ against \in [Markets -> Nat]
    <3>1. timeUp \in BOOLEAN
      BY Zenon DEF SessionInit
    <3>2. remaining \in Int /\ against \in [Markets -> Nat]
      BY DEF SessionInit
    <3> QED  BY <3>1, <3>2
  <2>3. SessionTypeOK
    BY <2>1, <2>2, Zenon DEF SessionInit, SessionTypeOK
  <2> QED  BY <1>1, <2>1, <2>2, <2>3 DEF SessionTypes
<1>3. \A t \in Markets, k \in Kinds, d \in Sides : At(t, k, d) = 0
  BY TheOrders DEF AccountInit, At
<1>4. SessionOK
  BY <1>3 DEF AccountInit, SessionInit, SessionOK, Only, CleanUnread, CleanExit, CleanOthers,
              Flattening, InMarket, Kinds
<1>5. MarketsOK
  BY DEF AccountInit, MarketsOK, MarketOK
<1> QED  BY <1>2, <1>4, <1>5 DEF SessionInv

(* Nothing of the session moves but the clock.                             *)
LEMMA SessionUnmoved ==
  ASSUME SessionInv, UNCHANGED <<sPc, tickers, todo, remaining, against>>,
         UNCHANGED account, UNCHANGED exit
  PROVE  SessionOK' /\ MarketsOK'
<1>1. /\ \A t, k, d : At(t, k, d)' = At(t, k, d)
      /\ UNCHANGED <<position, held, excused, ticker>>
      /\ \A t : NoneAt(t)' <=> NoneAt(t)
  BY AccountStays
<1>2. \A t : Side(t)' = Side(t) /\ RestingExit(t)' = RestingExit(t) /\ Front(t)' = Front(t)
  BY <1>1 DEF Side, RestingExit, Front
<1>3. SessionOK'
  BY <1>1, <1>2
     DEF SessionInv, SessionOK, Only, CleanUnread, CleanExit, CleanOthers, Flattening, InMarket
<1>4. ASSUME NEW t \in Markets  PROVE MarketOK(t)'
  <2>1. Same(t)
    BY <1>1 DEF Same
  <2> QED  BY <1>1, <2>1, MarketAside DEF SessionInv, MarketsOK
<1> QED  BY <1>3, <1>4 DEF MarketsOK

LEMMA SessionKeeps ==
  ASSUME SessionInv, SessionStep
  PROVE  SessionInv'
<1>1. SessionTypes'
  BY SessionTypesKept
<1>2. CASE Deadline
  <2>1. UNCHANGED <<sPc, tickers, todo, remaining, against>> /\ UNCHANGED account /\ UNCHANGED exit
    BY <1>2 DEF Deadline, cycle
  <2> QED  BY <1>1, <2>1, SessionUnmoved DEF SessionInv
<1> QED
  BY <1>1, <1>2, RunnerWaits, ChildKeeps, PositionsKeeps, NextTickerKeeps, RemainingKeeps,
     CancelExitKeeps, CrossKeeps, ExitTradesKeeps
     DEF SessionInv, SessionStep, Runner

-----------------------------------------------------------------------------
(* The taker test.                                                         *)

TakerKinds == {"tlt-in-", "tlt-rest-", "tlt-flat-"}
Entered == tPc \in {"measure", "hold", "exit", "poll", "cancel", "flatten"}
Unrested == tPc \in {"measure", "hold", "exit", "flatten"}

(* A trade begins with nothing at rest in its market, or it is excused; it *)
(* rests its exit, which closes no more than what is held, after its entry *)
(* and crosses after that exit is gone.                                    *)
TakerOK ==
  /\ Only(TakerKinds)
  /\ tPc \notin {"start", "top", "ended"} => ticker \in Markets
  /\ \A t \in Markets \ excused, d \in Sides :
       Entered /\ t = ticker => At(t, "tlt-flat-", d) = 0
  /\ tPc = "exit" => held[ticker] # 0
  /\ \A t \in Markets \ excused :
       tPc = "exit" /\ t = ticker => Ahead(Sign(held[t]), position[t]) >= Size(held[t])
  /\ \A t \in Markets \ excused, d \in Sides :
       At(t, "tlt-rest-", d) > 0 => t = ticker /\ tPc \in {"poll", "cancel", "ended"}

TakerTypes == AccountTypeOK /\ TakerTypeOK

TakerInv == TakerTypes /\ TakerOK /\ ExitsCovered

LEMMA TakerTypesKept ==
  ASSUME TakerInv, TakerStep
  PROVE  TakerTypes'
<1> USE TakerAssumption DEF TakerInv, TakerTypes
<1>1. TakerTypeOK'
  <2>1. CASE Enter
    <3>1. CASE UNCHANGED <<trades, owed>>
      BY <2>1, <3>1 DEF Enter, TakerTypeOK
    <3>2. CASE trades < MaxTrades /\ trades' = trades + 1 /\ owed' = owed \cup {ticker}
               /\ tPc' = "measure"
      <4>1. ticker \in Markets  BY <2>1 DEF Enter, TakerOK
      <4>2. trades' \in 0..MaxTrades  BY <3>2 DEF TakerTypeOK
      <4> QED  BY <2>1, <3>2, <4>1, <4>2 DEF Enter, TakerTypeOK
    <3> QED  BY <2>1, <3>1, <3>2 DEF Enter, CheckTrades
  <2>2. CASE Starts \/ Wait \/ Measure \/ Hold \/ RestExit \/ Poll
    BY <2>2 DEF Starts, Wait, Measure, Hold, RestExit, Poll, Uncaught, TakerTypeOK
  <2>3. CASE CancelRest \/ Flatten \/ Balance
    BY <2>3 DEF CancelRest, Flatten, Balance, Uncaught, TakerTypeOK
  <2>4. CASE \E o \in Orders : OrderTrades(o)
    BY <2>4 DEF OrderTrades, taker, TakerTypeOK
  <2> QED  BY <2>1, <2>2, <2>3, <2>4 DEF TakerStep
<1>2. AccountTypeOK'
  <2>1. CASE Starts \/ Wait \/ Measure \/ Poll \/ Balance
    BY <2>1 DEF Starts, Wait, Measure, Poll, Balance, account, exit, AccountTypeOK
  <2>2. CASE Enter
    <3>1. ticker \in Markets /\ dir \in Sides /\ "tlt-in-" \in Kinds /\ CountScale \in Nat
      BY <2>2 DEF Enter, TakerOK, TakerTypeOK, Sides, Kinds
    <3>2. Order(ticker, "tlt-in-", dir) \in Orders
      BY <3>1, TheOrders
    <3>3. UNCHANGED account \/ Crossing(Order(ticker, "tlt-in-", dir), CountScale)
      BY <2>2 DEF Enter
    <3>4. /\ position' \in [Markets -> Int] /\ resting' \in [Orders -> Nat]
          /\ placed' \in 0..MaxPlaced
      BY <3>1, <3>2, <3>3, CreateTypes, CancelTypes
    <3>5. ticker' = ticker /\ held' \in [Markets -> Int] /\ excused' \subseteq Markets
      BY <2>2, <3>1 DEF Enter, Excuse, AccountTypeOK
    <3> QED  BY <3>4, <3>5 DEF AccountTypeOK
  <2>3. CASE Hold
    <3>1. ticker \in Markets  BY <2>3 DEF Hold, TakerOK
    <3>2. held' \in [Markets -> Int]
      BY <2>3, <3>1 DEF Hold, AccountTypeOK
    <3> QED  BY <2>3, <3>2 DEF Hold, account, AccountTypeOK
  <2>4. CASE RestExit
    <3>1. ticker \in Markets /\ held[ticker] \in Int /\ held[ticker] # 0
      BY <2>4 DEF RestExit, TakerOK, AccountTypeOK
    <3>2. -Sign(held[ticker]) \in Sides /\ Size(held[ticker]) \in Nat /\ "tlt-rest-" \in Kinds
      BY <3>1, SignOf DEF Kinds
    <3>3. Order(ticker, "tlt-rest-", -Sign(held[ticker])) \in Orders
      BY <3>1, <3>2, TheOrders
    <3>4. UNCHANGED account
          \/ PostOnly(Order(ticker, "tlt-rest-", -Sign(held[ticker])), Size(held[ticker]))
      BY <2>4 DEF RestExit
    <3>5. /\ position' \in [Markets -> Int] /\ resting' \in [Orders -> Nat]
          /\ placed' \in 0..MaxPlaced
      BY <3>2, <3>3, <3>4, CreateTypes, CancelTypes
    <3>6. UNCHANGED <<ticker, held>> /\ excused' \subseteq Markets
      BY <2>4, <3>1 DEF RestExit, Excuse, AccountTypeOK
    <3> QED  BY <3>5, <3>6 DEF AccountTypeOK
  <2>5. CASE CancelRest
    <3>1. ticker \in Markets  BY <2>5 DEF CancelRest, TakerOK
    <3>2. CancelAll(RestingExits) \/ UNCHANGED account
      BY <2>5 DEF CancelRest
    <3>3. UNCHANGED <<ticker, held>> /\ excused' \subseteq Markets
      BY <2>5, <3>1 DEF CancelRest, Excuse, AccountTypeOK
    <3> QED  BY <3>2, <3>3, CancelTypes DEF AccountTypeOK
  <2>6. CASE Flatten
    <3>1. UNCHANGED exit  BY <2>6 DEF Flatten
    <3>2. CASE UNCHANGED account
      BY <3>1, <3>2 DEF account, exit, AccountTypeOK
    <3>3. CASE /\ position[ticker] # 0
               /\ Crossing(Order(ticker, "tlt-flat-", -Sign(position[ticker])),
                           Whole(Size(position[ticker])))
      <4>1. ticker \in Markets /\ position[ticker] \in Int
        BY <2>6 DEF Flatten, TakerOK, AccountTypeOK
      <4>2. /\ -Sign(position[ticker]) \in Sides /\ Size(position[ticker]) \in Nat
            /\ "tlt-flat-" \in Kinds
        BY <3>3, <4>1, SignOf DEF Kinds
      <4>3. Whole(Size(position[ticker])) \in Nat
        BY <4>2 DEF Whole
      <4>4. Order(ticker, "tlt-flat-", -Sign(position[ticker])) \in Orders
        BY <4>1, <4>2, TheOrders
      <4> QED  BY <3>1, <3>3, <4>3, <4>4, CreateTypes DEF exit, AccountTypeOK
    <3> QED  BY <2>6, <3>2, <3>3 DEF Flatten
  <2>7. ASSUME NEW o \in Orders, OrderTrades(o)  PROVE AccountTypeOK'
    BY <2>7, TradeTypes DEF OrderTrades, exit, AccountTypeOK
  <2> QED  BY <2>1, <2>2, <2>3, <2>4, <2>5, <2>6, <2>7 DEF TakerStep
<1> QED  BY <1>1, <1>2

(* What rests once the exit is in the market, by what is covered.          *)
LEMMA ClosedIsFlat ==
  ASSUME AccountTypeOK, NEW t \in Markets, NEW s \in Sides, Covered(t, s), position[t] = 0
  PROVE  \A k \in ExitKinds, d \in Sides : At(t, k, d) = 0
<1>1. -s \in Sides /\ \A d \in Sides : d = s \/ d = -s
  BY DEF Sides
<1>2. ExitKinds = {"rflat-", "flat-", "tlt-rest-", "tlt-flat-"} /\ ExitKinds \subseteq Kinds
  BY DEF Kinds, ExitKinds
<1>3. \A k \in ExitKinds : At(t, k, -s) \in Nat
  BY <1>1, <1>2, AtIsNat
<1>4. Exiting(t, -s) <= 0
  BY DEF Covered, Ahead
<1>5. \A k \in ExitKinds : At(t, k, -s) = 0
  <2>1. /\ At(t, "rflat-", -s) \in Nat /\ At(t, "flat-", -s) \in Nat
        /\ At(t, "tlt-rest-", -s) \in Nat /\ At(t, "tlt-flat-", -s) \in Nat
    BY <1>2, <1>3
  <2>2. /\ At(t, "rflat-", -s) = 0 /\ At(t, "flat-", -s) = 0
        /\ At(t, "tlt-rest-", -s) = 0 /\ At(t, "tlt-flat-", -s) = 0
    BY <1>4, <2>1 DEF Exiting
  <2> QED  BY <1>2, <2>2
<1> QED
  BY <1>1, <1>5 DEF Covered

(* The steps that only read.                                               *)
LEMMA TakerReads ==
  ASSUME TakerInv, TakerTypes', Starts \/ Wait \/ Measure \/ Poll \/ Balance
  PROVE  TakerOK' /\ ExitsCovered'
<1>1. UNCHANGED account /\ UNCHANGED <<held, excused>> /\ AccountTypeOK
  BY DEF Starts, Wait, Measure, Poll, Balance, exit, TakerInv, TakerTypes
<1>2. UNCHANGED position /\ \A t, k, d : At(t, k, d)' = At(t, k, d)
  BY <1>1 DEF account, At
<1>3. ASSUME NEW t \in Markets \ excused'  PROVE \E s \in Sides : Covered(t, s)'
  <2>1. PICK s \in Sides : Covered(t, s)
    BY <1>1 DEF TakerInv, ExitsCovered
  <2> QED  BY <1>1, <1>2, <2>1, CoveredSame
<1>4. ExitsCovered'
  BY <1>3 DEF ExitsCovered
<1>5. CASE Starts \/ Wait \/ Measure \/ Balance
  <2>1. Only(TakerKinds)'
    BY <1>2 DEF TakerInv, TakerOK, Only
  <2>2. CASE Starts
    BY <1>1, <1>2, <1>4, <2>1, <2>2 DEF TakerInv, TakerOK, Starts, Uncaught, Entered, exit
  <2>3. CASE Wait
    BY <1>1, <1>2, <1>4, <2>1, <2>3 DEF TakerInv, TakerOK, Wait, Uncaught, Entered, exit
  <2>4. CASE Measure
    BY <1>1, <1>2, <1>4, <2>1, <2>4 DEF TakerInv, TakerOK, Measure, Uncaught, Entered, exit
  <2>5. CASE Balance
    BY <1>1, <1>2, <1>4, <2>1, <2>5 DEF TakerInv, TakerOK, Balance, Uncaught, Entered, exit
  <2> QED  BY <1>5, <2>2, <2>3, <2>4, <2>5
<1>6. CASE Poll
  <2>1. /\ tPc = "poll" /\ UNCHANGED ticker /\ ticker \in Markets
        /\ \/ position[ticker] = 0 /\ tPc' = "flatten"
           \/ tPc' \in {"cancel", "ended"}
    BY <1>6 DEF Poll, Uncaught, exit, TakerInv, TakerOK
  <2>2. ASSUME tPc' = "flatten", ticker \notin excused
        PROVE  \A d \in Sides : At(ticker, "tlt-rest-", d) = 0
    <3>1. PICK s \in Sides : Covered(ticker, s)
      BY <2>1, <2>2 DEF TakerInv, ExitsCovered
    <3>2. "tlt-rest-" \in ExitKinds  BY DEF ExitKinds, Kinds
    <3> QED  BY <1>1, <2>1, <2>2, <3>1, <3>2, ClosedIsFlat
  <2>3. \A t \in Markets \ excused, d \in Sides :
          At(t, "tlt-rest-", d) > 0 => t = ticker /\ tPc' \in {"cancel", "ended"}
    <3>1. \A t \in Markets \ excused, d \in Sides : At(t, "tlt-rest-", d) > 0 => t = ticker
      BY DEF TakerInv, TakerOK
    <3> QED  BY <2>1, <2>2, <3>1
  <2> QED
    BY <1>1, <1>2, <1>4, <2>1, <2>3 DEF TakerInv, TakerOK, Only, Entered
<1> QED  BY <1>5, <1>6

(* The entry is sent, or the loop ends before it.                          *)
LEMMA EnterKeeps ==
  ASSUME TakerInv, TakerTypes', Enter
  PROVE  TakerOK' /\ ExitsCovered'
<1>1. /\ UNCHANGED <<dir, ticker>> /\ tPc = "guard" /\ AccountTypeOK /\ AccountTypeOK'
      /\ ticker \in Markets /\ dir \in Sides /\ -dir \in Sides /\ CountScale \in Nat
  BY TakerAssumption
     DEF Enter, TakerInv, TakerTypes, TakerTypeOK, TakerOK, Sides
<1>2. CASE tPc' = "ended" /\ UNCHANGED <<trades, owed, held, excused, account>>
  <2>1. \A t, k, d : At(t, k, d)' = At(t, k, d)
    BY <1>2 DEF account, At
  <2>2. ExitsCovered'
    BY <1>1, <1>2, CoverStays DEF TakerInv, exit
  <2> QED
    BY <1>1, <1>2, <2>1, <2>2 DEF TakerInv, TakerOK, Only, Entered
<1>3. ASSUME Crossing(Order(ticker, "tlt-in-", dir), CountScale),
             held' = [held EXCEPT ![ticker] = 0],
             IF position[ticker] # 0 \/ \E o \in Orders : o.ticker = ticker /\ resting[o] > 0
             THEN Excuse ELSE UNCHANGED excused,
             tPc' \in {"measure", "top"}
      PROVE  TakerOK' /\ ExitsCovered'
  <2>1. PICK t \in Markets : t = ticker
    BY <1>1
  <2>2. "tlt-in-" \in Kinds /\ "tlt-rest-" \in Kinds /\ "tlt-flat-" \in Kinds
    BY DEF Kinds
  <2>3. Crossing(Order(t, "tlt-in-", dir), CountScale)
    BY <1>3, <2>1
  <2>4. /\ \A u \in Markets, k \in Kinds, d \in Sides :
             u # t \/ k # "tlt-in-" => At(u, k, d)' = At(u, k, d)
        /\ \A u \in Markets : u # t => position'[u] = position[u]
        /\ At(t, "tlt-in-", -dir)' = At(t, "tlt-in-", -dir)
    <3>1. -dir # dir  BY <1>1 DEF Sides
    <3> QED  BY <1>1, <2>2, <2>3, <3>1, OthersStay
  <2>5. excused \subseteq excused'
    BY <1>3 DEF Excuse
  <2>6. t \notin excused' => NoneAt(t) /\ position[t] = 0
    <3> SUFFICES ASSUME t \notin excused' PROVE NoneAt(t) /\ position[t] = 0
      OBVIOUS
    <3>1. position[t] = 0 /\ \A o \in Orders : o.ticker = t => ~(resting[o] > 0)
      BY <1>3, <2>1 DEF Excuse
    <3>2. ASSUME NEW k \in Kinds, NEW d \in Sides PROVE At(t, k, d) = 0
      <4>1. ~(At(t, k, d) > 0)
        BY <3>1, TheOrders DEF At
      <4>2. At(t, k, d) \in Nat
        BY <1>1, AtIsNat
      <4> QED  BY <4>1, <4>2
    <3> QED  BY <3>1, <3>2 DEF NoneAt
  <2>7. Only(TakerKinds)'
    BY <2>4 DEF TakerInv, TakerOK, Only, TakerKinds
  <2>8. \A u \in Markets \ excused', d \in Sides : ~(At(u, "tlt-rest-", d)' > 0)
    BY <1>1, <2>2, <2>4, <2>5 DEF TakerInv, TakerOK
  <2>9. \A d \in Sides : t \notin excused' => At(t, "tlt-flat-", d)' = 0
    BY <2>2, <2>4, <2>6 DEF NoneAt
  <2>10. TakerOK'
    BY <1>1, <1>3, <2>1, <2>7, <2>8, <2>9 DEF TakerOK, Entered
  <2>11. ASSUME NEW u \in Markets \ excused', u # t  PROVE \E r \in Sides : Covered(u, r)'
    <3>1. PICK r \in Sides : Covered(u, r)
      BY <2>5 DEF TakerInv, ExitsCovered
    <3>2. held'[u] = held[u]
      BY <1>1, <1>3, <2>1, <2>11 DEF AccountTypeOK
    <3> QED  BY <2>4, <2>11, <3>1, <3>2, CoveredSame
  <2>12. ASSUME t \notin excused'  PROVE Covered(t, dir)'
    <3>1. \A k \in ExitKinds, d \in Sides : At(t, k, d)' = 0
      BY <2>4, <2>6, <2>12 DEF NoneAt, ExitKinds
    <3>2. At(t, "tlt-in-", -dir)' = 0
      BY <1>1, <2>2, <2>4, <2>6, <2>12 DEF NoneAt
    <3>3. Ahead(dir, position'[t]) >= 0
      <4>1. CASE UNCHANGED account
        BY <2>6, <2>12, <4>1 DEF account, Ahead
      <4>2. ASSUME NEW done \in 0..CountScale,
                   Adds(t, "tlt-in-", dir, CountScale - done, Ahead(dir, done))
            PROVE  Ahead(dir, position'[t]) >= 0
        <5>1. CountScale - done \in Int /\ Ahead(dir, done) \in Int
          BY <1>1 DEF Ahead
        <5>2. position'[t] = position[t] + Ahead(dir, done)
          BY <1>1, <2>2, <4>2, <5>1, AddsAt
        <5> QED  BY <2>6, <2>12, <5>2 DEF Ahead
      <4> QED  BY <1>1, <2>2, <2>3, <4>1, <4>2, CreateAdds
    <3>4. Exiting(t, -dir)' = 0
      <4>1. {"rflat-", "flat-", "tlt-rest-", "tlt-flat-"} \subseteq ExitKinds
        BY DEF ExitKinds, Kinds
      <4>2. \A k \in ExitKinds : At(t, k, -dir)' = 0
        BY <1>1, <3>1
      <4>3. /\ At(t, "rflat-", -dir)' = 0 /\ At(t, "flat-", -dir)' = 0
            /\ At(t, "tlt-rest-", -dir)' = 0 /\ At(t, "tlt-flat-", -dir)' = 0
        BY <4>1, <4>2
      <4> QED  BY <4>3 DEF Exiting
    <3>5. held'[t] = 0
      BY <1>1, <1>3, <2>1 DEF AccountTypeOK
    <3>6. Ahead(dir, held'[t]) >= 0
      BY <3>5 DEF Ahead
    <3> QED  BY <1>1, <3>1, <3>2, <3>3, <3>4, <3>6 DEF Covered
  <2>13. dir' = dir /\ dir \in Sides
    BY <1>1
  <2> QED  BY <2>10, <2>11, <2>12, <2>13 DEF ExitsCovered
<1> QED  BY <1>2, <1>3 DEF Enter

(* The position is read: what is held from here on is what is exited.      *)
LEMMA HoldKeeps ==
  ASSUME TakerInv, TakerTypes', Hold
  PROVE  TakerOK' /\ ExitsCovered'
<1>1. /\ UNCHANGED account /\ UNCHANGED <<ticker, excused>> /\ tPc = "hold"
      /\ AccountTypeOK /\ ticker \in Markets
  BY DEF Hold, TakerInv, TakerTypes, TakerOK
<1>2. UNCHANGED position /\ \A t, k, d : At(t, k, d)' = At(t, k, d)
  BY <1>1 DEF account, At
<1>3. Only(TakerKinds)'
  BY <1>2 DEF TakerInv, TakerOK, Only
<1>4. CASE tPc' = "ended" /\ UNCHANGED held
  <2>1. ExitsCovered'
    BY <1>1, <1>4, CoverStays DEF TakerInv, exit
  <2> QED
    BY <1>1, <1>2, <1>3, <1>4, <2>1 DEF TakerInv, TakerOK, Entered
<1>5. CASE /\ held' = [held EXCEPT ![ticker] = position[ticker]]
           /\ tPc' = IF held'[ticker] = 0 THEN "flatten" ELSE "exit"
  <2>1. held'[ticker] = position[ticker] /\ position[ticker] \in Int
        /\ \A t \in Markets : t # ticker => held'[t] = held[t]
    BY <1>1, <1>5 DEF AccountTypeOK
  <2>2. tPc' = "exit" => Ahead(Sign(held'[ticker]), position[ticker]) >= Size(held'[ticker])
    <3> SUFFICES ASSUME tPc' = "exit"
                 PROVE  Ahead(Sign(position[ticker]), position[ticker]) >= Size(position[ticker])
      BY <2>1
    <3>1. position[ticker] # 0
      BY <1>5, <2>1
    <3>2. /\ Ahead(Sign(position[ticker]), position[ticker]) = Size(position[ticker])
          /\ Size(position[ticker]) \in Nat
      BY <2>1, <3>1, SignOf
    <3> QED  BY <3>2
  <2>3. tPc' \in {"flatten", "exit"} /\ (tPc' = "exit" => held'[ticker] # 0)
    BY <1>5
  <2>4. /\ \A t \in Markets \ excused, d \in Sides : t = ticker => At(t, "tlt-flat-", d) = 0
        /\ \A t \in Markets \ excused, d \in Sides : ~(At(t, "tlt-rest-", d) > 0)
    BY <1>1 DEF TakerInv, TakerOK, Entered
  <2>5. TakerOK'
    BY <1>1, <1>2, <1>3, <2>2, <2>3, <2>4 DEF TakerOK, Entered
  <2>6. ASSUME NEW t \in Markets \ excused  PROVE \E s \in Sides : Covered(t, s)'
    <3>1. PICK s \in Sides : Covered(t, s)
      BY DEF TakerInv, ExitsCovered
    <3>2. Ahead(s, held'[t]) >= 0
      <4>1. Ahead(s, position[t]) >= 0 /\ Ahead(s, held[t]) >= 0
        BY <1>1, <3>1, CoveredIsRight DEF Covered
      <4> QED  BY <2>1, <4>1
    <3>3. -s \in Sides /\ ExitKinds \subseteq Kinds /\ "tlt-in-" \in Kinds
      BY DEF Sides, Kinds, ExitKinds
    <3>4. Exiting(t, -s)' = Exiting(t, -s)
      BY <1>2 DEF Exiting
    <3>5. Covered(t, s)'
      BY <1>2, <3>1, <3>2, <3>3, <3>4 DEF Covered
    <3> QED  BY <3>5
  <2> QED  BY <1>1, <2>5, <2>6 DEF ExitsCovered
<1> QED  BY <1>4, <1>5 DEF Hold, Uncaught

(* Before an exit is sent nothing else closes its market.                  *)
LEMMA NothingCloses ==
  ASSUME TakerInv, Unrested, ticker \in Markets, ticker \notin excused
  PROVE  \A d \in Sides : Exiting(ticker, d) = 0 /\ \A k \in ExitKinds : At(ticker, k, d) = 0
<1>1. \A k \in Kinds, d \in Sides : At(ticker, k, d) \in Nat
  BY AtIsNat DEF TakerInv, TakerTypes
<1>2. \A d \in Sides : At(ticker, "tlt-flat-", d) = 0
  BY DEF TakerInv, TakerOK, Unrested, Entered
<1>3. \A d \in Sides : At(ticker, "tlt-rest-", d) = 0
  <2>1. \A d \in Sides : ~(At(ticker, "tlt-rest-", d) > 0)
    BY DEF TakerInv, TakerOK, Unrested
  <2>2. \A d \in Sides : At(ticker, "tlt-rest-", d) \in Nat
    BY <1>1 DEF Kinds
  <2> QED  BY <2>1, <2>2
<1>4. \A d \in Sides : At(ticker, "rflat-", d) = 0 /\ At(ticker, "flat-", d) = 0
  BY DEF TakerInv, TakerOK, Only, TakerKinds, Kinds
<1>5. ExitKinds = {"rflat-", "flat-", "tlt-rest-", "tlt-flat-"}
  BY DEF ExitKinds, Kinds
<1>6. \A d \in Sides, k \in ExitKinds : At(ticker, k, d) = 0
  BY <1>2, <1>3, <1>4, <1>5
<1>7. \A d \in Sides : Exiting(ticker, d) = 0
  BY <1>2, <1>3, <1>4 DEF Exiting
<1> QED  BY <1>6, <1>7

(* The exit is put to rest, or not.                                        *)
LEMMA RestExitKeeps ==
  ASSUME TakerInv, TakerTypes', RestExit
  PROVE  TakerOK' /\ ExitsCovered'
<1>1. /\ UNCHANGED <<ticker, held>> /\ tPc = "exit" /\ AccountTypeOK /\ ticker \in Markets
      /\ excused \subseteq excused' /\ held[ticker] \in Int /\ held[ticker] # 0
  BY DEF RestExit, TakerInv, TakerTypes, TakerOK, Excuse, AccountTypeOK
<1>2. CASE tPc' = "flatten" /\ UNCHANGED <<excused, account>>
  <2>1. \A t, k, d : At(t, k, d)' = At(t, k, d)
    BY <1>2 DEF account, At
  <2>2. ExitsCovered'
    BY <1>1, <1>2, CoverStays DEF TakerInv, exit
  <2>3. \A t \in Markets \ excused, d \in Sides : ~(At(t, "tlt-rest-", d) > 0)
    BY <1>1 DEF TakerInv, TakerOK
  <2> QED
    BY <1>1, <1>2, <2>1, <2>2, <2>3 DEF TakerInv, TakerOK, Only, Entered
<1>3. ASSUME PostOnly(Order(ticker, "tlt-rest-", -Sign(held[ticker])), Size(held[ticker])),
             \/ tPc' = "poll" /\ UNCHANGED excused
             \/ tPc' = "flatten" /\ Excuse
      PROVE  TakerOK' /\ ExitsCovered'
  <2>1. PICK t \in Markets : t = ticker
    BY <1>1
  <2>2. PICK s \in Sides : /\ s = Sign(held[t]) /\ -s \in Sides /\ Size(held[t]) \in Nat
                           /\ \A r \in Sides : Ahead(r, held[t]) >= 0 => r = s
    BY <1>1, <2>1, SignOf
  <2>3. PostOnly(Order(t, "tlt-rest-", -s), Size(held[t]))
    BY <1>3, <2>1, <2>2
  <2>4. /\ "tlt-rest-" \in Kinds /\ "tlt-rest-" \in ExitKinds /\ "tlt-flat-" \in Kinds
        /\ "tlt-flat-" # "tlt-rest-"
    BY DEF Kinds, ExitKinds
  <2>5. /\ \A u \in Markets, k \in Kinds, d \in Sides :
             u # t \/ k # "tlt-rest-" => At(u, k, d)' = At(u, k, d)
        /\ \A u \in Markets : u # t => position'[u] = position[u]
    BY <1>1, <2>2, <2>3, <2>4, OthersStay
  <2>6. Only(TakerKinds)'
    BY <2>5 DEF TakerInv, TakerOK, Only, TakerKinds
  <2>7. \A u \in Markets \ excused', d \in Sides :
          /\ u = t => At(u, "tlt-flat-", d)' = 0
          /\ At(u, "tlt-rest-", d)' > 0 => u = t /\ tPc' = "poll"
    <3>1. \A u \in Markets \ excused, d \in Sides :
            /\ u = t => At(u, "tlt-flat-", d) = 0
            /\ ~(At(u, "tlt-rest-", d) > 0)
      BY <1>1, <2>1 DEF TakerInv, TakerOK, Entered
    <3>2. tPc' # "poll" => t \in excused'
      BY <1>3, <2>1 DEF Excuse
    <3> QED  BY <1>1, <2>4, <2>5, <3>1, <3>2
  <2>8. TakerOK'
    BY <1>1, <1>3, <2>1, <2>6, <2>7 DEF TakerOK, Entered
  <2>9. ASSUME NEW u \in Markets \ excused'  PROVE \E r \in Sides : Covered(u, r)'
    <3>1. PICK r \in Sides : Covered(u, r)
      BY <1>1 DEF TakerInv, ExitsCovered
    <3>2. CASE u # t
      BY <1>1, <2>5, <3>1, <3>2, CoveredSame
    <3>3. CASE u = t
      <4>1. r = s
        BY <2>2, <3>1, <3>3 DEF Covered
      <4>2. Exiting(t, -s) = 0
        BY <1>1, <2>1, <2>2, <3>3, NothingCloses DEF Unrested
      <4>3. Ahead(s, position[t]) >= Size(held[t])
        BY <1>1, <2>1, <2>2, <3>3 DEF TakerInv, TakerOK
      <4>4. Exiting(t, -s) + Size(held[t]) <= Ahead(s, position[t])
        <5>1. Ahead(s, position[t]) \in Int
          BY <1>1 DEF Ahead, AccountTypeOK
        <5> QED  BY <2>2, <4>2, <4>3, <5>1
      <4> QED
        BY <1>1, <2>2, <2>3, <2>4, <3>1, <3>3, <4>1, <4>4, CreateKeepsCovered
    <3> QED  BY <3>2, <3>3
  <2> QED  BY <2>8, <2>9 DEF ExitsCovered
<1> QED  BY <1>2, <1>3 DEF RestExit

(* The exit at rest is canceled, or the market is excused.                 *)
LEMMA CancelRestKeeps ==
  ASSUME TakerInv, TakerTypes', CancelRest
  PROVE  TakerOK' /\ ExitsCovered'
<1>1. /\ UNCHANGED <<ticker, held>> /\ tPc = "cancel" /\ tPc' \in {"flatten", "ended"}
      /\ AccountTypeOK /\ ticker \in Markets /\ excused \subseteq excused'
      /\ CancelAll(RestingExits) \/ UNCHANGED account
      /\ ticker \notin excused' => CancelAll(RestingExits)
  BY DEF CancelRest, Uncaught, TakerInv, TakerTypes, TakerOK, Excuse
<1>2. \A u \in Markets, k \in Kinds, d \in Sides :
        At(u, k, d)' \in Nat /\ At(u, k, d) \in Nat /\ At(u, k, d)' <= At(u, k, d)
  BY <1>1, AtIsNat, TheOrders DEF CancelAll, At, account
<1>3. /\ \A u \in Markets, k \in Kinds, d \in Sides : At(u, k, d) = 0 => At(u, k, d)' = 0
      /\ \A u \in Markets, k \in Kinds, d \in Sides : At(u, k, d)' > 0 => At(u, k, d) > 0
  BY <1>2
<1>4. ticker \notin excused' => \A d \in Sides : At(ticker, "tlt-rest-", d)' = 0
  <2>1. \A d \in Sides : /\ Order(ticker, "tlt-rest-", d) \in RestingExits
                         /\ Order(ticker, "tlt-rest-", d) \in Orders
    BY <1>1, TheOrders DEF RestingExits, RestingOf, Kinds
  <2> QED  BY <1>1, <2>1 DEF CancelAll, At
<1>5. Only(TakerKinds)'
  BY <1>3 DEF TakerInv, TakerOK, Only
<1>6. "tlt-rest-" \in Kinds /\ "tlt-flat-" \in Kinds
  BY DEF Kinds
<1>7. \A t \in Markets \ excused', d \in Sides : ~(At(t, "tlt-rest-", d)' > 0)
  <2>1. \A t \in Markets \ excused, d \in Sides : At(t, "tlt-rest-", d) > 0 => t = ticker
    BY DEF TakerInv, TakerOK
  <2>2. ASSUME NEW t \in Markets \ excused', NEW d \in Sides, At(t, "tlt-rest-", d)' > 0
        PROVE  FALSE
    <3>1. At(t, "tlt-rest-", d) > 0  BY <1>3, <1>6, <2>2
    <3>2. t = ticker  BY <1>1, <2>1, <3>1
    <3>3. At(t, "tlt-rest-", d)' = 0  BY <1>1, <1>4, <3>2, <2>2
    <3> QED  BY <2>2, <3>3
  <2> QED  BY <2>2
<1>8. \A t \in Markets \ excused', d \in Sides : t = ticker => At(t, "tlt-flat-", d)' = 0
  BY <1>1, <1>3, <1>6 DEF TakerInv, TakerOK, Entered
<1>9. TakerOK'
  BY <1>1, <1>5, <1>7, <1>8 DEF TakerOK, Entered
<1>10. ASSUME NEW t \in Markets \ excused'  PROVE \E s \in Sides : Covered(t, s)'
  <2>1. PICK s \in Sides : Covered(t, s)
    BY <1>1 DEF TakerInv, ExitsCovered
  <2> QED  BY <1>1, <2>1, CancelKeepsCovered
<1> QED  BY <1>9, <1>10 DEF ExitsCovered

LEMMA WholeIsLess ==
  ASSUME NEW n \in Nat
  PROVE  Whole(n) \in Nat /\ Whole(n) <= n
<1>1. CountScale \in Nat /\ CountScale > 0
  BY TakerAssumption
<1>2. n \div CountScale \in Nat
  BY <1>1
<1>3. n = CountScale * (n \div CountScale) + (n % CountScale) /\ n % CountScale \in Nat
  BY <1>1
<1>4. ASSUME NEW q \in Nat, NEW r \in Nat, NEW c \in Nat, n = c * q + r
      PROVE  q * c \in Nat /\ q * c <= n
  BY <1>4
<1> QED  BY <1>1, <1>2, <1>3, <1>4 DEF Whole

(* What is left is crossed, in whole contracts.                            *)
LEMMA FlattenKeeps ==
  ASSUME TakerInv, TakerTypes', Flatten
  PROVE  TakerOK' /\ ExitsCovered'
<1>1. /\ UNCHANGED <<ticker, held, excused>> /\ tPc = "flatten" /\ tPc' \in {"ended", "balance"}
      /\ AccountTypeOK /\ ticker \in Markets /\ position[ticker] \in Int
  BY DEF Flatten, Uncaught, exit, TakerInv, TakerTypes, TakerOK, AccountTypeOK
<1>2. \A u \in Markets \ excused, d \in Sides : ~(At(u, "tlt-rest-", d) > 0)
  BY <1>1 DEF TakerInv, TakerOK
<1>3. CASE UNCHANGED account
  <2>1. \A t, k, d : At(t, k, d)' = At(t, k, d)
    BY <1>3 DEF account, At
  <2>2. ExitsCovered'
    BY <1>1, <1>3, CoverStays DEF TakerInv, exit
  <2> QED
    BY <1>1, <1>2, <2>1, <2>2 DEF TakerInv, TakerOK, Only, Entered
<1>4. ASSUME position[ticker] # 0,
             Crossing(Order(ticker, "tlt-flat-", -Sign(position[ticker])),
                      Whole(Size(position[ticker])))
      PROVE  TakerOK' /\ ExitsCovered'
  <2>1. PICK t \in Markets : t = ticker
    BY <1>1
  <2>2. PICK s \in Sides : /\ s = Sign(position[t]) /\ -s \in Sides /\ Size(position[t]) \in Nat
                           /\ Ahead(s, position[t]) = Size(position[t])
                           /\ \A r \in Sides : Ahead(r, position[t]) >= 0 => r = s
    BY <1>1, <1>4, <2>1, SignOf
  <2>3. PICK n \in Nat : n = Whole(Size(position[t])) /\ n <= Size(position[t])
    BY <2>2, WholeIsLess
  <2>4. Crossing(Order(t, "tlt-flat-", -s), n)
    BY <1>4, <2>1, <2>2, <2>3
  <2>5. /\ "tlt-rest-" \in Kinds /\ "tlt-flat-" \in ExitKinds /\ "tlt-flat-" \in Kinds
        /\ "tlt-flat-" # "tlt-rest-"
    BY DEF Kinds, ExitKinds
  <2>6. /\ \A u \in Markets, k \in Kinds, d \in Sides :
             u # t \/ k # "tlt-flat-" => At(u, k, d)' = At(u, k, d)
        /\ \A u \in Markets : u # t => position'[u] = position[u]
    BY <1>1, <2>2, <2>4, <2>5, OthersStay
  <2>7. Only(TakerKinds)'
    BY <2>6 DEF TakerInv, TakerOK, Only, TakerKinds
  <2>8. \A u \in Markets \ excused, d \in Sides : ~(At(u, "tlt-rest-", d)' > 0)
    BY <1>2, <2>5, <2>6
  <2>9. TakerOK'
    BY <1>1, <2>7, <2>8 DEF TakerOK, Entered
  <2>10. ASSUME NEW u \in Markets \ excused  PROVE \E r \in Sides : Covered(u, r)'
    <3>1. PICK r \in Sides : Covered(u, r)
      BY DEF TakerInv, ExitsCovered
    <3>2. CASE u # t
      BY <1>1, <2>6, <3>1, <3>2, CoveredSame
    <3>3. CASE u = t
      <4>1. r = s
        BY <1>1, <2>2, <3>1, <3>3, CoveredIsRight
      <4>2. Exiting(t, -s) = 0
        BY <1>1, <2>1, <2>2, <3>3, NothingCloses DEF Unrested
      <4>3. Exiting(t, -s) + n <= Ahead(s, position[t])
        BY <2>2, <2>3, <4>2
      <4> QED
        BY <1>1, <2>2, <2>4, <2>5, <3>1, <3>3, <4>1, <4>3, CreateKeepsCovered
    <3> QED  BY <3>2, <3>3
  <2> QED  BY <1>1, <2>9, <2>10 DEF ExitsCovered
<1> QED  BY <1>3, <1>4 DEF Flatten

(* An order at rest trades; what is to be exited may only grow.            *)
LEMMA OrderTradesKeeps ==
  ASSUME TakerInv, TakerTypes', NEW o \in Orders, OrderTrades(o)
  PROVE  TakerOK' /\ ExitsCovered'
<1>1. PICK t \in Markets, k \in Kinds, d \in Sides : o = Order(t, k, d)
  BY OrderIs
<1>2. /\ UNCHANGED <<tPc, dir, trades, owed, ticker, held, excused>>
      /\ FillAtRest(Order(t, k, d)) /\ AccountTypeOK
  BY <1>1 DEF OrderTrades, taker, exit, TakerInv, TakerTypes
<1>3. Adds(t, k, d, -1, d) /\ -1 \in Int /\ d \in Int /\ At(t, k, d) > 0
  BY <1>2, TradeAdds DEF Sides
<1>4. /\ At(t, k, d)' = At(t, k, d) - 1 /\ position'[t] = position[t] + d
      /\ \A u \in Markets, j \in Kinds, e \in Sides :
           u # t \/ j # k \/ e # d => At(u, j, e)' = At(u, j, e)
      /\ \A u \in Markets : u # t => position'[u] = position[u]
  <2>1. ASSUME NEW n \in Int, NEW q \in Int, Adds(t, k, d, n, q)
        PROVE  At(t, k, d)' = At(t, k, d) + n /\ position'[t] = position[t] + q
    BY <1>2, <2>1, AddsAt
  <2>2. At(t, k, d)' = At(t, k, d) + (-1) /\ position'[t] = position[t] + d
    BY <1>3, <2>1
  <2>3. At(t, k, d) \in Nat
    BY <1>2, AtIsNat
  <2>4. At(t, k, d)' = At(t, k, d) - 1
    BY <2>2, <2>3
  <2>5. 0 \in Nat  OBVIOUS
  <2> QED  BY <1>2, <2>2, <2>4, <2>5, OthersStay
<1>5. \A u \in Markets, j \in Kinds, e \in Sides :
        At(u, j, e) \in Nat /\ At(u, j, e)' \in Nat /\ At(u, j, e)' <= At(u, j, e)
  <2>1. \A u \in Markets, j \in Kinds, e \in Sides : At(u, j, e) \in Nat
    BY <1>2, AtIsNat
  <2>2. At(t, k, d)' \in Nat /\ At(t, k, d) \in Nat /\ At(t, k, d)' <= At(t, k, d)
    <3>1. At(t, k, d) \in Nat  BY <2>1
    <3>2. At(t, k, d)' = At(t, k, d) - 1  BY <1>4
    <3> QED  BY <1>3, <3>1, <3>2
  <2>3. \A u \in Markets, j \in Kinds, e \in Sides :
          u # t \/ j # k \/ e # d => At(u, j, e)' = At(u, j, e)
    BY <1>4
  <2> QED  BY <2>1, <2>2, <2>3
<1>6. /\ \A u \in Markets, j \in Kinds, e \in Sides : At(u, j, e) = 0 => At(u, j, e)' = 0
      /\ \A u \in Markets, j \in Kinds, e \in Sides : At(u, j, e)' > 0 => At(u, j, e) > 0
  BY <1>5
<1>7. Only(TakerKinds)'
  BY <1>6 DEF TakerInv, TakerOK, Only
<1>8. ASSUME NEW u \in Markets \ excused, tPc = "exit", u = ticker
      PROVE  Ahead(Sign(held[u]), position'[u]) >= Size(held[u])
  <2>1. Ahead(Sign(held[u]), position[u]) >= Size(held[u])
    BY <1>8 DEF TakerInv, TakerOK
  <2>2. CASE u # t
    BY <1>4, <2>1, <2>2
  <2>3. CASE u = t
    <3>1. held[t] \in Int /\ held[t] # 0 /\ position[t] \in Int
      BY <1>2, <1>8, <2>3 DEF TakerInv, TakerOK, AccountTypeOK
    <3>2. k = "tlt-in-"
      <4>1. \A e \in ExitKinds : At(t, e, d) = 0
        BY <1>8, <2>3, NothingCloses DEF Unrested
      <4> QED  BY <1>3, <4>1 DEF ExitKinds
    <3>3. PICK s \in Sides : Covered(t, s)
      BY <1>8, <2>3 DEF TakerInv, ExitsCovered
    <3>4. d = s
      BY <1>3, <3>2, <3>3 DEF Covered, Sides
    <3>5. Sign(held[t]) = d /\ Size(held[t]) \in Nat
      BY <3>1, <3>3, <3>4, SignOf DEF Covered
    <3>6. Ahead(d, position[t] + d) = Ahead(d, position[t]) + 1 /\ Ahead(d, position[t]) \in Int
      BY <3>1 DEF Ahead, Sides
    <3>7. Ahead(d, position[t]) >= Size(held[t])
      BY <2>1, <2>3, <3>5
    <3>8. Ahead(d, position'[t]) >= Size(held[t])
      BY <1>4, <3>5, <3>6, <3>7
    <3> QED  BY <2>3, <3>5, <3>8
  <2> QED  BY <2>2, <2>3
<1>9. /\ \A u \in Markets \ excused, e \in Sides :
           Entered /\ u = ticker => At(u, "tlt-flat-", e)' = 0
      /\ \A u \in Markets \ excused, e \in Sides :
           At(u, "tlt-rest-", e)' > 0 => u = ticker /\ tPc \in {"poll", "cancel", "ended"}
  <2>1. "tlt-rest-" \in Kinds /\ "tlt-flat-" \in Kinds
    BY DEF Kinds
  <2> QED  BY <1>6, <2>1 DEF TakerInv, TakerOK
<1>10. TakerOK'
  <2>1. \A u \in Markets \ excused :
          tPc = "exit" /\ u = ticker => Ahead(Sign(held[u]), position'[u]) >= Size(held[u])
    BY <1>8
  <2> QED  BY <1>2, <1>7, <1>9, <2>1 DEF TakerInv, TakerOK, Entered
<1>11. ASSUME NEW u \in Markets \ excused  PROVE \E r \in Sides : Covered(u, r)'
  <2>1. PICK r \in Sides : Covered(u, r)
    BY DEF TakerInv, ExitsCovered
  <2> QED  BY <1>2, <2>1, TradeKeepsCovered
<1> QED  BY <1>2, <1>10, <1>11 DEF ExitsCovered

LEMMA TakerBegins ==
  ASSUME AccountInit, TakerInit
  PROVE  TakerInv
<1> USE TakerAssumption, AccountAssumption
<1>1. AccountTypeOK
  BY DEF AccountInit, AccountTypeOK
<1>2. TakerTypeOK
  BY DEF TakerInit, TakerTypeOK
<1>3. \A t \in Markets, k \in Kinds, d \in Sides : At(t, k, d) = 0
  BY TheOrders DEF AccountInit, At
<1>4. TakerOK
  <2>1. "tlt-rest-" \in Kinds
    BY DEF Kinds
  <2> QED  BY <1>3, <2>1 DEF TakerInit, TakerOK, Only, Entered
<1>5. ExitsCovered
  <2>1. 1 \in Sides /\ -1 \in Sides
    BY DEF Sides
  <2>2. ASSUME NEW t \in Markets PROVE Covered(t, 1)
    <3>1. ExitKinds \subseteq Kinds /\ "tlt-in-" \in Kinds
          /\ {"rflat-", "flat-", "tlt-rest-", "tlt-flat-"} \subseteq Kinds
      BY DEF Kinds, ExitKinds
    <3>2. Exiting(t, -1) = 0
      BY <1>3, <2>1, <3>1 DEF Exiting
    <3>3. held[t] = 0 /\ position[t] = 0
      BY DEF AccountInit
    <3> QED  BY <1>3, <2>1, <3>1, <3>2, <3>3 DEF Covered, Ahead
  <2> QED  BY <2>1, <2>2 DEF ExitsCovered
<1> QED  BY <1>1, <1>2, <1>4, <1>5 DEF TakerInv, TakerTypes

LEMMA TakerKeeps ==
  ASSUME TakerInv, TakerStep
  PROVE  TakerInv'
<1>1. TakerTypes'
  BY TakerTypesKept
<1> QED
  BY <1>1, TakerReads, EnterKeeps, HoldKeeps, RestExitKeeps, CancelRestKeeps, FlattenKeeps,
     OrderTradesKeeps DEF TakerInv, TakerStep

-----------------------------------------------------------------------------
(* The program that runs keeps its invariant, the others never begin.      *)

ProgramInv ==
  /\ IF program = "session" THEN SessionInv ELSE SessionInit
  /\ IF program = "taker" THEN TakerInv ELSE TakerInit
  /\ program \notin {"session", "taker"} => AccountInit

LEMMA IdleStays ==
  /\ SessionInit /\ UNCHANGED session => SessionInit'
  /\ TakerInit /\ UNCHANGED taker => TakerInit'
  /\ AccountInit /\ UNCHANGED account /\ UNCHANGED exit => AccountInit'
BY DEF SessionInit, TakerInit, AccountInit, session, cycle, taker, account, exit

LEMMA SessionStays ==
  ASSUME SessionInv, UNCHANGED session, UNCHANGED account, UNCHANGED exit
  PROVE  SessionInv'
<1>1. /\ UNCHANGED <<sPc, reason, failures, tickers, todo, remaining, against, timeUp, starts>>
      /\ UNCHANGED <<offers, halted>>
  BY DEF session, cycle
<1>2. AccountTypeOK'
  BY DEF SessionInv, SessionTypes, AccountTypeOK, account, exit
<1>3. SessionTypes'
  BY <1>1, <1>2 DEF SessionInv, SessionTypes, SessionTypeOK
<1> QED  BY <1>1, <1>3, SessionUnmoved DEF SessionInv

LEMMA TakerStays ==
  ASSUME TakerInv, UNCHANGED taker, UNCHANGED account, UNCHANGED exit
  PROVE  TakerInv'
<1>1. UNCHANGED <<tPc, dir, trades, owed>>
  BY DEF taker
<1>2. AccountTypeOK'
  BY DEF TakerInv, TakerTypes, AccountTypeOK, account, exit
<1>3. TakerTypes'
  BY <1>1, <1>2 DEF TakerInv, TakerTypes, TakerTypeOK
<1>4. ExitsCovered'
  BY CoverStays DEF TakerInv
<1>5. TakerOK'
  BY <1>1, AccountStays DEF TakerInv, TakerOK, Only, Entered
<1> QED  BY <1>3, <1>4, <1>5 DEF TakerInv

LEMMA ProgramKeeps ==
  ASSUME ProgramInv, [Next]_vars
  PROVE  ProgramInv'
<1>1. CASE program = "session"
  <2>1. SessionInv /\ TakerInit
    BY <1>1 DEF ProgramInv
  <2>2. /\ UNCHANGED program /\ UNCHANGED taker
        /\ SessionStep \/ (UNCHANGED session /\ UNCHANGED account /\ UNCHANGED exit)
    BY <1>1 DEF Next, vars
  <2>3. SessionInv'
    BY <2>1, <2>2, SessionKeeps, SessionStays
  <2>4. TakerInit'
    BY <2>1, <2>2, IdleStays
  <2> QED  BY <1>1, <2>2, <2>3, <2>4 DEF ProgramInv
<1>2. CASE program = "taker"
  <2>1. TakerInv /\ SessionInit
    BY <1>2 DEF ProgramInv
  <2>2. /\ UNCHANGED program /\ UNCHANGED session
        /\ TakerStep \/ (UNCHANGED taker /\ UNCHANGED account /\ UNCHANGED exit)
    BY <1>2 DEF Next, vars
  <2>3. TakerInv'
    BY <2>1, <2>2, TakerKeeps, TakerStays
  <2>4. SessionInit'
    BY <2>1, <2>2, IdleStays
  <2> QED  BY <1>2, <2>2, <2>3, <2>4 DEF ProgramInv
<1>3. CASE program \notin {"session", "taker"}
  <2>1. /\ UNCHANGED program /\ UNCHANGED session /\ UNCHANGED taker
        /\ UNCHANGED account /\ UNCHANGED exit
    BY <1>3 DEF Next, vars
  <2> QED  BY <1>3, <2>1, IdleStays DEF ProgramInv
<1> QED  BY <1>1, <1>2, <1>3

LEMMA ProgramBegins == Init => ProgramInv
<1> SUFFICES ASSUME Init PROVE ProgramInv
  OBVIOUS
<1>1. AccountInit /\ SessionInit /\ TakerInit
  BY DEF Init
<1>2. SessionInv /\ TakerInv
  BY <1>1, SessionBegins, TakerBegins
<1> QED  BY <1>1, <1>2 DEF ProgramInv

LEMMA ProgramTyped == ProgramInv => AccountTypeOK /\ SessionTypeOK /\ TakerTypeOK
<1> SUFFICES ASSUME ProgramInv PROVE AccountTypeOK /\ SessionTypeOK /\ TakerTypeOK
  OBVIOUS
<1>1. AccountTypeOK
  <2>1. AccountInit => AccountTypeOK
    BY AccountAssumption DEF AccountInit, AccountTypeOK
  <2> QED  BY <2>1 DEF ProgramInv, SessionInv, SessionTypes, TakerInv, TakerTypes
<1>2. SessionTypeOK
  <2>1. SessionInit => SessionTypeOK
    BY SessionRunnerAssumption DEF SessionInit, SessionTypeOK
  <2> QED  BY <2>1 DEF ProgramInv, SessionInv, SessionTypes
<1>3. TakerTypeOK
  <2>1. TakerInit => TakerTypeOK
    BY TakerAssumption DEF TakerInit, TakerTypeOK
  <2> QED  BY <2>1 DEF ProgramInv, TakerInv, TakerTypes
<1> QED  BY <1>1, <1>2, <1>3

LEMMA ProgramReversesLittle == ProgramInv => ExitsReverseLittle
<1> SUFFICES ASSUME ProgramInv PROVE ExitsReverseLittle
  OBVIOUS
<1>1. ASSUME NEW o \in Orders, resting[o] > 0
      PROVE  /\ o.ticker \in Markets /\ o.dir \in Sides
             /\ At(o.ticker, o.kind, o.dir) > 0
  BY <1>1, OrderIs DEF At
<1>2. ASSUME program = "session"  PROVE FlattenReversesLittle /\ FlattenLeavesNoExit
  <2>1. SessionInv
    BY <1>2 DEF ProgramInv
  <2>2. FlattenLeavesNoExit
    <3> SUFFICES ASSUME sPc \in {"top", "sleep", "child"}, NEW o \in Orders,
                        o.kind = "rflat-", resting[o] > 0, o.ticker \notin excused
                 PROVE  FALSE
      BY DEF FlattenLeavesNoExit
    <3> QED  BY <1>1, <2>1 DEF SessionInv, SessionOK, CleanOthers
  <2> QED  BY <2>1, <2>2, MarketsBounded DEF SessionInv
<1>3. ASSUME program = "taker"  PROVE TakerNeverReverses /\ TakerLeavesNoExit
  <2>1. TakerInv
    BY <1>3 DEF ProgramInv
  <2>2. ASSUME NEW t \in Markets \ excused  PROVE held[t] * position[t] >= 0
    <3>1. PICK s \in Sides : Covered(t, s)
      BY <2>1 DEF TakerInv, ExitsCovered
    <3> QED  BY <2>1, <3>1, CoveredIsRight DEF TakerInv, TakerTypes
  <2>3. TakerLeavesNoExit
    <3> SUFFICES ASSUME tPc = "top", NEW o \in Orders,
                        o.kind = "tlt-rest-", resting[o] > 0, o.ticker \notin excused
                 PROVE  FALSE
      BY DEF TakerLeavesNoExit
    <3> QED  BY <1>1, <2>1 DEF TakerInv, TakerOK
  <2> QED  BY <2>2, <2>3 DEF TakerNeverReverses
<1> QED
  BY <1>2, <1>3 DEF ExitsReverseLittle

LatchTypeOK == latched \in BOOLEAN

LEMMA LatchTyped ==
  ASSUME LatchTypeOK, [Next]_vars
  PROVE  LatchTypeOK'
<1>1. UNCHANGED latched \/ latched' = (latched \/ code' = "halt")
  BY DEF Next, vars, watching, MonitorStep, Check, Unreachable, Sleep
<1> QED  BY <1>1, Zenon DEF LatchTypeOK

(* The types of all four programs.                                         *)
THEOREM UnattendedTypes == Spec => []TypeOK
<1>1. Init => LatchTypeOK
  BY Zenon DEF Init, MonitorInit, LatchTypeOK
<1>2. ProgramInv /\ LatchTypeOK => TypeOK
  BY ProgramTyped, Zenon DEF TypeOK, LatchTypeOK
<1> QED
  BY <1>1, <1>2, ProgramBegins, ProgramKeeps, LatchTyped, PTL DEF Spec

(* For any markets and sizes, windows traded again and again, and wherever *)
(* orders trade between the calls: flatten turns a position the other way  *)
(* round by no more than what was at rest against it before, what its exit *)
(* traded between the reading of what remains and the cancel, and what a   *)
(* failed cancel left; the taker test never does; and neither leaves an    *)
(* exit at rest for the next cycle or trade, unless one of its calls       *)
(* failed there or an order or a position was there before it.             *)
THEOREM ReversedLittle == Spec => []ExitsReverseLittle
BY ProgramBegins, ProgramKeeps, ProgramReversesLittle, PTL DEF Spec
=============================================================================
