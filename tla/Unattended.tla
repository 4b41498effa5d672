------------------------------ MODULE Unattended -------------------------------
(***************************************************************************)
(* The programs that run without a person at hand: the session runner, the *)
(* taker test and the campaign monitor, each on an account of its own, and *)
(* the collector of recordings.                                            *)
(***************************************************************************)
EXTENDS SessionRunner, TakerTest, CampaignWatch, Recording

VARIABLE program

vars == <<program, session, taker, watching, exit, account, recording>>

Init ==
  /\ program \in {"session", "taker", "monitor", "collector"}
  /\ AccountInit /\ SessionInit /\ TakerInit /\ MonitorInit /\ RecordingInit
  /\ program # "monitor" =>
       elapsed = 0 /\ args = [watch |-> FALSE, quotes |-> 0, floor |-> FALSE, cap |-> FALSE]
  /\ program # "collector" =>
       options = [websocket |-> FALSE, bucket |-> FALSE, keepLocal |-> FALSE]

Next ==
  /\ UNCHANGED program
  /\ \/ program = "session" /\ SessionStep /\ UNCHANGED <<taker, watching, recording>>
     \/ program = "taker" /\ TakerStep /\ UNCHANGED <<session, watching, recording>>
     \/ /\ program = "monitor" /\ MonitorStep
        /\ UNCHANGED <<session, taker, exit, account, recording>>
     \/ /\ program = "collector" /\ RecordingStep
        /\ UNCHANGED <<session, taker, watching, exit, account>>

(* A call of the runner answers or raises: none waits for ever.  A cycle   *)
(* of the collector is bounded in time by --duration-sec.                  *)
Spec ==
  /\ Init /\ [][Next]_vars
  /\ WF_vars(program = "session" /\ Runner /\ UNCHANGED <<program, taker, watching, recording>>)
  /\ WF_vars(/\ program = "collector" /\ (Collector \/ Bounded)
             /\ UNCHANGED <<program, session, taker, watching, exit, account>>)

-----------------------------------------------------------------------------
TypeOK == AccountTypeOK /\ SessionTypeOK /\ TakerTypeOK /\ latched \in BOOLEAN

(* However the orders of an exit trade between its calls: flatten turns a  *)
(* position the other way round by no more than was at rest against it, or *)
(* traded between its reading and its cancel; the taker test, which reads  *)
(* the position again after its cancel (taker_live_test.py:423), never     *)
(* does, and none of either is left at rest for the next cycle or trade,   *)
(* unless a call failed or an order not looked for was there before.       *)
ExitsReverseLittle ==
  /\ program = "session" => FlattenReversesLittle /\ FlattenLeavesNoExit
  /\ program = "taker" => TakerNeverReverses /\ TakerLeavesNoExit

(* After a floor or a permanent stop, or a halt of the monitor, nothing    *)
(* runs again without a person, whatever balance, supervisor or ledger do. *)
(* And once the grace is over no premise of the monitor stays unmeasured:  *)
(* it is measured or halts (campaign.py:306).                              *)
HaltsAreFinal == SessionHaltIsFinal /\ MonitorHaltIsFinal /\ MeasuredOrHalted

(* Once the time is up the session comes to its end, failures, idle        *)
(* windows and a cycle in progress included; and failures never stop the   *)
(* collector, which goes through all its cycles (collect_loop.py:40).      *)
RunsEnd ==
  timeUp \/ program = "collector" ~> sPc = "exited" \/ (cPc = "ended" /\ cycles = MaxCycles)
=============================================================================
