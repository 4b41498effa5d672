----------------------------- MODULE SessionLedger -----------------------------
(***************************************************************************)
(* What scripts/session_runner.py leaves on disk and in the bucket, and    *)
(* the scripts that read it.  A cycle is a child process that appends to   *)
(* the journal of the cycle's number; after it a row goes to the ledger    *)
(* and the journal to the bucket under the name of its arm.  The numbers   *)
(* begin again when the script is started again, and the files stay.  The  *)
(* steps of flatten and the count of failures are those of SessionRunner.  *)
(***************************************************************************)
EXTENDS Integers, FiniteSets, SequencesExt

CONSTANTS
  Family,         \* --series: in the order of priority
  MaxBooks,       \* --max-books
  Arms,           \* --ab-arms
  MaxCycles,      \* bound: cycles of a sitting
  MaxSittings,    \* bound: times the supervisor starts the script
  MaxLines,       \* bound: lines of the journals
  MaxRows         \* bound: rows written, and uploads that succeed

ASSUME SessionLedgerAssumption == MaxCycles \in Nat

VARIABLES
  lPc,            \* where the runner is
  lReason,        \* stop_reason, or "crash"
  sitting,        \* times started
  index,          \* index
  recorded,       \* len(session.cycles)
  cycleNow,       \* the cycle's markets and arm, and whether its file was new
  jrnl,           \* cycleNNN.jsonl: number -> lines
  ledger,         \* ab_ledger.jsonl
  bucket,         \* the journals uploaded: their arm and lines
  made,           \* history: every fill that was to be journalled
  spoiled         \* history: the fills whose line was torn or runs into a torn one

disk == <<jrnl, ledger, bucket, made, spoiled>>
run == <<lReason, sitting, index, recorded, cycleNow>>
ledgerVars == <<lPc, run, disk>>

NoCycle == [venues |-> {}, arm |-> "", first |-> FALSE]

LedgerInit ==
  /\ lPc = "start" /\ lReason = "deadline" /\ sitting = 1 /\ index = 0 /\ recorded = 0
  /\ cycleNow = NoCycle
  /\ jrnl = [i \in 1..MaxCycles |-> <<>>] /\ ledger = <<>> /\ bucket = <<>>
  /\ made = {} /\ spoiled = {}

-----------------------------------------------------------------------------
(* Files of lines.                                                         *)

Torn == [event |-> "torn"]
Glued == [event |-> "glued"]

(* What is appended to a file that ends in the middle of a line is one     *)
(* line with it, and no JSON.                                              *)
RunsIntoTorn(lines) == lines # <<>> /\ Last(lines) = Torn
Extended(lines, l) == IF RunsIntoTorn(lines) THEN [lines EXCEPT ![Len(lines)] = Glued]
                      ELSE Append(lines, l)

(* read_journal, and load of ab_report: the lines they read, by their      *)
(* number; one that is no JSON is skipped.                                 *)
ReadJournal(lines) == {k \in DOMAIN lines : lines[k].event \notin {"torn", "glued"}}
FillsIn(lines) == {k \in ReadJournal(lines) : lines[k].event = "filled"}

-----------------------------------------------------------------------------
(* The runner.                                                             *)

GoOn(pc) == lPc' = pc /\ UNCHANGED lReason
Exit(why) == lPc' = "exited" /\ lReason' = why

FirstBalance ==
  /\ lPc = "start" /\ (GoOn("top") \/ Exit("crash"))
  /\ UNCHANGED <<sitting, index, recorded, cycleNow, disk>>

(* live_windows: the best series first; one that cannot be asked, or has   *)
(* no two-sided market with enough time left and not too much, is passed   *)
(* over.                                                                   *)
LiveWindows(open) ==
  {Family[i] : i \in {i \in DOMAIN Family :
     Family[i] \in open /\ Cardinality({j \in 1..i : Family[j] \in open}) <= MaxBooks}}

(* Faulty: the arms take turns by the cycles that were recorded.           *)
ArmAfterRecorded(i) == Arms[1 + (recorded % Len(Arms))]

ArmOf(i) == Arms[1 + ((i - 1) % Len(Arms))]

StopsAtTop ==
  /\ lPc = "top"
  /\ Exit("deadline") \/ Exit("floor") \/ Exit("permanent")
  /\ UNCHANGED <<sitting, index, recorded, cycleNow, disk>>

(* OrderJournal opens the file of the number to append.                    *)
StartCycle ==
  /\ lPc = "top" /\ index < MaxCycles
  /\ index' = index + 1
  /\ \E open \in SUBSET Range(Family) :
       /\ LiveWindows(open) # {}
       /\ cycleNow' = [venues |-> LiveWindows(open), arm |-> ArmOf(index'),
                       first |-> jrnl[index'] = <<>>]
  /\ GoOn("child")
  /\ UNCHANGED <<sitting, recorded, jrnl, ledger, bucket, made, spoiled>>

(* The child journals: an order placed or canceled and the mids of the     *)
(* market (aside), or a fill, with the mid when the book has two sides.    *)
Line(event, venue, mid) ==
  [event |-> event, venue |-> venue, mid |-> mid, n |-> Cardinality(made),
   of |-> <<sitting, index>>, arm |-> cycleNow.arm]

Written == FoldFunction(LAMBDA lines, n : n + Len(lines), 0, jrnl)

Aside == [event |-> "aside", of |-> <<sitting, index>>]

Writes ==
  /\ lPc = "child" /\ Written < MaxLines
  /\ \/ /\ jrnl' = [jrnl EXCEPT ![index] = Extended(@, Aside)]
        /\ UNCHANGED <<made, spoiled>>
     \/ \E v \in cycleNow.venues, mid \in BOOLEAN :
          LET l == Line("filled", v, mid)
          IN  /\ jrnl' = [jrnl EXCEPT ![index] = Extended(@, l)]
              /\ made' = made \cup {l}
              /\ spoiled' = spoiled \cup (IF RunsIntoTorn(jrnl[index]) THEN {l} ELSE {})
  /\ UNCHANGED <<lPc, run, ledger, bucket>>

(* The child ends; a failed cycle has no row.  After flatten the cycle is   *)
(* recorded whether or not the balance can be read.                        *)
ChildDone ==
  /\ lPc = "child"
  /\ \/ GoOn("row") /\ UNCHANGED cycleNow
     \/ (GoOn("top") \/ Exit("permanent")) /\ cycleNow' = NoCycle
  /\ UNCHANGED <<sitting, index, recorded, disk>>

(* journal_markout.                                                        *)
CountedFills(lines) == Cardinality(FillsIn(lines))

Row ==
  [event |-> "row", of |-> <<sitting, index>>, arm |-> cycleNow.arm,
   fills |-> CountedFills(jrnl[index]), first |-> cycleNow.first]

(* The cycle is recorded, the row is written or cannot be.                 *)
RecordRow ==
  /\ lPc = "row" /\ GoOn("upload") /\ recorded' = recorded + 1
  /\ ledger' \in {ledger} \cup
       (IF Cardinality(ReadJournal(ledger)) < MaxRows THEN {Extended(ledger, Row)} ELSE {})
  /\ UNCHANGED <<sitting, index, cycleNow, jrnl, bucket, made, spoiled>>

(* The whole file goes under a name that no other upload has.              *)
Upload ==
  /\ lPc = "upload" /\ GoOn("top")
  /\ cycleNow' = NoCycle
  /\ bucket' \in {bucket} \cup
       (IF Len(bucket) < MaxRows
        THEN {Append(bucket, [arm |-> cycleNow.arm, lines |-> jrnl[index],
                              first |-> cycleNow.first])} ELSE {})
  /\ UNCHANGED <<sitting, index, recorded, jrnl, ledger, made, spoiled>>

-----------------------------------------------------------------------------
(* The runner and its child are killed, perhaps within a line.             *)
Killed ==
  /\ lPc # "exited" /\ sitting < MaxSittings /\ Exit("crash") /\ cycleNow' = NoCycle
  /\ \/ UNCHANGED disk
     \/ /\ lPc = "child" /\ ~RunsIntoTorn(jrnl[index])
        /\ jrnl' = [jrnl EXCEPT ![index] = Append(@, Torn)]
        /\ UNCHANGED <<ledger, bucket, made, spoiled>>
     \/ /\ lPc = "row" /\ ~RunsIntoTorn(ledger)
        /\ ledger' = Append(ledger, Torn) /\ UNCHANGED <<jrnl, bucket, made, spoiled>>
  /\ UNCHANGED <<sitting, index, recorded>>

(* The supervisor starts it again after a deadline and after a crash.      *)
StartedAgain ==
  /\ lPc = "exited" /\ lReason \in {"deadline", "crash"} /\ sitting < MaxSittings
  /\ sitting' = sitting + 1 /\ lPc' = "start" /\ lReason' = "deadline"
  /\ index' = 0 /\ recorded' = 0
  /\ UNCHANGED <<cycleNow, disk>>

LedgerStep ==
  \/ FirstBalance \/ StopsAtTop \/ StartCycle \/ Writes \/ ChildDone
  \/ RecordRow \/ Upload \/ Killed \/ StartedAgain

-----------------------------------------------------------------------------
(* The readers.                                                            *)

(* session_report: the fills of a venue in all the journals.               *)
VenueFills(v) ==
  UNION {{<<i, k>> : k \in {n \in FillsIn(jrnl[i]) : jrnl[i][n].venue = v}} : i \in DOMAIN jrnl}

(* ab_report: the rows of an arm.                                          *)
ArmRows(a) == {k \in ReadJournal(ledger) : ledger[k].arm = a}

(* markout_slices: the fills of a file that have a mid, their arm by its   *)
(* name, and the time from the first line of the file, which is of another *)
(* cycle when the file was begun in an earlier sitting.                    *)
Slices ==
  [b \in DOMAIN bucket |->
     LET lines == bucket[b].lines
         begin == CHOOSE k \in ReadJournal(lines) : \A m \in ReadJournal(lines) : k <= m
     IN  [k \in {n \in FillsIn(lines) : lines[n].mid} |->
            [fill |-> lines[k], arm |-> bucket[b].arm, begins |-> lines[begin].of,
             first |-> bucket[b].first]]]
=============================================================================
