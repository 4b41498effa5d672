------------------------------- MODULE Recording -------------------------------
(***************************************************************************)
(* A recording from the socket to the bucket: the collector                *)
(* (scripts/collect_loop.py) starts a recorder for every cycle, by socket  *)
(* (scripts/record_markets.py) or by polling (scripts/poll_record.py),     *)
(* which writes through RecordingSessionWriter (recording/io.py); when it  *)
(* has ended the collector counts, uploads and removes its directory.      *)
(* Events are numbers in the order received.                               *)
(***************************************************************************)
EXTENDS Integers

CONSTANTS
  MaxEvents,     \* bound: events of a cycle
  FlushEvery,    \* --flush-every
  Thin,          \* fewer events than this are not kept (50 in the code)
  MaxCycles      \* --max-cycles

VARIABLES
  options,       \* --websocket, --bucket is not empty, --keep-local
  cPc,           \* where the collector is
  cycles,         \* cycles begun
  rPc,           \* where the recorder is, "over" when its process has ended
  failed,        \* it raised or was killed
  killed,
  written,       \* event_count
  file,          \* the directory: whether it exists, complete lines of events, and
                 \* the manifest's event count, Open before it is finalized,
                 \* None before it is written
  uploaded,      \* history: what this cycle uploaded, whether the recorder
                 \* had ended well, and what it had received
  lost           \* history: lines worth keeping, removed and not uploaded

recorder == <<rPc, failed, killed, written, file>>
collector == <<options, cPc, cycles, uploaded, lost>>
recording == <<recorder, collector>>

ASSUME RecordingAssumption ==
  FlushEvery \in Nat \ {0} /\ MaxEvents \in Nat /\ Thin \in Nat /\ MaxCycles \in Nat \ {0}

None == -2
Open == -1
NoFile == [exists |-> FALSE, lines |-> 0, manifest |-> None]
NoUpload == [well |-> TRUE, file |-> [exists |-> TRUE, lines |-> 0, manifest |-> Open], written |-> 0]

RecordingInit ==
  /\ options \in [websocket : BOOLEAN, bucket : BOOLEAN, keepLocal : BOOLEAN]
  /\ cPc = "select" /\ cycles = 0 /\ uploaded = NoUpload /\ lost = FALSE
  /\ rPc = "over" /\ failed = FALSE /\ killed = FALSE /\ written = 0 /\ file = NoFile

-----------------------------------------------------------------------------
(* The recorder.  By socket: connect and subscribe, whose messages are     *)
(* recorded too, then the manifest, then run_forever in a task of its own; *)
(* by polling: the manifest first.                                         *)
Subscribed ==
  /\ rPc = "subscribe" /\ rPc' = "record"
  /\ file' = [file EXCEPT !.manifest = Open]
  /\ UNCHANGED <<failed, killed, written>>

(* Faulty: the task that receives is not waited for before the end.        *)
ReceivingToTheEnd == {"subscribe", "record", "closing", "finalized"}

Receiving == {"subscribe", "record"}

(* recv_json of the recording socket, or a poll: write_event.              *)
Receive ==
  /\ rPc \in Receiving /\ written < MaxEvents
  /\ rPc = "subscribe" => options.websocket
  /\ written' = written + 1
  /\ file' = [file EXCEPT !.lines = IF written' % FlushEvery = 0 THEN written' ELSE @]
  /\ UNCHANGED <<rPc, failed, killed>>

(* The time is over, or something raised; the task is canceled.            *)
StopRecording ==
  /\ rPc \in {"subscribe", "record"} /\ rPc' = "closing"
  /\ \/ rPc = "record" /\ UNCHANGED failed
     \/ failed' = TRUE
  /\ UNCHANGED <<killed, written, file>>

(* controller.close raises: neither finalize nor close is called, the      *)
(* interpreter closes the file.                                            *)
CloseRaises ==
  /\ rPc = "closing" /\ options.websocket /\ rPc' = "over" /\ failed' = TRUE
  /\ file' = [file EXCEPT !.lines = written]
  /\ UNCHANGED <<killed, written>>

(* The recorder that polls closes the writer and does not finalize.        *)
Finalize ==
  /\ rPc = "closing" /\ rPc' = "finalized"
  /\ file' = IF options.websocket /\ file.manifest # None
             THEN [file EXCEPT !.manifest = written] ELSE file
  /\ UNCHANGED <<failed, killed, written>>

Close ==
  /\ rPc = "finalized" /\ rPc' = "over"
  /\ file' = [file EXCEPT !.lines = written]
  /\ UNCHANGED <<failed, killed, written>>

(* The process dies; of what it has not flushed any part is in the file.   *)
Kill ==
  /\ rPc # "over" /\ rPc' = "over" /\ failed' = TRUE /\ killed' = TRUE
  /\ \E n \in file.lines..written : file' = [file EXCEPT !.lines = n]
  /\ UNCHANGED written

Recorder == Subscribed \/ Receive \/ StopRecording \/ CloseRaises \/ Finalize \/ Close

-----------------------------------------------------------------------------
(* The collector.  Whatever raises in a cycle, the next one begins.        *)
NextCycle == "select"

Cycle ==
  /\ cPc = "select"
  /\ IF cycles = MaxCycles
     THEN cPc' = "ended" /\ UNCHANGED <<cycles, uploaded, recorder>>
     ELSE /\ cycles' = cycles + 1 /\ uploaded' = NoUpload
          /\ \/ cPc' = "select" /\ UNCHANGED recorder     \* nothing to record
             \/ cPc' = NextCycle /\ UNCHANGED recorder    \* or the choice raised
             \/ /\ cPc' = "record" /\ rPc' = "subscribe"
                /\ failed' = FALSE /\ killed' = FALSE /\ written' = 0
                /\ file' = [NoFile EXCEPT !.exists = TRUE]
  /\ UNCHANGED <<options, lost>>

RecorderFailed == failed

Recorded ==
  /\ cPc = "record" /\ rPc = "over"
  /\ cPc' = IF RecorderFailed THEN NextCycle ELSE "keep"
  /\ UNCHANGED <<options, cycles, uploaded, lost, recorder>>

UploadFailed == NextCycle

Keep ==
  /\ cPc = "keep"
  /\ \/ /\ file.lines < Thin \/ ~options.bucket
        /\ cPc' = "remove" /\ UNCHANGED uploaded
     \/ /\ file.lines >= Thin /\ options.bucket
        /\ \/ /\ cPc' = "remove"
              /\ uploaded' = [well |-> ~failed, file |-> file, written |-> written]
           \/ cPc' = UploadFailed /\ UNCHANGED uploaded
  /\ UNCHANGED <<options, cycles, lost, recorder>>

Remove ==
  /\ cPc = "remove" /\ cPc' = "select"
  /\ IF options.keepLocal THEN UNCHANGED <<file, lost>>
     ELSE /\ file' = NoFile
          /\ lost' = (lost \/ (file.lines >= Thin /\ options.bucket /\ uploaded.file # file))
  /\ UNCHANGED <<options, cycles, uploaded, rPc, failed, killed, written>>

(* What the recorder does within the duration it is given.                 *)
Bounded == (Subscribed \/ StopRecording \/ Finalize \/ Close) /\ UNCHANGED collector

Collector == Cycle \/ Recorded \/ Keep \/ Remove

RecordingStep ==
  \/ (Recorder \/ Kill) /\ UNCHANGED collector
  \/ Collector

-----------------------------------------------------------------------------
(* A finalized manifest counts exactly the events of the file, however the *)
(* recorder ended short of being killed (recording/io.py:95).             *)
FinalCountIsTrue ==
  rPc = "over" /\ ~killed /\ file.manifest >= 0 => file.lines = file.manifest

(* What is in the bucket is whole: a recorder that ended well, a manifest, *)
(* and every event that was received.                                      *)
UploadedIsWhole ==
  /\ uploaded.well /\ uploaded.file.lines = uploaded.written
  /\ uploaded.file.exists /\ uploaded.file.manifest # None

(* Recordings are kept: no events worth keeping are removed before they    *)
(* are in the bucket, and what is there is whole.                          *)
RecordingsAreKept == ~lost /\ FinalCountIsTrue /\ UploadedIsWhole
=============================================================================
