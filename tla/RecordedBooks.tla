----------------------------- MODULE RecordedBooks -----------------------------
(***************************************************************************)
(* Two studies of the recorded books: scripts/taker_extract.py, which      *)
(* notes what the book did after every signal, and                         *)
(* scripts/exit_fill_study.py, which asks whether an exit put to rest      *)
(* would have filled.  A recording may end after any update; what the      *)
(* studies make of it are operators over the samples it holds.             *)
(***************************************************************************)
EXTENDS Integers, FiniteSets, SequencesExt

CONSTANTS
  Kept,           \* the books an update may leave: [bid, ask, bidSz, askSz]
  OneDollar,      \* ONE_DOLLAR
  Bands,          \* OBI_BANDS: [lo, hi] in tenths
  MaxSpreadTicks, MinGap, Horizons,
  MinObi,         \* MIN_OBI, in tenths
  EntryFrom, EntryTo, MinToCross, StudyCooldown,    \* the cell of the study
  Holds, Rests,   \* --hold, --rest
  CloseOffset,    \* when the market closes, in the clock of the recording
  MaxOffset, MaxSamples, MaxRecordings, Starts      \* bounds: time, samples, recordings

(* The exchange matches what crosses, and a close or a --hold is a number   *)
(* of seconds.                                                              *)
ASSUME RecordedAssumption ==
  /\ OneDollar \in Nat /\ CloseOffset \in Int
  /\ Holds \subseteq Nat /\ IsFiniteSet(Holds) /\ Rests \subseteq Nat /\ IsFiniteSet(Rests)
  /\ \A b \in Kept : /\ b.bid \in 0..OneDollar /\ b.ask \in 0..OneDollar
                     /\ b.bid > 0 /\ b.ask > 0 => b.bid <= b.ask

VARIABLES
  offset,         \* the time in the recording
  startedAt,      \* started_at_utc of the recording
  taken,          \* recordings begun
  noted,          \* samples of the recordings so far
  series,         \* samples of the market: [at, book]
  intervals,      \* all_intervals of the recordings before
  seenBook,       \* history: time -> the last book with two sides, in a sequence
  signals,        \* history: the signals a live reader has had: time and band
  lived           \* history: the seconds of the day with a book on record

recordings == <<offset, startedAt, taken, noted, series, intervals, seenBook, signals, lived>>

NoBook == [bid |-> 0, ask |-> 0, bidSz |-> 0, askSz |-> 0]

RecordedInit ==
  /\ offset = 0 /\ startedAt = 0 /\ taken = 1 /\ noted = 0 /\ series = <<>>
  /\ intervals = <<>> /\ seenBook = <<NoBook>> /\ signals = {} /\ lived = {}

-----------------------------------------------------------------------------
(* A sample.                                                               *)

TwoSided(b) == b.bid > 0 /\ b.ask > 0 /\ b.bidSz + b.askSz > 0
Lean(b) == IF b.bidSz > b.askSz THEN b.bidSz - b.askSz ELSE b.askSz - b.bidSz
Buying(b) == b.bidSz > b.askSz
EntryOf(b) == IF Buying(b) THEN b.ask ELSE b.bid

(* band_of: the bands a reading is in, of which there is one at most.      *)
BandOf(b) ==
  {k \in DOMAIN Bands : LET total == b.bidSz + b.askSz
                        IN  Bands[k].lo * total <= 10 * Lean(b) /\ 10 * Lean(b) < Bands[k].hi * total}

(* walk: an update; a book with one side or nothing at its touch has no    *)
(* sample.                                                                 *)
Sample ==
  /\ noted < MaxSamples /\ noted' = noted + 1
  /\ \E b \in Kept :
       IF TwoSided(b)
       THEN /\ series' = Append(series, [at |-> offset, book |-> b])
            /\ seenBook' = [seenBook EXCEPT ![offset + 1] = b]
            /\ signals' = signals \cup
                 {<<offset, k>> : k \in {x \in BandOf(b) :
                    /\ b.ask - b.bid <= MaxSpreadTicks
                    /\ \A s \in signals : s[2] = x => offset - s[1] >= MinGap}}
            /\ lived' = lived \cup
                 (IF series = <<>> THEN {}
                  ELSE (startedAt + Last(series).at)..(startedAt + offset - 1))
       ELSE UNCHANGED <<series, seenBook, signals, lived>>
  /\ UNCHANGED <<offset, startedAt, taken, intervals>>

OffsetGrows ==
  /\ offset < MaxOffset /\ offset' = offset + 1
  /\ seenBook' = Append(seenBook, Last(seenBook))
  /\ UNCHANGED <<startedAt, taken, noted, series, intervals, signals, lived>>

Spans == IF Len(series) > 1 THEN <<<<startedAt + series[1].at, startedAt + Last(series).at>>>>
         ELSE <<>>

(* The next recording, which may overlap this one.                         *)
NextRecording ==
  /\ taken < MaxRecordings /\ taken' = taken + 1 /\ startedAt' \in Starts
  /\ intervals' = intervals \o Spans
  /\ offset' = 0 /\ series' = <<>> /\ seenBook' = <<NoBook>> /\ signals' = {}
  /\ UNCHANGED <<noted, lived>>

RecordedStep == Sample \/ OffsetGrows \/ NextRecording

-----------------------------------------------------------------------------
(* taker_extract.                                                          *)

(* book_after: the first sample at or after a time, from a sample on.      *)
BookAfter(s, when, from) == SelectSeq(SubSeq(s, from, Len(s)), LAMBDA x : x.at >= when)

(* Faulty: the next sample instead of the last.                            *)
NextBook(s, when) == BookAfter(s, when, 1)[1]

(* book_at: the last sample at or before a time.                           *)
BookAt(s, when) == s[Max({j \in DOMAIN s : s[j].at <= when})]

(* The samples that are signals: a narrow spread, and no signal of the     *)
(* same band a moment ago.                                                 *)
Triggers(s) ==
  FoldLeft(LAMBDA acc, i :
             LET new == {k \in BandOf(s[i].book) :
                           /\ s[i].book.ask - s[i].book.bid <= MaxSpreadTicks
                           /\ s[i].at - acc.last[k] >= MinGap}
             IN  [last |-> [k \in DOMAIN Bands |-> IF k \in new THEN s[i].at ELSE acc.last[k]],
                  fired |-> acc.fired \cup {<<i, k>> : k \in new}],
           [last |-> [k \in DOMAIN Bands |-> -MinGap], fired |-> {}],
           [i \in DOMAIN s |-> i]).fired

(* What is written of a signal whose last horizon has a sample after it.   *)
Extract(s) ==
  {[at |-> s[t[1]].at, band |-> t[2], entry |-> EntryOf(s[t[1]].book),
    h |-> [h \in Horizons |-> BookAt(s, s[t[1]].at + h).book],
    after |-> [h \in Horizons |-> BookAfter(s, s[t[1]].at + h, t[1] + 1)]] :
     t \in {t \in Triggers(s) : \A h \in Horizons : s[t[1]].at + h <= Last(s).at}}

(* coverage_seconds: the union of the intervals, in the order they begin.  *)
CoverageSeconds(spans) ==
  LET ordered == SortSeq(spans, LAMBDA a, b : a[1] < b[1] \/ (a[1] = b[1] /\ a[2] < b[2]))
      merged == FoldLeft(LAMBDA acc, x :
                           IF x[1] > acc.end
                           THEN [start |-> x[1], end |-> x[2], total |-> acc.total + acc.end - acc.start]
                           ELSE [acc EXCEPT !.end = IF x[2] > @ THEN x[2] ELSE @],
                         [start |-> 0, end |-> 0, total |-> 0], ordered)
  IN  merged.total + merged.end - merged.start

-----------------------------------------------------------------------------
(* exit_fill_study.                                                        *)

(* fee_cents, in ten-thousandths of a cent.                                *)
CrossFee(price) == 7 * price * (OneDollar - price)

(* simulate: the exit rests at the touch of the last sample in the hold,   *)
(* of which there must be one, and is watched until the deadline.          *)
ExitIndex(s, i, hold) == Max({j \in DOMAIN s : s[j].at <= s[i].at + hold})

(* Faulty: the exit that did not fill crosses the next book.               *)
CrossedLate(s, when) == IF BookAfter(s, when, 1) = <<>> THEN Last(s).book
                        ELSE BookAfter(s, when, 1)[1].book

CrossedInto(s, when) == BookAt(s, when).book

Simulate(s, i, hold, rest) ==
  LET x == ExitIndex(s, i, hold)
      long == Buying(s[i].book)
      entry == EntryOf(s[i].book)
      touch(b) == IF long THEN b.ask ELSE b.bid
      size(b) == IF long THEN b.askSz ELSE b.bidSz
      price == touch(s[x].book)
      deadline == s[x].at + rest
      watched == {s[j].book : j \in {j \in DOMAIN s : j > x /\ s[j].at <= deadline}}
      through == \E b \in watched : IF long THEN b.bid >= price ELSE b.ask <= price
      cleared == \E b \in watched :
        \/ IF long THEN b.ask > price ELSE b.bid < price
        \/ touch(b) = price /\ size(b) = 0
      depleted == \E b \in watched : touch(b) = price /\ size(b) < size(s[x].book)
      last == CrossedInto(s, deadline)
      crossed == IF long THEN last.bid ELSE last.ask
      gain(at) == (IF long THEN at - entry ELSE entry - at) * OneDollar * OneDollar
                    - CrossFee(entry)
  IN  [optimistic |-> through \/ cleared \/ depleted, conservative |-> through /\ cleared,
       filled |-> gain(price), never |-> gain(crossed) - CrossFee(crossed), until |-> deadline]

(* study: one set of signals for all the holds and rests, those whose      *)
(* longest window ends in the recording and before the market closes.      *)
LongestWindow == Max(Holds) + Max(Rests)

InCell(b) ==
  LET entry == EntryOf(b)
      equiv == IF Buying(b) THEN entry ELSE OneDollar - entry
  IN  /\ b.ask - b.bid <= MaxSpreadTicks /\ 10 * Lean(b) >= MinObi * (b.bidSz + b.askSz)
      /\ equiv \in EntryFrom..EntryTo
      /\ (IF Buying(b) THEN b.askSz ELSE b.bidSz) >= MinToCross

Considered(s, acc, i) ==
  IF /\ InCell(s[i].book) /\ s[i].at - acc.last >= StudyCooldown
     /\ s[i].at <= CloseOffset
     /\ s[i].at + LongestWindow <= Last(s).at /\ s[i].at + LongestWindow <= CloseOffset
  THEN [last |-> s[i].at, kept |-> acc.kept \cup {i}] ELSE acc

StudyTriggers(s) ==
  FoldLeft(LAMBDA acc, i : Considered(s, acc, i), [last |-> -StudyCooldown, kept |-> {}],
           [i \in DOMAIN s |-> i]).kept

(* A cell of the study: its exits, of the signals with a sample in the     *)
(* hold.                                                                   *)
Exits(s, hold, rest) ==
  {<<i, Simulate(s, i, hold, rest)>> : i \in {i \in StudyTriggers(s) : ExitIndex(s, i, hold) > i}}

(* The path a signal takes, when a fill is believed or not.                *)
Realised(e, filled) == IF filled THEN e.filled ELSE e.never
=============================================================================
