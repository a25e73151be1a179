----------------------------- MODULE KlipperProofs -----------------------------
(***************************************************************************)
(* Proofs about Klipper: no record goes missing silently, a print counts   *)
(* once, "done" means complete, and the cloud has the record of a print it *)
(* is shown as over, for any number of prints, pauses, polls, teardowns    *)
(* and process deaths, and a buffer of any size.                           *)
(***************************************************************************)
EXTENDS Klipper, ListsProofs

States == {"standby"} \cup Underway \cup Terminal
FileNames == Files \cup {NoFile}
Samples == [state : States, file : FileNames, dur : Nat, print : Nat]
Jobs == [key : Nat, file : FileNames, opened : Nat]
Trackers == [active : Jobs, pending : Seq(Records), last : States \cup {NoState}, dur : Int]

Typed ==
  /\ ps \in Samples /\ fates \in Seq({"active"} \cup Terminal)
  /\ attached \in BOOLEAN
  /\ data \in [state : States \cup {NoState}, print : Nat]
  /\ tracker \in Trackers /\ Len(tracker.pending) <= MaxPending
  /\ stamp \in Nat \ {0} /\ upsets \in Nat
  /\ orphans \in Seq(Records) /\ jobs \in Seq(Records)
  /\ pc \in {"idle", "jobs", "post", "stop"}
  /\ status \in [act : {"none", "idle", "error"} \cup Underway, print : Nat]

\* The printer's own bookkeeping: the newest print is the one print_stats tells of.
PrinterSane ==
  /\ ps.print = Len(fates) /\ ps.print <= MaxPrints /\ ps.dur <= MaxDur
  /\ ps.state \in Underway \cup Terminal => ps.print > 0
  /\ ps.state \in Terminal => fates[ps.print] = ps.state

\* Every record anywhere is one that a tracker buffered.
Held ==
  /\ emitted \subseteq Records /\ received \cup lost \subseteq emitted
  /\ ToSet(tracker.pending) \cup ToSet(orphans) \cup ToSet(jobs) \subseteq emitted

\* A tracker lives as long as its adapter; the cache and it are updated together.
OneAdapter ==
  /\ ~attached => tracker = NewTracker /\ data = NoData /\ followed = {}
  /\ data.state = tracker.last
  /\ tracker.last = NoState => tracker.active = NoJob /\ followed = {}
  /\ pc = "stop" => attached /\ upsets > 0
  /\ upsets = 0 /\ tracker.last = NoState => emitted = {}

\* The clock tells jobs apart: an acknowledgement by key is one of the record.
KeysUnique ==
  /\ \A r \in emitted : r.key < stamp
  /\ \A r, s \in emitted : r.key = s.key => r = s
  /\ tracker.active.key < stamp
  /\ tracker.active # NoJob => \A r \in emitted : r.key # tracker.active.key

\* An open job is of a print nobody has reported yet.
OpenJob ==
  /\ data.print <= ps.print
  /\ tracker.active # NoJob =>
       /\ tracker.active.key > 0
       /\ 0 < tracker.active.opened /\ tracker.active.opened <= data.print
       /\ \A r \in emitted : r.opened # tracker.active.opened

\* What the tracker remembers of the print that is under way does not contradict it.
NoFalseReset ==
  ps.state \in Underway =>
    /\ data.print = ps.print => tracker.dur <= ps.dur
    /\ tracker.active # NoJob /\ tracker.active.opened = ps.print =>
         tracker.active.file \in {NoFile, ps.file}

\* A record is closed on the print it was opened on or on a later one, and never while
\* its own print is under way.
ClosedAfter ==
  \A r \in emitted :
    /\ r.opened <= r.ended /\ r.ended <= ps.print
    /\ r.opened = ps.print => ps.state \notin Underway

\* A print the tracker has opened a job on is open still or spanned by a record.
Spanned(p, R) == \E r \in R : r.opened <= p /\ p <= r.ended

Followed ==
  /\ \A p \in followed : (tracker.active # NoJob /\ p = tracker.active.opened) \/ Spanned(p, emitted)
  /\ data.state \notin Underway => tracker.active = NoJob

\* What the beat has read of a print that is over.
Shown ==
  status.act \in {"idle", "error"} /\ status.print # 0 =>
    /\ pc = "jobs" => Spanned(status.print, emitted)
    /\ pc = "post" => Spanned(status.print, received \cup lost \cup ToSet(jobs))

IInv ==
  /\ Typed /\ PrinterSane /\ Held /\ OneAdapter /\ KeysUnique /\ OpenJob
  /\ NoFalseReset /\ ClosedAfter /\ Followed /\ Shown
  /\ RecordsKept /\ CountedOnce /\ DoneIsDone /\ OverWithRecord

-------------------------------------------------------------------------------
(* What the tracker's operators do. *)

USE KlipperAssumption

\* A record is buffered at the end, under the cap, at the cost of older ones only.
LEMMA BufferFacts ==
  ASSUME NEW t \in Trackers, NEW r \in Records
  PROVE  /\ Buffer(t, r) \in Trackers
         /\ Buffer(t, r).active = t.active
         /\ Len(Buffer(t, r).pending) <= MaxPending
         /\ Last(Buffer(t, r).pending) = r /\ r \in ToSet(Buffer(t, r).pending)
         /\ ToSet(Buffer(t, r).pending) \subseteq ToSet(t.pending) \cup {r}
<1> DEFINE grown == Append(t.pending, r)
           excess == Len(grown) - MaxPending
           kept == IF excess > 0 THEN SubSeq(grown, excess + 1, Len(grown)) ELSE grown
<1>0. t.pending \in Seq(Records)
  BY DEF Trackers
<1>1. grown \in Seq(Records) /\ Len(grown) = Len(t.pending) + 1 /\ grown[Len(grown)] = r
  BY <1>0
<1>2. ToSet(grown) = ToSet(t.pending) \cup {r}
  BY <1>0, AppendSet
<1> HIDE DEF grown
<1>3. /\ kept \in Seq(Records) /\ Len(kept) <= MaxPending /\ Len(kept) > 0
      /\ kept[Len(kept)] = r /\ ToSet(kept) \subseteq ToSet(grown)
  <2>1. CASE excess > 0
    <3>1. excess + 1 \in 1 .. Len(grown) + 1 /\ Len(grown) \in (excess + 1) - 1 .. Len(grown)
      BY <1>1, <2>1
    <3>2. kept = SubSeq(grown, excess + 1, Len(grown))
      BY <2>1
    <3>3. /\ kept \in Seq(Records) /\ Len(kept) = Len(grown) - (excess + 1) + 1
          /\ ToSet(kept) \subseteq ToSet(grown)
      <4> HIDE DEF kept, excess
      <4>1. QED
        BY <1>1, <3>1, <3>2, SubSeqSet
    <3> HIDE DEF kept
    <3>4. kept[MaxPending] = grown[excess + MaxPending]
      BY <1>1, <2>1, <3>2
    <3>5. QED
      BY <1>1, <3>3, <3>4
  <2>2. CASE ~(excess > 0)
    <3>1. kept = grown
      BY <2>2
    <3>2. Len(grown) <= MaxPending /\ Len(grown) > 0
      BY <1>1, <2>2
    <3> HIDE DEF kept
    <3>3. QED
      BY <1>1, <3>1, <3>2
  <2>3. QED
    BY <2>1, <2>2
<1>4. Buffer(t, r) = [t EXCEPT !.pending = kept]
  BY DEF Buffer, grown
<1> HIDE DEF kept
<1>5. /\ Buffer(t, r) \in Trackers /\ Buffer(t, r).active = t.active
      /\ Buffer(t, r).pending = kept
  BY <1>3, <1>4 DEF Trackers
<1>6. r \in ToSet(kept) /\ Last(kept) = r
  BY <1>3 DEF ToSet, Last
<1>7. QED
  BY <1>2, <1>3, <1>5, <1>6

(* The five things a sample does to a tracker t, which becomes a. *)

NewJob(f, now) == [key |-> now, file |-> f.file, opened |-> f.print]

Quiet(t, f, a) ==
  /\ a.pending = t.pending
  /\ a.active.key = t.active.key /\ a.active.opened = t.active.opened
  /\ a.active = NoJob <=> t.active = NoJob
  /\ a.active.file = t.active.file \/ a.active.file = f.file
  /\ IF t.active = NoJob THEN f.state # "printing" ELSE f.state \in Underway

Opens(t, f, now, a) ==
  /\ a.pending = t.pending
  /\ t.active = NoJob /\ f.state = "printing" /\ a.active = NewJob(f, now)

\* A record of the job of t, closed by the sample f.
RecordOf(t, f, r) ==
  r.key = t.active.key /\ r.opened = t.active.opened /\ r.ended = f.print /\ ~r.recovered

Closes(t, f, a, r) ==
  /\ t.active # NoJob /\ f.state \notin Underway /\ a.active = NoJob
  /\ RecordOf(t, f, r)
  /\ r.status = "done" => f.state = "complete"

Reopens(t, f, now, a, r) ==
  /\ t.active # NoJob /\ f.state = "printing" /\ a.active = NewJob(f, now)
  /\ DurationReset(t, f) \/ FilenameChanged(t, f)
  /\ RecordOf(t, f, r)

Recovers(t, f, now, a, r) ==
  /\ t.active = NoJob /\ t.last = NoState /\ f.state \in Terminal /\ a.active = NoJob
  /\ r.key = now /\ r.opened = f.print /\ r.ended = f.print /\ r.recovered
  /\ r.status = "done" => f.state = "complete"

Buffers(t, a, r) ==
  /\ Len(a.pending) <= MaxPending
  /\ Last(a.pending) = r /\ r \in ToSet(a.pending)
  /\ ToSet(a.pending) \subseteq ToSet(t.pending) \cup {r}

\* The prints of a sample and of the open job are prints.
InBounds(t, f) ==
  /\ f.state \in Underway \cup Terminal => f.print \in Prints
  /\ t.active # NoJob => t.active.key > 0 /\ t.active.opened \in Prints /\ f.print \in Prints

\* The last step of observe, whatever the state machine did before it.
LEMMA Remembered ==
  ASSUME NEW t \in Trackers, NEW f \in Samples
  PROVE  LET a == [t EXCEPT !.last = f.state, !.dur = f.dur]
         IN  /\ a \in Trackers /\ a.last = f.state /\ a.dur = f.dur
             /\ a.active = t.active /\ a.pending = t.pending
<1>1. f.state \in States /\ f.dur \in Nat
  BY DEF Samples
<1>2. PICK a : a = [t EXCEPT !.last = f.state, !.dur = f.dur]
  OBVIOUS
<1>3. PICK b : b = [t EXCEPT !.last = f.state]
  OBVIOUS
<1>4. b \in Trackers /\ b.last = f.state /\ b.active = t.active /\ b.pending = t.pending
  BY <1>1, <1>3 DEF Trackers
<1>5. a = [b EXCEPT !.dur = f.dur]
  BY <1>2, <1>3, Zenon
<1>6. /\ a \in Trackers /\ a.last = f.state /\ a.dur = f.dur
      /\ a.active = t.active /\ a.pending = t.pending
  <2>1. f.dur \in Int
    BY <1>1
  <2>2. a \in Trackers
    BY <1>4, <1>5, <2>1 DEF Trackers
  <2>3. a.last = b.last /\ a.dur = f.dur /\ a.active = b.active /\ a.pending = b.pending
    BY <1>4, <1>5 DEF Trackers
  <2>4. QED
    BY <1>4, <2>2, <2>3
<1>7. QED
  BY <1>2, <1>6, Zenon

\* _close buffers the record of the open job and opens none.
LEMMA CloseFacts ==
  ASSUME NEW t \in Trackers, NEW f \in Samples, InBounds(t, f), t.active # NoJob,
         NEW o \in {"done", "failed", "cancelled"}
  PROVE  /\ Close(t, o, f) \in Trackers /\ Close(t, o, f).active = NoJob
         /\ \E r \in Records : Buffers(t, Close(t, o, f), r) /\ RecordOf(t, f, r) /\ r.status = o
<1> DEFINE r == Record(t.active, o, f, FALSE)
<1>1. r \in Records /\ RecordOf(t, f, r) /\ r.status = o
  <2>1. t.active.key \in Nat \ {0} /\ t.active.opened \in Prints /\ f.print \in Prints
    <3>1. t.active \in Jobs
      BY DEF Trackers
    <3>2. t.active.key \in Nat
      BY <3>1 DEF Jobs
    <3>3. t.active.key > 0 /\ t.active.opened \in Prints /\ f.print \in Prints
      BY DEF InBounds
    <3>4. QED
      BY <3>2, <3>3
  <2>2. QED
    BY <2>1 DEF Record, Records, RecordOf
<1> HIDE DEF r
<1>2. Close(t, o, f) = [Buffer(t, r) EXCEPT !.active = NoJob]
  BY DEF Close, r
<1>3. NoJob \in Jobs
  BY DEF NoJob, Jobs, FileNames
<1>4. /\ Close(t, o, f) \in Trackers /\ Close(t, o, f).active = NoJob
      /\ Close(t, o, f).pending = Buffer(t, r).pending
  <2>1. Buffer(t, r) \in Trackers
    BY <1>1, BufferFacts
  <2>2. QED
    BY <1>2, <1>3, <2>1 DEF Trackers
<1>5. Buffers(t, Close(t, o, f), r)
  <2>1. Buffers(t, Buffer(t, r), r)
    BY <1>1, BufferFacts DEF Buffers
  <2>2. QED
    BY <1>4, <2>1 DEF Buffers
<1>6. QED
  BY <1>1, <1>4, <1>5

\* _open opens the job of the sample.
LEMMA OpenFacts ==
  ASSUME NEW t \in Trackers, NEW f \in Samples, NEW now \in Nat \ {0}
  PROVE  /\ Open(t, f, now) \in Trackers /\ Open(t, f, now).active = NewJob(f, now)
         /\ Open(t, f, now).pending = t.pending
<1>1. NewJob(f, now) \in Jobs
  BY DEF NewJob, Jobs, Samples
<1>2. Open(t, f, now) = [t EXCEPT !.active = NewJob(f, now)]
  BY DEF Open, NewJob
<1>3. QED
  BY <1>1, <1>2 DEF Trackers

\* The tracker t becomes a on the sample f.
Effect(t, f, now, a) ==
  \/ Quiet(t, f, a)
  \/ Opens(t, f, now, a)
  \/ \E r \in Records :
       Buffers(t, a, r) /\ (Closes(t, f, a, r) \/ Reopens(t, f, now, a, r) \/ Recovers(t, f, now, a, r))

\* observe with no job open opens one, recovers an ending, or does nothing.
LEMMA ObserveIdleFacts ==
  ASSUME NEW t \in Trackers, NEW f \in Samples, NEW now \in Nat \ {0}, InBounds(t, f),
         t.active = NoJob
  PROVE  ObserveIdle(t, f, now) \in Trackers /\ Effect(t, f, now, ObserveIdle(t, f, now))
<1>1. CASE f.state = "printing"
  <2>1. ObserveIdle(t, f, now) = Open(t, f, now)
    BY <1>1 DEF ObserveIdle, Terminal, TerminalFailed
  <2>2. QED
    BY <1>1, <2>1, OpenFacts DEF Effect, Opens
<1>2. CASE t.last = NoState /\ f.state \in Terminal /\ f.file # NoFile
  <2> DEFINE r == Record(NewJob(f, now), Outcome(f.state), f, TRUE)
  <2>0. f.state # "printing" /\ f.print \in Prints
    BY <1>2 DEF Terminal, TerminalFailed, InBounds
  <2>1. ObserveIdle(t, f, now) = Buffer(t, r)
    BY <1>2, <2>0 DEF ObserveIdle, EmitRecovered, NewJob
  <2>2. /\ r \in Records /\ r.key = now /\ r.opened = f.print /\ r.ended = f.print
        /\ r.recovered /\ r.status = Outcome(f.state)
    BY <2>0 DEF Record, Records, NewJob, Outcome
  <2>3. Outcome(f.state) = "done" => f.state = "complete"
    BY DEF Outcome
  <2> HIDE DEF r
  <2>4. Recovers(t, f, now, Buffer(t, r), r)
    BY <1>2, <2>2, <2>3, BufferFacts DEF Recovers
  <2>5. Buffers(t, Buffer(t, r), r) /\ Buffer(t, r) \in Trackers
    BY <2>2, BufferFacts DEF Buffers
  <2>6. QED
    BY <2>1, <2>2, <2>4, <2>5 DEF Effect
<1>3. CASE f.state # "printing" /\ ~(t.last = NoState /\ f.state \in Terminal /\ f.file # NoFile)
  <2>1. ObserveIdle(t, f, now) = t
    BY <1>3 DEF ObserveIdle, EmitRecovered
  <2>2. QED
    BY <1>3, <2>1 DEF Effect, Quiet
<1>4. QED
  BY <1>1, <1>2, <1>3

\* observe of a print under way with a job open: the job goes on, or gives way to one of
\* a print that began since the last poll.
LEMMA ObservePrintingFacts ==
  ASSUME NEW t \in Trackers, NEW f \in Samples, NEW now \in Nat \ {0}, InBounds(t, f),
         t.active # NoJob, f.state = "printing"
  PROVE  ObservePrinting(t, f, now) \in Trackers /\ Effect(t, f, now, ObservePrinting(t, f, now))
<1>1. CASE DurationReset(t, f) \/ FilenameChanged(t, f)
  <2>1. PICK o \in {"done", "failed", "cancelled"} :
          ObservePrinting(t, f, now) = Open(Close(t, o, f), f, now)
    BY <1>1 DEF ObservePrinting
  <2> DEFINE a == ObservePrinting(t, f, now)
  <2>2. Close(t, o, f) \in Trackers
    BY CloseFacts
  <2>3. a \in Trackers /\ a.active = NewJob(f, now) /\ a.pending = Close(t, o, f).pending
    BY <2>1, <2>2, OpenFacts
  <2>4. PICK r \in Records : Buffers(t, Close(t, o, f), r) /\ RecordOf(t, f, r) /\ r.status = o
    BY CloseFacts
  <2> HIDE DEF a
  <2>5. Buffers(t, a, r)
    BY <2>3, <2>4 DEF Buffers
  <2>6. Reopens(t, f, now, a, r)
    BY <1>1, <2>3, <2>4 DEF Reopens
  <2>7. a \in Trackers /\ Effect(t, f, now, a)
    BY <2>3, <2>5, <2>6 DEF Effect
  <2>8. QED
    BY <2>7 DEF a
<1>2. CASE ~DurationReset(t, f) /\ ~FilenameChanged(t, f)
  <2> DEFINE file == IF t.active.file = NoFile THEN f.file ELSE t.active.file
             job == [t.active EXCEPT !.file = file]
  <2>1. ObservePrinting(t, f, now) = [t EXCEPT !.active.file = file]
    BY <1>2 DEF ObservePrinting
  <2>2. t.active \in Jobs /\ f.file \in FileNames
    BY DEF Trackers, Samples
  <2>3. /\ job \in Jobs /\ job.key = t.active.key /\ job.opened = t.active.opened
        /\ job.file = t.active.file \/ job.file = f.file
    BY <2>2 DEF Jobs
  <2>4. [t EXCEPT !.active.file = file] = [t EXCEPT !.active = job]
    BY DEF Trackers
  <2>5. job # NoJob
    BY <2>3 DEF NoJob, InBounds
  <2> HIDE DEF job
  <2>6. /\ ObservePrinting(t, f, now) \in Trackers /\ ObservePrinting(t, f, now).active = job
        /\ ObservePrinting(t, f, now).pending = t.pending
    <3>1. ObservePrinting(t, f, now) = [t EXCEPT !.active = job]
      BY <2>1, <2>4, Zenon
    <3>2. QED
      BY <2>3, <3>1 DEF Trackers
  <2>7. Quiet(t, f, ObservePrinting(t, f, now))
    BY <2>3, <2>5, <2>6 DEF Quiet, Underway
  <2>8. QED
    BY <2>6, <2>7 DEF Effect
<1>3. QED
  BY <1>1, <1>2

\* observe with a job open.
LEMMA ObserveActiveFacts ==
  ASSUME NEW t \in Trackers, NEW f \in Samples, NEW now \in Nat \ {0}, InBounds(t, f),
         t.active # NoJob
  PROVE  ObserveActive(t, f, now) \in Trackers /\ Effect(t, f, now, ObserveActive(t, f, now))
<1>1. CASE f.state = "printing"
  <2>1. ObserveActive(t, f, now) = ObservePrinting(t, f, now)
    BY <1>1 DEF ObserveActive, Terminal, TerminalFailed
  <2>2. QED
    BY <1>1, <2>1, ObservePrintingFacts
<1>2. CASE f.state \in Terminal \/ f.state = "standby"
  <2>1. PICK o \in {"done", "failed", "cancelled"} :
          /\ ObserveActive(t, f, now) = Close(t, o, f)
          /\ o = "done" => f.state = "complete"
    BY <1>2 DEF ObserveActive, Outcome, Terminal, TerminalFailed
  <2>2. f.state \notin Underway
    BY <1>2 DEF Terminal, TerminalFailed, Underway
  <2>3. PICK r \in Records : Buffers(t, Close(t, o, f), r) /\ RecordOf(t, f, r) /\ r.status = o
    BY CloseFacts
  <2>4. Closes(t, f, Close(t, o, f), r)
    BY <2>1, <2>2, <2>3, CloseFacts DEF Closes
  <2>5. QED
    BY <2>1, <2>3, <2>4, CloseFacts DEF Effect
<1>3. CASE f.state = "paused"
  <2>1. ObserveActive(t, f, now) = t
    BY <1>3 DEF ObserveActive, Terminal, TerminalFailed
  <2>2. QED
    BY <1>3, <2>1 DEF Effect, Quiet, Underway
<1>4. QED
  BY <1>1, <1>2, <1>3 DEF Samples, States, Underway

\* A sample has one of five effects, and its state and duration are remembered.
LEMMA ObserveFacts ==
  ASSUME NEW t \in Trackers, NEW f \in Samples, NEW now \in Nat \ {0}, InBounds(t, f)
  PROVE  /\ Observe(t, f, now) \in Trackers
         /\ Observe(t, f, now).last = f.state /\ Observe(t, f, now).dur = f.dur
         /\ Effect(t, f, now, Observe(t, f, now))
<1> DEFINE b == IF t.active = NoJob THEN ObserveIdle(t, f, now) ELSE ObserveActive(t, f, now)
           a == Observe(t, f, now)
<1>1. b \in Trackers /\ Effect(t, f, now, b)
  BY ObserveIdleFacts, ObserveActiveFacts
<1>2. a = [b EXCEPT !.last = f.state, !.dur = f.dur]
  BY DEF Observe
<1> HIDE DEF a, b
<1>3. /\ a \in Trackers /\ a.last = f.state /\ a.dur = f.dur
      /\ a.active = b.active /\ a.pending = b.pending
  BY <1>1, <1>2, Remembered
<1>4. Effect(t, f, now, a)
  BY <1>1, <1>3 DEF Effect, Quiet, Opens, Buffers, Closes, Reopens, Recovers
<1>5. QED
  BY <1>3, <1>4 DEF a

-------------------------------------------------------------------------------
(* A poll, as the five actions it amounts to. *)

PollFrame ==
  /\ attached
  /\ tracker' \in Trackers /\ tracker'.last = ps.state /\ tracker'.dur = ps.dur
  /\ data' = [state |-> ps.state, print |-> ps.print]
  /\ ps' = ps /\ fates' = fates /\ attached' = attached
  /\ orphans' = orphans /\ pc' = pc /\ status' = status /\ jobs' = jobs
  /\ received' = received /\ over' = over /\ upsets' = upsets

PollQuiet ==
  /\ PollFrame /\ Quiet(tracker, ps, tracker')
  /\ stamp' = stamp /\ followed' = followed /\ emitted' = emitted /\ lost' = lost

PollOpens ==
  /\ PollFrame /\ Opens(tracker, ps, stamp, tracker')
  /\ stamp' = stamp + 1 /\ followed' = followed \cup {ps.print}
  /\ emitted' = emitted /\ lost' = lost

NewRecord(r) ==
  /\ PollFrame /\ Buffers(tracker, tracker', r)
  /\ \A s \in emitted : s.key # r.key
  /\ emitted' = emitted \cup {r}
  /\ lost' = lost \cup ((ToSet(tracker.pending) \cup {r}) \ ToSet(tracker'.pending))

PollCloses(r) ==
  /\ NewRecord(r) /\ Closes(tracker, ps, tracker', r)
  /\ stamp' = stamp /\ followed' = followed

PollReopens(r) ==
  /\ NewRecord(r) /\ Reopens(tracker, ps, stamp, tracker', r)
  /\ stamp' = stamp + 1 /\ followed' = followed \cup {ps.print}

PollRecovers(r) ==
  /\ NewRecord(r) /\ Recovers(tracker, ps, stamp, tracker', r)
  /\ stamp' = stamp + 1 /\ followed' = followed

\* The invariant puts a sample of the printer within the bounds of the lemmas above.
LEMMA SampleInBounds ==
  ASSUME IInv
  PROVE  InBounds(tracker, ps) /\ tracker \in Trackers /\ ps \in Samples /\ stamp \in Nat \ {0}
<1>1. tracker \in Trackers /\ ps \in Samples /\ stamp \in Nat \ {0}
  BY DEF IInv, Typed
<1>2. tracker.active \in Jobs /\ data.print \in Nat /\ ps.print \in Nat
  BY <1>1 DEF IInv, Typed, Trackers, Samples
<1>3. tracker.active.key \in Nat /\ tracker.active.opened \in Nat
  BY <1>2 DEF Jobs
<1>4. InBounds(tracker, ps)
  BY <1>2, <1>3 DEF IInv, PrinterSane, OpenJob, InBounds, Prints
<1>5. QED
  BY <1>1, <1>4

\* A poll does one of five things to the tracker.
LEMMA PollCases ==
  ASSUME IInv, PollOk
  PROVE  PollQuiet \/ PollOpens \/ \E r \in Records : PollCloses(r) \/ PollReopens(r) \/ PollRecovers(r)
<1> DEFINE a == Observe(tracker, ps, stamp)
           new == IF a.pending = tracker.pending THEN {} ELSE {Last(a.pending)}
<1>1. /\ tracker' = a
      /\ stamp' = IF stamp \in {a.active.key} \cup {r.key : r \in new} THEN stamp + 1 ELSE stamp
      /\ followed' = IF a.active.key = stamp THEN followed \cup {ps.print} ELSE followed
      /\ emitted' = emitted \cup new
      /\ lost' = lost \cup ((ToSet(tracker.pending) \cup new) \ ToSet(a.pending))
  BY DEF PollOk
<1>2. a \in Trackers /\ a.last = ps.state /\ a.dur = ps.dur /\ Effect(tracker, ps, stamp, a)
  BY SampleInBounds, ObserveFacts
<1> HIDE DEF a
<1>3. PollFrame
  BY <1>1, <1>2 DEF PollOk, PollFrame, printerVars, beatVars, cloudVars
<1>4. /\ \A r \in emitted : r.key < stamp /\ r.key \in Nat
      /\ tracker.active.key \in Nat /\ tracker.active.key < stamp /\ stamp \in Nat
      /\ NoJob.key = 0 /\ stamp # 0
  BY SampleInBounds DEF IInv, Held, Records, KeysUnique, Typed, Trackers, Jobs, NoJob
<1>5. ToSet(tracker.pending) \subseteq emitted
  BY DEF IInv, Held
<1>6. CASE a.pending = tracker.pending
  <2>1. new = {}
    BY <1>6
  <2>2. emitted' = emitted /\ lost' = lost
    BY <1>1, <1>6, <2>1
  <2>3. stamp' = IF stamp = a.active.key THEN stamp + 1 ELSE stamp
    BY <1>1, <2>1
  <2> HIDE DEF new
  <2>4. CASE Quiet(tracker, ps, a)
    <3>1. a.active.key # stamp
      BY <1>4, <2>4 DEF Quiet
    <3>2. QED
      BY <1>1, <1>3, <2>2, <2>3, <2>4, <3>1 DEF PollQuiet
  <2>5. CASE Opens(tracker, ps, stamp, a)
    <3>1. a.active.key = stamp
      BY <2>5 DEF Opens, NewJob
    <3>2. QED
      BY <1>1, <1>3, <2>2, <2>3, <2>5, <3>1 DEF PollOpens
  <2>6. CASE \E r \in Records : Buffers(tracker, a, r)
               /\ (\/ Closes(tracker, ps, a, r)
                   \/ Reopens(tracker, ps, stamp, a, r)
                   \/ Recovers(tracker, ps, stamp, a, r))
    <3>1. PICK r \in Records : Buffers(tracker, a, r)
               /\ (\/ Closes(tracker, ps, a, r)
                   \/ Reopens(tracker, ps, stamp, a, r)
                   \/ Recovers(tracker, ps, stamp, a, r))
      BY <2>6
    <3>2. r \in emitted
      BY <1>5, <1>6, <3>1 DEF Buffers
    <3>3. r.key = stamp \/ (r.key = tracker.active.key /\ tracker.active # NoJob)
      BY <3>1 DEF Closes, Reopens, Recovers, RecordOf
    <3>4. QED
      BY <1>4, <3>2, <3>3 DEF IInv, KeysUnique
  <2>7. QED
    BY <1>2, <2>4, <2>5, <2>6 DEF Effect
<1>7. CASE a.pending # tracker.pending
  <2>1. PICK r \in Records : Buffers(tracker, a, r)
               /\ (\/ Closes(tracker, ps, a, r)
                   \/ Reopens(tracker, ps, stamp, a, r)
                   \/ Recovers(tracker, ps, stamp, a, r))
    BY <1>2, <1>7 DEF Effect, Quiet, Opens
  <2>2. new = {r}
    BY <1>7, <2>1 DEF Buffers
  <2>3. /\ emitted' = emitted \cup {r}
        /\ lost' = lost \cup ((ToSet(tracker.pending) \cup {r}) \ ToSet(a.pending))
        /\ stamp' = IF stamp = a.active.key \/ stamp = r.key THEN stamp + 1 ELSE stamp
    BY <1>1, <2>2
  <2> HIDE DEF new
  <2>4. \A s \in emitted : s.key # r.key
    <3>1. r.key = stamp \/ (r.key = tracker.active.key /\ tracker.active # NoJob)
      BY <2>1 DEF Closes, Reopens, Recovers, RecordOf
    <3>2. QED
      BY <1>4, <3>1 DEF IInv, KeysUnique
  <2>5. NewRecord(r)
    BY <1>1, <1>3, <2>1, <2>3, <2>4 DEF NewRecord
  <2>6. CASE Closes(tracker, ps, a, r)
    <3>1. a.active.key # stamp /\ r.key # stamp
      BY <1>4, <2>6 DEF Closes, RecordOf
    <3>2. QED
      BY <1>1, <2>3, <2>5, <2>6, <3>1 DEF PollCloses
  <2>7. CASE Reopens(tracker, ps, stamp, a, r)
    <3>1. a.active.key = stamp
      BY <2>7 DEF Reopens, NewJob
    <3>2. QED
      BY <1>1, <2>3, <2>5, <2>7, <3>1 DEF PollReopens
  <2>8. CASE Recovers(tracker, ps, stamp, a, r)
    <3>1. a.active.key # stamp /\ r.key = stamp
      BY <1>4, <2>8 DEF Recovers
    <3>2. QED
      BY <1>1, <2>3, <2>5, <2>8, <3>1 DEF PollRecovers
  <2>9. QED
    BY <2>1, <2>6, <2>7, <2>8
<1>8. QED
  BY <1>6, <1>7

-------------------------------------------------------------------------------
(* Every action preserves the invariant. *)

\* The types the arithmetic below needs.
LEMMA Numbers ==
  ASSUME IInv
  PROVE  /\ ps.print \in Nat /\ ps.dur \in Nat /\ data.print \in Nat /\ tracker.dur \in Int
         /\ tracker.active.key \in Nat /\ tracker.active.opened \in Nat
         /\ stamp \in Nat /\ stamp > 0 /\ Len(fates) \in Nat
         /\ \A r \in emitted : r.key \in Nat /\ r.opened \in Nat /\ r.opened > 0 /\ r.ended \in Nat
         /\ NoJob.key = 0 /\ ps.state \in States /\ ps.state # NoState
<1>1. tracker.active \in Jobs /\ tracker.dur \in Int
  BY DEF IInv, Typed, Trackers
<1>2. tracker.active.key \in Nat /\ tracker.active.opened \in Nat
  BY <1>1 DEF Jobs
<1>3. \A r \in emitted : r.key \in Nat /\ r.opened \in Nat /\ r.opened > 0 /\ r.ended \in Nat
  BY DEF IInv, Held, Records, Prints
<1>4. ps.state \in States /\ ps.print \in Nat /\ ps.dur \in Nat /\ data.print \in Nat
  BY DEF IInv, Typed, Samples
<1>5. ps.state # NoState
  BY <1>4 DEF States, Underway, Terminal, TerminalFailed, NoState
<1>6. stamp \in Nat /\ stamp > 0 /\ Len(fates) \in Nat /\ NoJob.key = 0
  <2>1. stamp \in Nat \ {0} /\ fates \in Seq({"active"} \cup Terminal)
    BY DEF IInv, Typed
  <2>2. QED
    BY <2>1 DEF NoJob
<1>7. QED
  BY <1>1, <1>2, <1>3, <1>4, <1>5, <1>6

\* Records are never forgotten by the histories, so what is spanned stays so.
LEMMA SpannedGrows ==
  ASSUME NEW p, NEW R, NEW S, R \subseteq S, Spanned(p, R)
  PROVE  Spanned(p, S)
BY DEF Spanned

\* What every poll keeps.
LEMMA PollCommon ==
  ASSUME IInv, PollFrame, Len(tracker'.pending) <= MaxPending, stamp' \in {stamp, stamp + 1},
         emitted \subseteq emitted', lost \subseteq lost'
  PROVE  Typed' /\ PrinterSane' /\ OneAdapter' /\ Shown' /\ OverWithRecord'
<1>1. Typed'
  <2>1. data' \in [state : States \cup {NoState}, print : Nat]
    BY Numbers DEF PollFrame
  <2>2. stamp' \in Nat \ {0}
    <3>1. stamp \in Nat /\ stamp > 0
      BY Numbers
    <3>2. QED
      BY <3>1
  <2>3. QED
    BY <2>1, <2>2 DEF IInv, Typed, PollFrame
<1>2. PrinterSane'
  BY DEF IInv, PrinterSane, PollFrame
<1>3. OneAdapter'
  <2>1. data'.state = tracker'.last /\ tracker'.last # NoState /\ attached'
    BY Numbers DEF PollFrame
  <2>2. pc' = "stop" => upsets' > 0
    BY DEF IInv, OneAdapter, PollFrame
  <2>3. QED
    BY <2>1, <2>2 DEF OneAdapter
<1>4. Shown'
  <2>1. \A p : Spanned(p, emitted) => Spanned(p, emitted')
    BY SpannedGrows
  <2>2. \A p : Spanned(p, received \cup lost \cup ToSet(jobs))
                 => Spanned(p, received \cup lost' \cup ToSet(jobs))
    BY SpannedGrows
  <2>3. QED
    BY <2>1, <2>2 DEF IInv, Shown, PollFrame
<1>5. OverWithRecord'
  BY DEF IInv, OverWithRecord, PollFrame
<1>6. QED
  BY <1>1, <1>2, <1>3, <1>4, <1>5

\* PollQuiet keeps IInv.
LEMMA PollQuietStep ==
  ASSUME IInv, PollQuiet
  PROVE  IInv'
<1> USE DEF PollQuiet, PollFrame, Quiet
<1>1. Typed' /\ PrinterSane' /\ OneAdapter' /\ Shown' /\ OverWithRecord'
  BY PollCommon DEF IInv, Typed
<1>2. Held' /\ RecordsKept'
  BY DEF IInv, Held, RecordsKept
<1>3. KeysUnique'
  BY DEF IInv, KeysUnique
<1>0. data'.print = ps.print /\ data.print \in Nat /\ ps.print \in Nat /\ tracker.active.opened \in Nat
  BY Numbers
<1>4. OpenJob'
  BY <1>0 DEF IInv, OpenJob
<1>5. NoFalseReset'
  <2>1. ps.dur \in Nat
    BY Numbers
  <2>2. QED
    BY <1>0, <2>1 DEF IInv, NoFalseReset
<1>6. ClosedAfter' /\ CountedOnce' /\ DoneIsDone'
  BY DEF IInv, ClosedAfter, CountedOnce, DoneIsDone
<1>7. Followed'
  BY DEF IInv, Followed
<1>8. QED
  BY <1>1, <1>2, <1>3, <1>4, <1>5, <1>6, <1>7 DEF IInv

\* PollOpens keeps IInv.
LEMMA PollOpensStep ==
  ASSUME IInv, PollOpens
  PROVE  IInv'
<1> USE DEF PollOpens, PollFrame, Opens
<1>0. tracker'.active.key = stamp /\ tracker'.active.opened = ps.print /\ tracker'.active.file = ps.file
  BY DEF NewJob
<1>1. Typed' /\ PrinterSane' /\ OneAdapter' /\ Shown' /\ OverWithRecord'
  BY PollCommon DEF IInv, Typed
<1>2. Held' /\ RecordsKept'
  BY DEF IInv, Held, RecordsKept
<1>3. KeysUnique'
  BY <1>0, Numbers DEF IInv, KeysUnique
<1>4. OpenJob'
  BY <1>0, Numbers DEF IInv, OpenJob, PrinterSane, ClosedAfter, Underway
<1>5. NoFalseReset'
  BY <1>0, Numbers DEF IInv, NoFalseReset
<1>6. ClosedAfter' /\ CountedOnce' /\ DoneIsDone'
  BY DEF IInv, ClosedAfter, CountedOnce, DoneIsDone
<1>7. Followed'
  <2>1. tracker'.active # NoJob
    BY <1>0, Numbers
  <2>2. QED
    BY <1>0, <2>1 DEF IInv, Followed, Underway
<1>8. QED
  BY <1>1, <1>2, <1>3, <1>4, <1>5, <1>6, <1>7 DEF IInv

\* What every poll that emits a record keeps.
LEMMA ReportedCommon ==
  ASSUME IInv, NEW r \in Records, NewRecord(r), stamp' \in {stamp, stamp + 1}
  PROVE  /\ Typed' /\ PrinterSane' /\ OneAdapter' /\ Shown' /\ OverWithRecord'
         /\ Held' /\ RecordsKept'
<1> USE DEF NewRecord
<1>1. Len(tracker'.pending) <= MaxPending /\ emitted \subseteq emitted' /\ lost \subseteq lost'
  BY DEF Buffers
<1>2. Typed' /\ PrinterSane' /\ OneAdapter' /\ Shown' /\ OverWithRecord'
  BY <1>1, PollCommon
<1>3. ToSet(tracker'.pending) \subseteq ToSet(tracker.pending) \cup {r}
  BY DEF Buffers
<1>4. orphans' = orphans /\ jobs' = jobs /\ received' = received
  BY DEF PollFrame
<1>5. ToSet(orphans') = ToSet(orphans) /\ ToSet(jobs') = ToSet(jobs)
  BY <1>4
<1>6. Held'
  BY <1>3, <1>4, <1>5 DEF IInv, Held
<1>7. RecordsKept'
  BY <1>3, <1>4, <1>5 DEF IInv, RecordsKept
<1>8. QED
  BY <1>2, <1>6, <1>7

\* PollCloses keeps IInv.
LEMMA PollClosesStep ==
  ASSUME IInv, NEW r \in Records, PollCloses(r)
  PROVE  IInv'
<1> USE DEF PollCloses, Closes, RecordOf
<1>0. /\ emitted' = emitted \cup {r} /\ \A s \in emitted : s.key # r.key
      /\ ps' = ps /\ fates' = fates /\ upsets' = upsets
      /\ data'.print = ps.print /\ data'.state = ps.state /\ tracker'.dur = ps.dur
  BY DEF NewRecord, PollFrame
<1>1. /\ Typed' /\ PrinterSane' /\ OneAdapter' /\ Shown' /\ OverWithRecord'
      /\ Held' /\ RecordsKept'
  BY ReportedCommon
<1>2. /\ r.opened \in Nat /\ r.opened <= data.print /\ data.print <= ps.print /\ data.print \in Nat
      /\ ps.print \in Nat /\ r.ended = ps.print /\ r.opened <= r.ended
  <2>1. data.print \in Nat /\ ps.print \in Nat /\ tracker.active.opened \in Nat
    BY Numbers
  <2>2. tracker.active.opened <= data.print /\ data.print <= ps.print
    BY DEF IInv, OpenJob
  <2>3. r.opened = tracker.active.opened /\ r.ended = ps.print
    OBVIOUS
  <2>4. QED
    BY <2>1, <2>2, <2>3
<1>3. KeysUnique'
  BY <1>0, Numbers DEF IInv, KeysUnique
<1>4. OpenJob'
  BY <1>0, <1>2 DEF OpenJob
<1>5. NoFalseReset'
  BY <1>0, Numbers DEF NoFalseReset
<1>6. ClosedAfter'
  BY <1>0, <1>2 DEF IInv, ClosedAfter
<1>7. CountedOnce'
  BY <1>0 DEF IInv, OpenJob, CountedOnce
<1>8. DoneIsDone'
  <2>1. r.status = "done" => fates[ps.print] = "complete"
    BY DEF IInv, PrinterSane, Terminal
  <2>2. QED
    BY <1>0, <2>1 DEF IInv, DoneIsDone
<1>9. Followed'
  <2>1. Spanned(tracker.active.opened, emitted')
    BY <1>0, <1>2 DEF Spanned
  <2>2. \A p : Spanned(p, emitted) => Spanned(p, emitted')
    BY <1>0, SpannedGrows
  <2>3. QED
    BY <2>1, <2>2 DEF IInv, Followed
<1>10. QED
  BY <1>1, <1>3, <1>4, <1>5, <1>6, <1>7, <1>8, <1>9 DEF IInv

\* PollReopens keeps IInv.
LEMMA PollReopensStep ==
  ASSUME IInv, NEW r \in Records, PollReopens(r)
  PROVE  IInv'
<1> USE DEF PollReopens, Reopens, RecordOf
<1>0. /\ emitted' = emitted \cup {r} /\ \A s \in emitted : s.key # r.key
      /\ ps' = ps /\ fates' = fates /\ upsets' = upsets
      /\ data'.print = ps.print /\ data'.state = ps.state /\ tracker'.dur = ps.dur
  BY DEF NewRecord, PollFrame
<1>1. /\ Typed' /\ PrinterSane' /\ OneAdapter' /\ Shown' /\ OverWithRecord'
      /\ Held' /\ RecordsKept'
  BY ReportedCommon
<1>2. /\ r.opened \in Nat /\ r.opened <= data.print /\ data.print <= ps.print /\ data.print \in Nat
      /\ ps.print \in Nat /\ r.ended = ps.print /\ r.opened <= r.ended
  BY Numbers DEF IInv, OpenJob
<1>3. /\ tracker'.active.key = stamp /\ tracker'.active.opened = ps.print
      /\ tracker'.active.file = ps.file /\ ps.print > 0 /\ tracker'.active # NoJob
  <2>1. tracker'.active.key = stamp /\ tracker'.active.opened = ps.print /\ tracker'.active.file = ps.file
    BY DEF NewJob
  <2>2. ps.print > 0
    BY DEF IInv, PrinterSane, Underway
  <2>3. stamp # 0 /\ NoJob.key = 0
    BY Numbers
  <2>4. QED
    BY <2>1, <2>2, <2>3
<1>4. r.opened < ps.print
  <2> SUFFICES ASSUME r.opened = ps.print PROVE FALSE
    BY <1>2
  <2>1. data.print = ps.print
    BY <1>2
  <2>2. tracker.dur <= ps.dur /\ tracker.active.file \in {NoFile, ps.file}
    BY <2>1 DEF IInv, NoFalseReset, Underway
  <2>3. ~DurationReset(tracker, ps)
    BY <2>2, Numbers DEF DurationReset
  <2>4. ~FilenameChanged(tracker, ps)
    BY <2>2 DEF FilenameChanged
  <2>5. QED
    BY <2>3, <2>4
<1>5. KeysUnique'
  BY <1>0, <1>3, Numbers DEF IInv, KeysUnique
<1>6. OpenJob'
  BY <1>0, <1>2, <1>3, <1>4, Numbers DEF IInv, OpenJob, ClosedAfter, Underway
<1>7. NoFalseReset'
  BY <1>0, <1>3, Numbers DEF NoFalseReset
<1>8. ClosedAfter'
  BY <1>0, <1>2, <1>4 DEF IInv, ClosedAfter
<1>9. CountedOnce'
  BY <1>0 DEF IInv, OpenJob, CountedOnce
<1>10. DoneIsDone'
  BY <1>0, <1>2, <1>4 DEF IInv, DoneIsDone
<1>11. Followed'
  <2>1. Spanned(tracker.active.opened, emitted')
    BY <1>0, <1>2 DEF Spanned
  <2>2. \A p : Spanned(p, emitted) => Spanned(p, emitted')
    BY <1>0, SpannedGrows
  <2>3. QED
    BY <1>0, <1>3, <2>1, <2>2 DEF IInv, Followed, Underway
<1>12. QED
  BY <1>1, <1>5, <1>6, <1>7, <1>8, <1>9, <1>10, <1>11 DEF IInv

\* PollRecovers keeps IInv.
LEMMA PollRecoversStep ==
  ASSUME IInv, NEW r \in Records, PollRecovers(r)
  PROVE  IInv'
<1> USE DEF PollRecovers, Recovers
<1>0. /\ emitted' = emitted \cup {r} /\ \A s \in emitted : s.key # r.key
      /\ ps' = ps /\ fates' = fates /\ upsets' = upsets
      /\ data'.print = ps.print /\ data'.state = ps.state /\ tracker'.dur = ps.dur
  BY DEF NewRecord, PollFrame
<1>11. /\ r.key = stamp /\ r.opened = ps.print /\ r.ended = ps.print /\ r.recovered
       /\ tracker'.active = NoJob /\ stamp' = stamp + 1 /\ followed' = followed
       /\ r.status = "done" => ps.state = "complete"
       /\ NoJob.key = 0 /\ ps.state \in Terminal /\ tracker.last = NoState /\ tracker.active = NoJob
  BY Numbers
<1>1. /\ Typed' /\ PrinterSane' /\ OneAdapter' /\ Shown' /\ OverWithRecord'
      /\ Held' /\ RecordsKept'
  BY ReportedCommon
<1> HIDE DEF PollRecovers, Recovers
<1>2. /\ ps.print \in Nat /\ ps.state \notin Underway /\ stamp \in Nat /\ stamp > 0
      /\ \A s \in emitted : s.key \in Nat /\ s.key < stamp
  <2>1. ps.state \notin Underway
    BY <1>11 DEF Underway, Terminal, TerminalFailed
  <2>2. \A s \in emitted : s.key < stamp
    BY DEF IInv, KeysUnique
  <2>3. QED
    BY <2>1, <2>2, Numbers
<1>3. KeysUnique'
  BY <1>0, <1>11, <1>2 DEF IInv, KeysUnique
<1>4. OpenJob'
  BY <1>0, <1>11, <1>2 DEF OpenJob
<1>5. NoFalseReset'
  BY <1>0, <1>2 DEF NoFalseReset
<1>6. ClosedAfter'
  BY <1>0, <1>11, <1>2 DEF IInv, ClosedAfter
<1>7. CountedOnce'
  <2>1. CASE upsets = 0
    <3>1. emitted = {}
      BY <1>11, <2>1 DEF IInv, OneAdapter
    <3>2. QED
      BY <1>0, <3>1 DEF CountedOnce
  <2>2. CASE upsets > 0
    BY <1>0, <1>11, <2>2 DEF IInv, CountedOnce
  <2>3. QED
    <3>1. upsets \in Nat
      BY DEF IInv, Typed
    <3>2. QED
      BY <2>1, <2>2, <3>1
<1>8. DoneIsDone'
  <2>1. r.status = "done" => fates[ps.print] = "complete"
    BY <1>11 DEF IInv, PrinterSane, Terminal
  <2>2. QED
    BY <1>0, <1>11, <2>1 DEF IInv, DoneIsDone
<1>9. Followed'
  BY <1>11 DEF IInv, OneAdapter, Followed
<1>10. QED
  BY <1>1, <1>3, <1>4, <1>5, <1>6, <1>7, <1>8, <1>9 DEF IInv

\* PollOk keeps IInv.
LEMMA PollOkStep ==
  ASSUME IInv, PollOk
  PROVE  IInv'
BY PollCases, PollQuietStep, PollOpensStep, PollClosesStep, PollReopensStep, PollRecoversStep

\* What no printer action touches.
PrinterFrame ==
  /\ attached' = attached /\ data' = data /\ tracker' = tracker /\ stamp' = stamp
  /\ followed' = followed /\ orphans' = orphans /\ pc' = pc /\ status' = status /\ jobs' = jobs
  /\ received' = received /\ over' = over /\ emitted' = emitted /\ lost' = lost
  /\ upsets' >= upsets /\ upsets' \in Nat

\* What the printer's own steps keep.
LEMMA PrinterCommon ==
  ASSUME IInv, PrinterFrame, ps' \in Samples, fates' \in Seq({"active"} \cup Terminal)
  PROVE  /\ Typed' /\ Held' /\ OneAdapter' /\ KeysUnique' /\ Followed' /\ Shown'
         /\ RecordsKept' /\ CountedOnce' /\ OverWithRecord'
<1> USE DEF PrinterFrame
<1>1. Typed'
  BY DEF IInv, Typed
<1>2. Held' /\ KeysUnique' /\ Followed' /\ Shown' /\ RecordsKept' /\ OverWithRecord'
  BY DEF IInv, Held, KeysUnique, Followed, Shown, RecordsKept, OverWithRecord
<1>3. upsets \in Nat /\ (upsets > 0 => upsets' > 0)
  BY DEF IInv, Typed
<1>4. CountedOnce' /\ OneAdapter'
  BY <1>3 DEF IInv, CountedOnce, OneAdapter
<1>5. QED
  BY <1>1, <1>2, <1>4

\* StartPrint keeps IInv.
LEMMA StartPrintStep ==
  ASSUME IInv, NEW f \in Files, StartPrint(f)
  PROVE  IInv'
<1> USE DEF StartPrint
<1>1. PrinterFrame
  BY DEF PrinterFrame, IInv, Typed, adapterVars, beatVars, cloudVars, histVars
<1>2. /\ ps'.state = "printing" /\ ps'.print = ps.print + 1 /\ ps'.dur = 0
      /\ ps.print \in Nat /\ Len(fates) = ps.print /\ Len(fates) \in Nat
  BY Numbers DEF IInv, PrinterSane
<1>3. ps' \in Samples
  BY <1>2 DEF Samples, States, Underway, FileNames
<1>4. fates \in Seq({"active"} \cup Terminal)
  BY DEF IInv, Typed
<1>5. /\ fates' \in Seq({"active"} \cup Terminal) /\ Len(fates') = Len(fates) + 1
      /\ \A i \in 1 .. Len(fates) : fates'[i] = fates[i]
  BY <1>4
<1>6. /\ Typed' /\ Held' /\ OneAdapter' /\ KeysUnique' /\ Followed' /\ Shown'
      /\ RecordsKept' /\ CountedOnce' /\ OverWithRecord'
  BY <1>1, <1>3, <1>5, PrinterCommon
<1>7. PrinterSane'
  BY <1>2, <1>5 DEF PrinterSane, Terminal, TerminalFailed
<1>8. /\ \A r \in emitted : r.opened <= r.ended /\ r.ended <= ps.print /\ r.opened \in 1 .. Len(fates)
      /\ \A r \in emitted : r.ended \in Nat
  BY <1>2, Numbers DEF IInv, ClosedAfter
<1>9. data.print <= ps.print /\ data.print \in Nat /\ tracker.active.opened \in Nat
  BY Numbers DEF IInv, OpenJob
<1>10. OpenJob'
  BY <1>1, <1>2, <1>9 DEF PrinterFrame, IInv, OpenJob
<1>11. NoFalseReset'
  <2>1. data.print # ps'.print
    BY <1>2, <1>9
  <2>2. tracker.active # NoJob => tracker.active.opened # ps'.print
    BY <1>2, <1>9 DEF IInv, OpenJob
  <2>3. QED
    BY <1>1, <2>1, <2>2 DEF PrinterFrame, NoFalseReset
<1>12. ClosedAfter'
  BY <1>1, <1>2, <1>8 DEF PrinterFrame, ClosedAfter
<1>13. DoneIsDone'
  BY <1>1, <1>5, <1>8 DEF PrinterFrame, IInv, DoneIsDone
<1>14. QED
  BY <1>6, <1>7, <1>10, <1>11, <1>12, <1>13 DEF IInv

\* Advance, Pause and Resume: the same print goes on.
LEMMA GoesOnStep ==
  ASSUME IInv, Advance \/ Pause \/ Resume
  PROVE  IInv'
<1> USE DEF Advance, Pause, Resume
<1>1. PrinterFrame
  <2>1. upsets \in Nat
    BY DEF IInv, Typed
  <2>2. upsets' >= upsets /\ upsets' \in Nat
    BY <2>1
  <2>3. QED
    BY <2>2 DEF PrinterFrame, adapterVars, beatVars, cloudVars, histVars
<1>2. ps \in Samples /\ fates \in Seq({"active"} \cup Terminal) /\ ps.dur \in Nat /\ ps.print \in Nat
  BY Numbers DEF IInv, Typed
<1>3. /\ ps' \in Samples /\ ps'.print = ps.print /\ ps'.file = ps.file /\ fates' = fates
      /\ ps'.dur >= ps.dur /\ ps'.dur \in Nat
  BY <1>2 DEF Samples, States, Underway
<1>4. ps.state \in Underway /\ ps'.state \in Underway /\ ps'.state \notin Terminal
  BY <1>2 DEF Samples, Underway, Terminal, TerminalFailed
<1>5. ps'.dur <= MaxDur
  BY <1>2 DEF Samples, IInv, PrinterSane
<1>6. /\ Typed' /\ Held' /\ OneAdapter' /\ KeysUnique' /\ Followed' /\ Shown'
      /\ RecordsKept' /\ CountedOnce' /\ OverWithRecord'
  BY <1>1, <1>2, <1>3, PrinterCommon
<1> HIDE DEF Advance, Pause, Resume
<1>7. PrinterSane'
  BY <1>3, <1>4, <1>5 DEF IInv, PrinterSane
<1>8. OpenJob'
  BY <1>1, <1>3 DEF PrinterFrame, IInv, OpenJob
<1>9. NoFalseReset'
  <2>1. tracker.dur \in Int
    BY Numbers
  <2>2. QED
    BY <1>1, <1>2, <1>3, <1>4, <2>1 DEF PrinterFrame, IInv, NoFalseReset
<1>10. ClosedAfter' /\ DoneIsDone'
  BY <1>1, <1>3, <1>4 DEF PrinterFrame, IInv, ClosedAfter, DoneIsDone
<1>11. QED
  BY <1>6, <1>7, <1>8, <1>9, <1>10 DEF IInv

\* EndPrint keeps IInv.
LEMMA EndPrintStep ==
  ASSUME IInv, NEW e \in Endings, EndPrint(e)
  PROVE  IInv'
<1> USE DEF EndPrint
<1>1. PrinterFrame
  BY DEF PrinterFrame, IInv, Typed, adapterVars, beatVars, cloudVars, histVars
<1>2. ps \in Samples /\ fates \in Seq({"active"} \cup Terminal) /\ ps.print \in Nat
  BY Numbers DEF IInv, Typed
<1>3. e \in Terminal /\ e \notin Underway
  BY DEF Terminal, TerminalFailed, Underway
<1>4. ps' \in Samples /\ ps'.print = ps.print /\ ps'.dur = ps.dur /\ ps'.state = e
  BY <1>2, <1>3 DEF Samples, States
<1>5. ps.print \in 1 .. Len(fates)
  BY <1>2 DEF IInv, PrinterSane
<1>6. /\ fates' \in Seq({"active"} \cup Terminal) /\ Len(fates') = Len(fates)
      /\ fates'[ps.print] = e /\ \A i \in 1 .. Len(fates) : i # ps.print => fates'[i] = fates[i]
  BY <1>2, <1>3, <1>5
<1>7. /\ Typed' /\ Held' /\ OneAdapter' /\ KeysUnique' /\ Followed' /\ Shown'
      /\ RecordsKept' /\ CountedOnce' /\ OverWithRecord'
  BY <1>1, <1>4, <1>6, PrinterCommon
<1>8. PrinterSane'
  BY <1>4, <1>5, <1>6 DEF IInv, PrinterSane
<1>9. OpenJob' /\ NoFalseReset'
  BY <1>1, <1>3, <1>4 DEF PrinterFrame, IInv, OpenJob, NoFalseReset
<1>10. ClosedAfter'
  BY <1>1, <1>3, <1>4 DEF PrinterFrame, IInv, ClosedAfter
<1>11. DoneIsDone'
  <2>1. \A r \in emitted : r.opened \in 1 .. Len(fates) /\ r.opened # ps.print
    <3>1. \A r \in emitted : r.opened <= r.ended /\ r.ended <= ps.print /\ r.opened # ps.print
      BY DEF IInv, ClosedAfter
    <3>2. \A r \in emitted : r.opened \in Nat /\ r.opened > 0 /\ r.ended \in Nat
      BY Numbers
    <3>3. Len(fates) = ps.print
      BY DEF IInv, PrinterSane
    <3>4. QED
      BY <1>2, <3>1, <3>2, <3>3
  <2>2. QED
    BY <1>1, <1>6, <2>1 DEF PrinterFrame, IInv, DoneIsDone
<1>12. QED
  BY <1>7, <1>8, <1>9, <1>10, <1>11 DEF IInv

\* Unload keeps IInv.
LEMMA UnloadStep ==
  ASSUME IInv, Unload
  PROVE  IInv'
<1> USE DEF Unload
<1>1. PrinterFrame
  BY DEF PrinterFrame, IInv, Typed, adapterVars, beatVars, cloudVars, histVars
<1>2. ps \in Samples /\ fates \in Seq({"active"} \cup Terminal) /\ ps.print \in Nat
  BY Numbers DEF IInv, Typed
<1>3. ps' = [state |-> "standby", file |-> NoFile, dur |-> 0, print |-> ps.print] /\ fates' = fates
  BY <1>2 DEF Samples
<1>4. ps' \in Samples /\ ps'.print = ps.print /\ ps'.state = "standby" /\ ps'.dur = 0
  BY <1>2, <1>3 DEF Samples, States, FileNames
<1>5. "standby" \notin Underway /\ "standby" \notin Terminal
  BY DEF Underway, Terminal, TerminalFailed
<1>6. /\ Typed' /\ Held' /\ OneAdapter' /\ KeysUnique' /\ Followed' /\ Shown'
      /\ RecordsKept' /\ CountedOnce' /\ OverWithRecord'
  BY <1>1, <1>2, <1>3, <1>4, PrinterCommon
<1>7. PrinterSane'
  BY <1>3, <1>4, <1>5 DEF IInv, PrinterSane
<1>8. OpenJob' /\ NoFalseReset'
  BY <1>1, <1>4, <1>5 DEF PrinterFrame, IInv, OpenJob, NoFalseReset
<1>9. ClosedAfter' /\ DoneIsDone'
  BY <1>1, <1>3, <1>4, <1>5 DEF PrinterFrame, IInv, ClosedAfter, DoneIsDone
<1>10. QED
  BY <1>6, <1>7, <1>8, <1>9 DEF IInv

\* The actions of the heartbeat that leave the printer, the adapter and the histories alone.
BeatFrame ==
  /\ ps' = ps /\ fates' = fates /\ attached' = attached /\ data' = data
  /\ tracker' = tracker /\ stamp' = stamp /\ followed' = followed
  /\ emitted' = emitted /\ lost' = lost

\* What the heartbeat's steps keep.
LEMMA BeatCommon ==
  ASSUME IInv, BeatFrame, upsets' \in Nat, upsets' >= upsets, pc' = "stop" => attached /\ upsets' > 0
  PROVE  /\ PrinterSane' /\ OneAdapter' /\ KeysUnique' /\ OpenJob' /\ NoFalseReset' /\ ClosedAfter'
         /\ Followed' /\ CountedOnce' /\ DoneIsDone'
<1> USE DEF BeatFrame
<1>1. PrinterSane' /\ KeysUnique' /\ OpenJob' /\ NoFalseReset' /\ ClosedAfter' /\ Followed' /\ DoneIsDone'
  BY DEF IInv, PrinterSane, KeysUnique, OpenJob, NoFalseReset, ClosedAfter, Followed, DoneIsDone
<1>2. upsets \in Nat /\ (upsets > 0 => upsets' > 0)
  BY DEF IInv, Typed
<1>3. OneAdapter' /\ CountedOnce'
  BY <1>2 DEF IInv, OneAdapter, CountedOnce
<1>4. QED
  BY <1>1, <1>3

\* CollectStatus keeps IInv.
LEMMA CollectStatusStep ==
  ASSUME IInv, CollectStatus
  PROVE  IInv'
<1> USE DEF CollectStatus
<1>1. BeatFrame /\ upsets' = upsets /\ orphans' = orphans /\ jobs' = jobs /\ received' = received /\ over' = over
  BY DEF BeatFrame, printerVars, adapterVars, cloudVars, histVars
<1>2. upsets \in Nat
  BY DEF IInv, Typed
<1>3. /\ PrinterSane' /\ OneAdapter' /\ KeysUnique' /\ OpenJob' /\ NoFalseReset' /\ ClosedAfter'
      /\ Followed' /\ CountedOnce' /\ DoneIsDone'
  BY <1>1, <1>2, BeatCommon
<1>4. Held' /\ RecordsKept' /\ OverWithRecord'
  BY <1>1 DEF BeatFrame, IInv, Held, RecordsKept, OverWithRecord
<1>5. \/ status' = NoStatus
      \/ status'.act = Activity /\ status'.print \in {0, data.print}
         /\ status' \in [act : {"none", "idle", "error"} \cup Underway, print : Nat]
         /\ (status'.print # 0 => status'.print \in followed)
  <2>1. CASE status' = NoStatus
    BY <2>1
  <2>2. CASE status' # NoStatus
    <3>1. status' = [act |-> Activity, print |-> IF data.print \in followed THEN data.print ELSE 0]
      BY <2>2 DEF StatusRead
    <3>2. Activity \in {"none", "idle", "error"} \cup Underway
      BY DEF Activity
    <3>3. data.print \in Nat
      BY Numbers
    <3>4. QED
      BY <3>1, <3>2, <3>3
  <2>3. QED
    BY <2>1, <2>2
<1>6. status' \in [act : {"none", "idle", "error"} \cup Underway, print : Nat]
  BY <1>5 DEF NoStatus
<1>7. Typed'
  BY <1>1, <1>2, <1>6 DEF BeatFrame, IInv, Typed
<1>8. Shown'
  <2> SUFFICES ASSUME status'.act \in {"idle", "error"}, status'.print # 0
               PROVE  Spanned(status'.print, emitted)
    BY <1>1 DEF Shown, BeatFrame
  <2>1. status'.act = Activity /\ status'.print \in followed
    BY <1>5 DEF NoStatus
  <2>2. data.state \notin Underway
    BY <2>1 DEF Activity, Underway
  <2>3. QED
    BY <2>1, <2>2 DEF IInv, Followed
<1>9. QED
  BY <1>3, <1>4, <1>7, <1>8 DEF IInv

\* CollectJobs keeps IInv.
LEMMA CollectJobsStep ==
  ASSUME IInv, CollectJobs
  PROVE  IInv'
<1> USE DEF CollectJobs
<1>1. BeatFrame /\ upsets' = upsets /\ orphans' = orphans /\ status' = status /\ received' = received /\ over' = over
  BY DEF BeatFrame, printerVars, adapterVars, cloudVars, histVars
<1>2. upsets \in Nat /\ orphans \in Seq(Records) /\ tracker.pending \in Seq(Records)
  BY DEF IInv, Typed, Trackers
<1>3. /\ PrinterSane' /\ OneAdapter' /\ KeysUnique' /\ OpenJob' /\ NoFalseReset' /\ ClosedAfter'
      /\ Followed' /\ CountedOnce' /\ DoneIsDone'
  BY <1>1, <1>2, BeatCommon
<1>4. jobs' = orphans \o tracker.pending
  <2>1. ~attached => tracker.pending = <<>>
    BY DEF IInv, OneAdapter, NewTracker
  <2>2. QED
    BY <2>1 DEF PendingJobs
<1>5. jobs' \in Seq(Records) /\ ToSet(jobs') = ToSet(orphans) \cup ToSet(tracker.pending)
  BY <1>2, <1>4, ConcatSet
<1>6. Typed'
  BY <1>1, <1>5 DEF BeatFrame, IInv, Typed
<1>7. Held' /\ RecordsKept' /\ OverWithRecord'
  BY <1>1, <1>5 DEF BeatFrame, IInv, Held, RecordsKept, OverWithRecord
<1>8. Shown'
  <2>1. emitted \subseteq received \cup lost \cup ToSet(jobs')
    BY <1>5 DEF IInv, RecordsKept
  <2>2. \A p : Spanned(p, emitted) => Spanned(p, received \cup lost \cup ToSet(jobs'))
    BY <2>1, SpannedGrows
  <2>3. QED
    BY <1>1, <2>2 DEF BeatFrame, IInv, Shown
<1>9. QED
  BY <1>3, <1>6, <1>7, <1>8 DEF IInv

\* The cloud takes a payload: everything it is shown as over comes with its record.
LEMMA IngestFacts ==
  ASSUME IInv, pc = "post", lost' = lost, Ingest
  PROVE  received' = received \cup ToSet(jobs) /\ OverWithRecord'
<1>1. received' = received \cup ToSet(jobs)
  BY DEF Ingest
<1>2. ASSUME NEW p \in over' PROVE Spanned(p, received' \cup lost')
  <2>1. CASE p \in over
    BY <1>1, <2>1 DEF IInv, OverWithRecord, Spanned
  <2>2. CASE p \notin over
    <3>1. status.act \in {"idle", "error"} /\ p = status.print /\ p # 0
      BY <2>2 DEF Ingest, Reported
    <3>2. Spanned(p, received \cup lost \cup ToSet(jobs))
      BY <3>1 DEF IInv, Shown
    <3>3. QED
      BY <1>1, <3>2, SpannedGrows
  <2>3. QED
    BY <2>1, <2>2
<1>3. QED
  BY <1>1, <1>2 DEF OverWithRecord, Spanned

\* PostFailed keeps IInv.
LEMMA PostFailedStep ==
  ASSUME IInv, PostFailed
  PROVE  IInv'
<1> USE DEF PostFailed
<1>1. BeatFrame /\ upsets' = upsets /\ orphans' = orphans /\ status' = NoStatus /\ jobs' = <<>>
  BY DEF BeatFrame, printerVars, adapterVars, histVars
<1>2. upsets \in Nat
  BY DEF IInv, Typed
<1>3. /\ PrinterSane' /\ OneAdapter' /\ KeysUnique' /\ OpenJob' /\ NoFalseReset' /\ ClosedAfter'
      /\ Followed' /\ CountedOnce' /\ DoneIsDone'
  BY <1>1, <1>2, BeatCommon
<1>4. received \subseteq received' /\ received' \subseteq received \cup ToSet(jobs) /\ OverWithRecord'
  <2>1. CASE Ingest
    BY <1>1, <2>1, IngestFacts DEF BeatFrame
  <2>2. CASE UNCHANGED cloudVars
    BY <1>1, <2>2 DEF BeatFrame, cloudVars, IInv, OverWithRecord
  <2>3. QED
    BY <2>1, <2>2
<1>5. ToSet(<<>>) = {} /\ <<>> \in Seq(Records)
  BY DEF ToSet
<1>6. Typed'
  BY <1>1, <1>2, <1>5 DEF BeatFrame, IInv, Typed, NoStatus
<1>7. Held' /\ RecordsKept'
  BY <1>1, <1>4, <1>5 DEF BeatFrame, IInv, Held, RecordsKept
<1>8. Shown'
  BY <1>1 DEF Shown, NoStatus
<1>9. QED
  BY <1>3, <1>4, <1>6, <1>7, <1>8 DEF IInv

\* An acknowledgement by key removes exactly the records that were in the payload.
LEMMA UnackedFacts ==
  ASSUME IInv, NEW q \in Seq(Records), ToSet(q) \subseteq emitted
  PROVE  /\ Unacked(q) \in Seq(Records) /\ Len(Unacked(q)) <= Len(q)
         /\ ToSet(Unacked(q)) \subseteq ToSet(q) /\ ToSet(q) \subseteq ToSet(Unacked(q)) \cup ToSet(jobs)
<1> DEFINE S == {r \in ToSet(q) : r.key \notin {j.key : j \in ToSet(jobs)}}
<1>1. Unacked(q) = Keep(q, S)
  BY DEF Unacked
<1> HIDE DEF S
<1>2. /\ Unacked(q) \in Seq(Records) /\ Len(Unacked(q)) <= Len(q)
      /\ ToSet(Unacked(q)) = ToSet(q) \cap S
  BY <1>1, KeepProperties
<1>3. ASSUME NEW r \in ToSet(q), r \notin S PROVE r \in ToSet(jobs)
  <2>1. PICK j \in ToSet(jobs) : j.key = r.key
    BY <1>3 DEF S
  <2>2. r \in emitted /\ j \in emitted
    BY DEF IInv, Held
  <2>3. QED
    BY <2>1, <2>2 DEF IInv, KeysUnique
<1>4. QED
  BY <1>2, <1>3

\* PostOk keeps IInv.
LEMMA PostOkStep ==
  ASSUME IInv, PostOk
  PROVE  IInv'
<1> USE DEF PostOk
<1>1. /\ ps' = ps /\ fates' = fates /\ attached' = attached /\ data' = data /\ stamp' = stamp
      /\ followed' = followed /\ emitted' = emitted /\ lost' = lost /\ upsets' = upsets
      /\ orphans' = Unacked(orphans) /\ status' = NoStatus /\ jobs' = <<>> /\ pc' = "idle"
  BY DEF printerVars, histVars
<1>2. tracker \in Trackers /\ orphans \in Seq(Records) /\ tracker.pending \in Seq(Records)
  BY DEF IInv, Typed, Trackers
<1>3. ToSet(orphans) \subseteq emitted /\ ToSet(tracker.pending) \subseteq emitted
  BY DEF IInv, Held
<1>4. tracker' = [tracker EXCEPT !.pending = Unacked(tracker.pending)]
  OBVIOUS
<1>5. /\ Unacked(orphans) \in Seq(Records) /\ ToSet(Unacked(orphans)) \subseteq ToSet(orphans)
      /\ ToSet(orphans) \subseteq ToSet(Unacked(orphans)) \cup ToSet(jobs)
  BY <1>2, <1>3, UnackedFacts
<1>6. /\ Unacked(tracker.pending) \in Seq(Records) /\ Len(Unacked(tracker.pending)) <= Len(tracker.pending)
      /\ ToSet(Unacked(tracker.pending)) \subseteq ToSet(tracker.pending)
      /\ ToSet(tracker.pending) \subseteq ToSet(Unacked(tracker.pending)) \cup ToSet(jobs)
  BY <1>2, <1>3, UnackedFacts
<1>7. /\ tracker' \in Trackers /\ tracker'.pending = Unacked(tracker.pending)
      /\ tracker'.active = tracker.active /\ tracker'.last = tracker.last /\ tracker'.dur = tracker.dur
  BY <1>2, <1>4, <1>6 DEF Trackers
<1>8. received' = received \cup ToSet(jobs) /\ OverWithRecord'
  BY <1>1, IngestFacts
<1> HIDE DEF PostOk
<1>9. ToSet(<<>>) = {} /\ <<>> \in Seq(Records)
  BY DEF ToSet
<1>10. Typed'
  <2>1. Len(tracker'.pending) <= MaxPending
    <3>1. Len(tracker.pending) <= MaxPending
      BY DEF IInv, Typed
    <3>2. Len(tracker.pending) \in Nat /\ Len(tracker'.pending) \in Nat
      BY <1>2, <1>6, <1>7
    <3>3. QED
      BY <1>6, <1>7, <3>1, <3>2
  <2>2. QED
    BY <1>1, <1>5, <1>7, <1>9, <2>1 DEF IInv, Typed, NoStatus
<1>11. Held'
  BY <1>1, <1>5, <1>6, <1>7, <1>8, <1>9 DEF IInv, Held
<1>12. RecordsKept'
  BY <1>1, <1>5, <1>6, <1>7, <1>8 DEF IInv, RecordsKept
<1>13. PrinterSane' /\ KeysUnique' /\ OpenJob' /\ NoFalseReset' /\ ClosedAfter' /\ Followed'
  BY <1>1, <1>7 DEF IInv, PrinterSane, KeysUnique, OpenJob, NoFalseReset, ClosedAfter, Followed
<1>14. CountedOnce' /\ DoneIsDone'
  BY <1>1 DEF IInv, CountedOnce, DoneIsDone
<1>15. OneAdapter'
  <2>1. ~attached => tracker.pending = <<>> /\ tracker = NewTracker
    BY DEF IInv, OneAdapter, NewTracker
  <2>2. ~attached => Len(Unacked(tracker.pending)) = 0
    BY <1>6, <2>1
  <2>3. ~attached => Unacked(tracker.pending) = <<>>
    BY <1>6, <2>2
  <2>4. ~attached => tracker' = NewTracker
    BY <1>4, <2>1, <2>3 DEF NewTracker
  <2>5. QED
    BY <1>1, <1>7, <2>4 DEF IInv, OneAdapter
<1>16. Shown'
  BY <1>1 DEF Shown, NoStatus
<1>17. QED
  BY <1>8, <1>10, <1>11, <1>12, <1>13, <1>14, <1>15, <1>16 DEF IInv

\* Rescue keeps IInv.
LEMMA RescueStep ==
  ASSUME IInv, Rescue
  PROVE  IInv'
<1> USE DEF Rescue
<1>1. /\ BeatFrame /\ status' = status /\ jobs' = jobs /\ received' = received /\ over' = over
      /\ attached /\ pc' = "stop" /\ upsets' = upsets + 1 /\ orphans' = orphans \o tracker.pending
  BY DEF BeatFrame, printerVars, adapterVars, cloudVars, histVars
<1> HIDE DEF Rescue
<1>2. upsets \in Nat /\ orphans \in Seq(Records) /\ tracker.pending \in Seq(Records)
  BY DEF IInv, Typed, Trackers
<1>3. /\ PrinterSane' /\ OneAdapter' /\ KeysUnique' /\ OpenJob' /\ NoFalseReset' /\ ClosedAfter'
      /\ Followed' /\ CountedOnce' /\ DoneIsDone'
  BY <1>1, <1>2, BeatCommon
<1>4. orphans' \in Seq(Records) /\ ToSet(orphans') = ToSet(orphans) \cup ToSet(tracker.pending)
  BY <1>1, <1>2, ConcatSet
<1>5. Typed'
  BY <1>1, <1>2, <1>4 DEF BeatFrame, IInv, Typed
<1>6. Held' /\ RecordsKept' /\ OverWithRecord'
  BY <1>1, <1>4 DEF BeatFrame, IInv, Held, RecordsKept, OverWithRecord
<1>7. Shown'
  BY <1>1 DEF Shown
<1>8. QED
  BY <1>3, <1>5, <1>6, <1>7 DEF IInv

\* StartAdapter keeps IInv.
LEMMA StartAdapterStep ==
  ASSUME IInv, StartAdapter
  PROVE  IInv'
<1> USE DEF StartAdapter
<1>1. /\ ps' = ps /\ fates' = fates /\ data' = data /\ tracker' = tracker /\ stamp' = stamp
      /\ followed' = followed /\ orphans' = orphans /\ pc' = pc /\ status' = status /\ jobs' = jobs
      /\ received' = received /\ over' = over /\ emitted' = emitted /\ lost' = lost
      /\ upsets' = upsets /\ attached' = TRUE /\ pc = "idle"
  BY DEF printerVars, beatVars, cloudVars, histVars
<1> HIDE DEF StartAdapter
<1>2. Typed' /\ PrinterSane' /\ Held' /\ KeysUnique' /\ OpenJob' /\ NoFalseReset'
  BY <1>1 DEF IInv, Typed, PrinterSane, Held, KeysUnique, OpenJob, NoFalseReset
<1>3. ClosedAfter' /\ Followed' /\ Shown' /\ RecordsKept' /\ CountedOnce' /\ DoneIsDone' /\ OverWithRecord'
  BY <1>1 DEF IInv, ClosedAfter, Followed, Shown, RecordsKept, CountedOnce, DoneIsDone, OverWithRecord
<1>4. OneAdapter'
  BY <1>1 DEF IInv, OneAdapter
<1>5. QED
  BY <1>2, <1>3, <1>4 DEF IInv

\* What is left of a tracker: nothing.
LEMMA ForgetFacts ==
  ASSUME IInv, ForgetAdapter
  PROVE  /\ attached' = FALSE /\ data'.state = NoState /\ data'.print = 0 /\ followed' = {}
         /\ data' = NoData /\ tracker' = NewTracker
         /\ tracker' \in Trackers /\ tracker'.active = NoJob /\ tracker'.last = NoState
         /\ tracker'.dur = -1 /\ tracker'.pending = <<>> /\ Len(tracker'.pending) <= MaxPending
         /\ ToSet(tracker'.pending) = {} /\ data' \in [state : States \cup {NoState}, print : Nat]
         /\ NoJob.key = 0
<1>1. /\ attached' = FALSE /\ data' = NoData /\ followed' = {} /\ tracker' = NewTracker
  BY DEF ForgetAdapter
<1>2. NoJob \in Jobs /\ NoJob.key = 0
  BY DEF NoJob, Jobs, FileNames
<1>3. /\ tracker'.active = NoJob /\ tracker'.last = NoState
      /\ tracker'.dur = -1 /\ tracker'.pending = <<>>
  BY <1>1 DEF NewTracker
<1>4. tracker' \in Trackers
  BY <1>1, <1>2 DEF NewTracker, Trackers
<1>5. Len(tracker'.pending) <= MaxPending /\ ToSet(tracker'.pending) = {}
  BY <1>3 DEF ToSet
<1>6. data'.state = NoState /\ data'.print = 0 /\ data' \in [state : States \cup {NoState}, print : Nat]
  BY <1>1 DEF NoData
<1>7. QED
  BY <1>1, <1>2, <1>3, <1>4, <1>5, <1>6

\* StopAdapter and Die: nothing but records, and the cloud, remembers a print.
LEMMA ForgetCommon ==
  ASSUME IInv, ForgetAdapter, ps' = ps, fates' = fates, stamp' = stamp, emitted' = emitted,
         upsets' \in Nat, upsets' > 0, upsets' >= upsets, pc' = "idle"
  PROVE  /\ PrinterSane' /\ OneAdapter' /\ KeysUnique' /\ OpenJob' /\ NoFalseReset' /\ ClosedAfter'
         /\ Followed' /\ CountedOnce' /\ DoneIsDone' /\ Shown'
<1>1. PrinterSane' /\ ClosedAfter' /\ DoneIsDone'
  BY DEF IInv, PrinterSane, ClosedAfter, DoneIsDone
<1>2. Shown'
  BY DEF Shown
<1>3. OneAdapter'
  BY ForgetFacts DEF OneAdapter
<1>4. /\ tracker'.active = NoJob /\ NoJob.key = 0 /\ tracker'.dur = -1 /\ followed' = {}
      /\ data'.print = 0
  BY ForgetFacts
<1>5. KeysUnique'
  <2>1. stamp \in Nat /\ stamp > 0
    BY Numbers
  <2>2. QED
    BY <1>4, <2>1 DEF IInv, KeysUnique
<1>6. OpenJob' /\ NoFalseReset'
  <2>1. ps.print \in Nat /\ ps.dur \in Nat
    BY Numbers
  <2>2. QED
    BY <1>4, <2>1 DEF OpenJob, NoFalseReset
<1>7. Followed'
  BY <1>4 DEF Followed
<1>8. CountedOnce'
  BY DEF IInv, CountedOnce
<1>9. QED
  BY <1>1, <1>2, <1>3, <1>5, <1>6, <1>7, <1>8

\* StopAdapter keeps IInv.
LEMMA StopAdapterStep ==
  ASSUME IInv, StopAdapter
  PROVE  IInv'
<1> USE DEF StopAdapter
<1>1. /\ ps' = ps /\ fates' = fates /\ stamp' = stamp /\ emitted' = emitted /\ pc' = "idle"
      /\ orphans' = orphans /\ status' = status /\ jobs' = jobs /\ received' = received /\ over' = over
      /\ upsets' = upsets /\ pc = "stop" /\ ForgetAdapter
      /\ lost' = lost \cup (ToSet(tracker.pending) \ ToSet(orphans))
  BY DEF printerVars, cloudVars
<1> HIDE DEF StopAdapter
<1>2. upsets \in Nat /\ upsets > 0
  BY <1>1 DEF IInv, Typed, OneAdapter
<1>3. /\ PrinterSane' /\ OneAdapter' /\ KeysUnique' /\ OpenJob' /\ NoFalseReset' /\ ClosedAfter'
      /\ Followed' /\ CountedOnce' /\ DoneIsDone' /\ Shown'
  BY <1>1, <1>2, ForgetCommon
<1>4. /\ tracker' \in Trackers /\ Len(tracker'.pending) <= MaxPending /\ ToSet(tracker'.pending) = {}
      /\ attached' = FALSE /\ data' \in [state : States \cup {NoState}, print : Nat]
  BY <1>1, ForgetFacts
<1>5. Typed'
  BY <1>1, <1>2, <1>4 DEF IInv, Typed
<1>6. Held' /\ RecordsKept'
  BY <1>1, <1>4 DEF IInv, Held, RecordsKept
<1>7. OverWithRecord'
  BY <1>1 DEF IInv, OverWithRecord
<1>8. QED
  BY <1>3, <1>5, <1>6, <1>7 DEF IInv

\* Die keeps IInv.
LEMMA DieStep ==
  ASSUME IInv, Die
  PROVE  IInv'
<1> USE DEF Die
<1>1. /\ ps' = ps /\ fates' = fates /\ stamp' = stamp /\ emitted' = emitted /\ pc' = "idle"
      /\ orphans' = <<>> /\ status' = NoStatus /\ jobs' = <<>> /\ received' = received /\ over' = over
      /\ upsets' = upsets + 1 /\ ForgetAdapter
      /\ lost' = lost \cup ((ToSet(orphans) \cup ToSet(tracker.pending)) \ received)
  BY DEF printerVars, cloudVars
<1> HIDE DEF Die
<1>2. upsets \in Nat /\ upsets' \in Nat /\ upsets' > 0 /\ upsets' >= upsets
  BY <1>1 DEF IInv, Typed
<1>3. /\ PrinterSane' /\ OneAdapter' /\ KeysUnique' /\ OpenJob' /\ NoFalseReset' /\ ClosedAfter'
      /\ Followed' /\ CountedOnce' /\ DoneIsDone' /\ Shown'
  BY <1>1, <1>2, ForgetCommon
<1>4. /\ tracker' \in Trackers /\ Len(tracker'.pending) <= MaxPending /\ ToSet(tracker'.pending) = {}
      /\ attached' = FALSE /\ data' \in [state : States \cup {NoState}, print : Nat]
  BY <1>1, ForgetFacts
<1>5. ToSet(<<>>) = {} /\ <<>> \in Seq(Records)
  BY DEF ToSet
<1>6. Typed'
  BY <1>1, <1>2, <1>4, <1>5 DEF IInv, Typed, NoStatus
<1>7. Held' /\ RecordsKept'
  BY <1>1, <1>4, <1>5 DEF IInv, Held, RecordsKept
<1>8. OverWithRecord'
  BY <1>1 DEF IInv, OverWithRecord
<1>9. QED
  BY <1>3, <1>6, <1>7, <1>8 DEF IInv

\* IInv holds initially.
LEMMA InitIInv ==
  ASSUME Init
  PROVE  IInv
<1> USE DEF Init
<1>1. NoJob \in Jobs /\ NoJob.key = 0 /\ NewTracker.active = NoJob /\ NewTracker.last = NoState
  BY DEF NoJob, Jobs, FileNames, NewTracker
<1>2. /\ NewTracker \in Trackers /\ NewTracker.pending = <<>> /\ NewTracker.dur = -1
      /\ NoData.state = NoState /\ NoData.print = 0 /\ ToSet(<<>>) = {}
  BY <1>1 DEF NewTracker, Trackers, NoData, ToSet
<1>3. ps \in Samples /\ NoData \in [state : States \cup {NoState}, print : Nat]
  BY DEF Samples, States, FileNames, NoData
<1>4. <<>> \in Seq(Records) /\ <<>> \in Seq({"active"} \cup Terminal) /\ Len(<<>>) = 0
  OBVIOUS
<1>5. Typed
  <2>1. NoStatus \in [act : {"none", "idle", "error"} \cup Underway, print : Nat]
    BY DEF NoStatus
  <2>2. Len(NewTracker.pending) <= MaxPending
    BY <1>2, <1>4
  <2>3. ps \in Samples /\ fates = <<>> /\ attached = FALSE /\ upsets = 0 /\ stamp = 1 /\ pc = "idle"
    BY <1>3
  <2>4. tracker = NewTracker /\ data = NoData /\ orphans = <<>> /\ jobs = <<>> /\ status = NoStatus
    OBVIOUS
  <2> HIDE DEF Init
  <2>5. fates \in Seq({"active"} \cup Terminal) /\ orphans \in Seq(Records) /\ jobs \in Seq(Records)
    BY <1>4, <2>3, <2>4
  <2>6. upsets \in Nat /\ stamp \in Nat \ {0} /\ pc \in {"idle", "jobs", "post", "stop"}
    BY <2>3
  <2>10. attached \in BOOLEAN
    BY <2>3, Zenon
  <2>7. /\ data \in [state : States \cup {NoState}, print : Nat] /\ tracker \in Trackers
        /\ Len(tracker.pending) <= MaxPending
    BY <1>2, <1>3, <2>2, <2>4
  <2>8. status \in [act : {"none", "idle", "error"} \cup Underway, print : Nat]
    BY <2>1, <2>4
  <2>9. QED
    BY <2>3, <2>5, <2>6, <2>7, <2>8, <2>10 DEF Typed
<1>6. "standby" \notin Underway /\ "standby" \notin Terminal /\ ps.state = "standby" /\ ps.print = 0 /\ ps.dur = 0
  BY DEF Underway, Terminal, TerminalFailed
<1>7. PrinterSane /\ NoFalseReset
  BY <1>4, <1>6 DEF PrinterSane, NoFalseReset
<1>8. Held /\ RecordsKept /\ ClosedAfter /\ CountedOnce /\ DoneIsDone
  BY <1>2 DEF Held, RecordsKept, ClosedAfter, CountedOnce, DoneIsDone
<1>9. OneAdapter /\ KeysUnique /\ OpenJob /\ Followed
  BY <1>1, <1>2, <1>6 DEF OneAdapter, KeysUnique, OpenJob, Followed
<1>10. Shown /\ OverWithRecord
  BY DEF Shown, OverWithRecord, NoStatus
<1>11. QED
  BY <1>5, <1>7, <1>8, <1>9, <1>10 DEF IInv

\* Every step keeps IInv.
LEMMA NextIInv ==
  ASSUME IInv, [Next]_vars
  PROVE  IInv'
<1>1. CASE \E f \in Files : StartPrint(f)
  BY <1>1, StartPrintStep
<1>2. CASE \E e \in Endings : EndPrint(e)
  BY <1>2, EndPrintStep
<1>3. CASE Advance \/ Pause \/ Resume
  BY <1>3, GoesOnStep
<1>4. CASE Unload
  BY <1>4, UnloadStep
<1>5. CASE PollOk
  BY <1>5, PollOkStep
<1>6. CASE CollectStatus
  BY <1>6, CollectStatusStep
<1>7. CASE CollectJobs
  BY <1>7, CollectJobsStep
<1>8. CASE PostOk
  BY <1>8, PostOkStep
<1>9. CASE PostFailed
  BY <1>9, PostFailedStep
<1>10. CASE StopAdapter
  BY <1>10, StopAdapterStep
<1>11. CASE Rescue
  BY <1>11, RescueStep
<1>12. CASE StartAdapter
  BY <1>12, StartAdapterStep
<1>13. CASE Die
  BY <1>13, DieStep
<1>14. CASE UNCHANGED vars
  <2> USE <1>14 DEF vars, printerVars, adapterVars, beatVars, cloudVars, histVars
  <2>1. Typed' /\ PrinterSane' /\ Held' /\ OneAdapter' /\ KeysUnique' /\ OpenJob' /\ NoFalseReset'
    BY DEF IInv, Typed, PrinterSane, Held, OneAdapter, KeysUnique, OpenJob, NoFalseReset
  <2>2. ClosedAfter' /\ Followed' /\ Shown' /\ RecordsKept' /\ CountedOnce' /\ DoneIsDone' /\ OverWithRecord'
    BY DEF IInv, ClosedAfter, Followed, Shown, RecordsKept, CountedOnce, DoneIsDone, OverWithRecord
  <2>3. QED
    BY <2>1, <2>2 DEF IInv
<1>15. QED
  BY <1>1, <1>2, <1>3, <1>4, <1>5, <1>6, <1>7, <1>8, <1>9, <1>10, <1>11, <1>12, <1>13, <1>14
  DEF Next, Printer, Heartbeat

-------------------------------------------------------------------------------
(* The theorems. *)

\* IInv is an invariant.
LEMMA Invariance == Spec => []IInv
<1>1. Init => IInv
  BY InitIInv
<1>2. IInv /\ [Next]_vars => IInv'
  BY NextIInv
<1>3. QED
  BY <1>1, <1>2, PTL DEF Spec

\* Types, the buffer's cap (_buffer), and that nothing of a tracker survives its adapter.
THEOREM TypesHold == Spec => []TypeOK
<1>1. IInv => TypeOK
  <2> SUFFICES ASSUME IInv PROVE TypeOK
    OBVIOUS
  <2>1. ps.state \in {"standby"} \cup Underway \cup Terminal /\ ps.dur \in 0 .. MaxDur
    BY Numbers DEF IInv, PrinterSane, States
  <2>2. QED
    BY <2>1 DEF IInv, Typed, Held, OneAdapter, TypeOK
<1>2. QED
  BY <1>1, Invariance, PTL

\* A record a tracker buffered is with the cloud, in the adapter's buffer or among the
\* orphans, or is one of the losses the code accepts: ack by job key (ack, ack_jobs)
\* never drops a record that was not in the payload.
THEOREM RecordsAreKept == Spec => []RecordsKept
BY Invariance, PTL DEF IInv

\* Two records of one print take a teardown or a death, and one of them is a recovered
\* one: observe opens a print once and closes it once, whatever the poll misses.
THEOREM PrintsCountOnce == Spec => []CountedOnce
BY Invariance, PTL DEF IInv

\* A "done" record whose print was not overtaken by another is of a print that completed.
THEOREM DoneMeansComplete == Spec => []DoneIsDone
BY Invariance, PTL DEF IInv

\* The cloud is not shown a followed print as over before it has been sent its record:
\* statuses() is read before pending_jobs(), and a poll updates both under the lock.
THEOREM OverOnlyWithRecord == Spec => []OverWithRecord
BY Invariance, PTL DEF IInv
===============================================================================
