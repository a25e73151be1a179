-------------------------------- MODULE Klipper --------------------------------
(***************************************************************************)
(* A Klipper printer behind Moonraker, the polling KlipperAdapter with its  *)
(* KlipperJobTracker (printers/klipper.py), the PrinterManager that rebuilds*)
(* it and rescues its records (printers/manager.py), and the heartbeat that *)
(* reads the status first and the job records after it (agent.py).         *)
(* Between two polls the printer may do anything.  A poll is one step: the *)
(* thread has one answer at a time, applies it under the lock, and nothing *)
(* else in the process reads the printer, so an answer that is applied     *)
(* late is an answer given late.                                           *)
(*                                                                         *)
(* One printer.  A print is its number; samples and records carry it as a  *)
(* ghost.  print_duration is counted in units of the tracker's one second  *)
(* of tolerance.                                                           *)
(***************************************************************************)
EXTENDS Integers, Sequences, SequencesExt, Lists

CONSTANTS
  Files,        \* file names of prints; NoFile is a print that has none
  MaxPending,   \* MAX_PENDING_JOBS, the tracker's buffer cap
  MaxDur,       \* bound: print_duration
  MaxPrints,    \* bound: prints in a behaviour
  Endings,      \* how prints end, a set of terminal states
  MaxUpsets     \* bound: pauses, adapter teardowns and process deaths in a behaviour

ASSUME KlipperAssumption ==
  /\ Files # {}
  /\ MaxPending \in Nat \ {0} /\ MaxDur \in Nat
  /\ Endings \subseteq {"complete", "cancelled", "error"}
  /\ MaxPrints \in Nat /\ MaxUpsets \in Nat

VARIABLES
  ps,        \* the printer's print_stats: [state, file, dur, print]
  fates,     \* how each print ended, or "active"
  attached,  \* the manager has an adapter for the printer
  data,      \* KlipperAdapter._data, the part status() tells: [state, print]
  tracker,   \* KlipperJobTracker: [active, pending, last, dur]
  stamp,     \* the clock, as far as job keys tell times apart
  orphans,   \* PrinterManager._orphan_jobs
  pc,        \* where the heartbeat thread stands
  status,    \* the beat's manager.statuses(): [act, print], the print of a followed job
  jobs,      \* the beat's manager.pending_jobs()
  received,  \* job records the cloud has been sent
  emitted,   \* history: records the trackers buffered
  lost,      \* history: records dropped by overflow, teardown or death
  followed,  \* history: prints the present tracker has opened a job on
  over,      \* history: followed prints the cloud has been shown as over
  upsets     \* counter of the bounded environment

printerVars == <<ps, fates>>
adapterVars == <<attached, data, tracker, stamp, followed>>
beatVars == <<orphans, pc, status, jobs>>
cloudVars == <<received, over>>
histVars == <<emitted, lost>>
vars == <<printerVars, adapterVars, beatVars, cloudVars, histVars, upsets>>

NoFile == "none"
NoState == "unpolled"
NoJob == [key |-> 0, file |-> NoFile, opened |-> 0]
NewTracker == [active |-> NoJob, pending |-> <<>>, last |-> NoState, dur |-> -1]
NoData == [state |-> NoState, print |-> 0]
NoStatus == [act |-> "none", print |-> 0]

TerminalFailed == {"cancelled", "error"}
Terminal == {"complete"} \cup TerminalFailed
Underway == {"printing", "paused"}

Init ==
  /\ ps = [state |-> "standby", file |-> NoFile, dur |-> 0, print |-> 0] /\ fates = <<>>
  /\ attached = FALSE /\ data = NoData
  /\ tracker = NewTracker /\ stamp = 1
  /\ orphans = <<>> /\ pc = "idle" /\ status = NoStatus /\ jobs = <<>>
  /\ received = {} /\ emitted = {} /\ lost = {} /\ followed = {}
  /\ over = {} /\ upsets = 0

-------------------------------------------------------------------------------
(* KlipperJobTracker, a pure state machine over samples; now is the clock. *)

\* _open, with _job_key's (printer, file, start) fingerprint.
Open(tr, f, now) == [tr EXCEPT !.active = [key |-> now, file |-> f.file, opened |-> f.print]]

\* _buffer: the oldest records are dropped over the cap.
Buffer(tr, r) ==
  LET grown == Append(tr.pending, r)
      excess == Len(grown) - MaxPending
  IN  [tr EXCEPT !.pending = IF excess > 0 THEN SubSeq(grown, excess + 1, Len(grown)) ELSE grown]

\* A job record.  Ghosts: the prints it was opened and closed on.
Record(job, outcome, f, recovered) ==
  [key |-> job.key, status |-> outcome, recovered |-> recovered,
   opened |-> job.opened, ended |-> f.print]

\* _close
Close(tr, outcome, f) ==
  [Buffer(tr, Record(tr.active, outcome, f, FALSE)) EXCEPT !.active = NoJob]

Outcome(state) == IF state = "complete" THEN "done" ELSE "failed"

\* _emit_recovered: without a file name there is nothing to report.
EmitRecovered(tr, f, now) ==
  IF f.file = NoFile THEN tr
  ELSE Buffer(tr, Record([key |-> now, file |-> f.file, opened |-> f.print], Outcome(f.state), f, TRUE))

\* Mutant: a terminal state is recovered at every poll, not only as the first signal.
ObserveIdleAnyTime(tr, f, now) ==
  CASE f.state = "printing" -> Open(tr, f, now)
    [] f.state \in Terminal -> EmitRecovered(tr, f, now)
    [] OTHER -> tr

\* observe, no job open.
ObserveIdle(tr, f, now) ==
  CASE f.state = "printing" -> Open(tr, f, now)
    [] tr.last = NoState /\ f.state \in Terminal -> EmitRecovered(tr, f, now)
    [] OTHER -> tr

\* print_duration + 1.0 < _last_print_duration
DurationReset(tr, f) == tr.dur >= 0 /\ f.dur + 1 < tr.dur
FilenameChanged(tr, f) == f.file # NoFile /\ tr.active.file # NoFile /\ f.file # tr.active.file

\* observe, still printing: a print that began since the last poll closes the open job.
ObservePrinting(tr, f, now) ==
  CASE DurationReset(tr, f) ->
         Open(Close(tr, IF FilenameChanged(tr, f) THEN "cancelled" ELSE "done", f), f, now)
    [] ~DurationReset(tr, f) /\ FilenameChanged(tr, f) -> Open(Close(tr, "cancelled", f), f, now)
    [] OTHER -> [tr EXCEPT !.active.file = IF @ = NoFile THEN f.file ELSE @]

\* Mutant: a printer found in standby is taken to have finished.
ObserveActiveStandbyDone(tr, f, now) ==
  CASE f.state \in Terminal -> Close(tr, Outcome(f.state), f)
    [] f.state = "printing" -> ObservePrinting(tr, f, now)
    [] f.state = "standby" -> Close(tr, "done", f)
    [] OTHER -> tr

\* observe, a job open.  Standby: the real ending was missed.
ObserveActive(tr, f, now) ==
  CASE f.state \in Terminal -> Close(tr, Outcome(f.state), f)
    [] f.state = "printing" -> ObservePrinting(tr, f, now)
    [] f.state = "standby" -> Close(tr, "cancelled", f)
    [] OTHER -> tr

\* The duration is remembered in every state, a paused one included.
Observe(tr, f, now) ==
  [(IF tr.active = NoJob THEN ObserveIdle(tr, f, now) ELSE ObserveActive(tr, f, now))
     EXCEPT !.last = f.state, !.dur = f.dur]

-------------------------------------------------------------------------------
(* The printer, on its own, at its panel, or under the cloud's control commands. *)

StartPrint(file) ==
  /\ ps.state \notin Underway
  /\ Len(fates) < MaxPrints
  /\ ps' = [state |-> "printing", file |-> file, dur |-> 0, print |-> Len(fates) + 1]
  /\ fates' = Append(fates, "active")
  /\ UNCHANGED <<adapterVars, beatVars, cloudVars, histVars, upsets>>

Advance ==
  /\ ps.state = "printing" /\ ps.dur < MaxDur
  /\ ps' = [ps EXCEPT !.dur = @ + 1]
  /\ UNCHANGED <<fates, adapterVars, beatVars, cloudVars, histVars, upsets>>

Pause ==
  /\ ps.state = "printing" /\ upsets < MaxUpsets
  /\ ps' = [ps EXCEPT !.state = "paused"]
  /\ upsets' = upsets + 1
  /\ UNCHANGED <<fates, adapterVars, beatVars, cloudVars, histVars>>

Resume ==
  /\ ps.state = "paused"
  /\ ps' = [ps EXCEPT !.state = "printing"]
  /\ UNCHANGED <<fates, adapterVars, beatVars, cloudVars, histVars, upsets>>

EndPrint(state) ==
  /\ ps.state \in Underway
  /\ state = "complete" => ps.state = "printing"
  /\ ps' = [ps EXCEPT !.state = state]
  /\ fates' = [fates EXCEPT ![ps.print] = state]
  /\ UNCHANGED <<adapterVars, beatVars, cloudVars, histVars, upsets>>

\* The file is unloaded: standby, no file name, duration zero.
Unload ==
  /\ ps.state \in Terminal
  /\ ps' = [ps EXCEPT !.state = "standby", !.file = NoFile, !.dur = 0]
  /\ UNCHANGED <<fates, adapterVars, beatVars, cloudVars, histVars, upsets>>

-------------------------------------------------------------------------------
(* KlipperAdapter._poll_loop, on its own thread. *)

\* _fetch_once answers, and the answer is applied under the lock: cache, freshness
\* and tracker together.  A poll that fails (unreachable, timeout, an HTTP error, a
\* body of another shape) only ages what is cached.
PollOk ==
  /\ attached
  /\ LET after == Observe(tracker, ps, stamp)
         new == IF after.pending = tracker.pending THEN {} ELSE {Last(after.pending)}
     IN /\ tracker' = after
        /\ stamp' = IF stamp \in {after.active.key} \cup {r.key : r \in new} THEN stamp + 1 ELSE stamp
        /\ followed' = IF after.active.key = stamp THEN followed \cup {ps.print} ELSE followed
        /\ emitted' = emitted \cup new
        /\ lost' = lost \cup ((ToSet(tracker.pending) \cup new) \ ToSet(after.pending))
  /\ data' = [state |-> ps.state, print |-> ps.print]
  /\ UNCHANGED <<printerVars, attached, beatVars, cloudVars, upsets>>

-------------------------------------------------------------------------------
(* The heartbeat thread. *)

\* _STATE_MAP: complete, cancelled and standby show as idle.
Activity == IF data.state \in Underway \cup {"error"} THEN data.state ELSE "idle"

\* KlipperAdapter.status: a printer is "connected" and has an activity when it was
\* polled within STALE_SEC; "offline", "connecting" and "error" have none.
StatusRead ==
  {NoStatus} \cup
  (IF data = NoData THEN {}
   ELSE {[act |-> Activity, print |-> IF data.print \in followed THEN data.print ELSE 0]})

\* statuses = manager.statuses()
CollectStatus ==
  /\ pc = "idle"
  /\ status' \in StatusRead
  /\ pc' = "jobs"
  /\ UNCHANGED <<printerVars, adapterVars, orphans, jobs, cloudVars, histVars, upsets>>

\* Mutant: the rescued orphans are not collected.
PendingJobsNoOrphans == IF attached THEN tracker.pending ELSE <<>>

PendingJobs == orphans \o (IF attached THEN tracker.pending ELSE <<>>)

\* jobs = manager.pending_jobs()
CollectJobs ==
  /\ pc = "jobs"
  /\ jobs' = PendingJobs
  /\ pc' = "post"
  /\ UNCHANGED <<printerVars, adapterVars, orphans, status, cloudVars, histVars, upsets>>

\* Mutant: the status that goes out is read after the job records.
ReportedLate == IF data = NoData THEN NoStatus ELSE CHOOSE s \in StatusRead : s # NoStatus

\* heartbeat_payload takes the statuses the beat collected.
Reported == status

\* The cloud takes a payload.
Ingest ==
  /\ received' = received \cup ToSet(jobs)
  /\ over' = over \cup (IF Reported.act \in {"idle", "error"} THEN {Reported.print} \ {0} ELSE {})

\* Anything but a 200: the cloud may have taken the payload all the same.
PostFailed ==
  /\ pc = "post"
  /\ Ingest \/ UNCHANGED cloudVars
  /\ pc' = "idle" /\ status' = NoStatus /\ jobs' = <<>>
  /\ UNCHANGED <<printerVars, adapterVars, orphans, histVars, upsets>>

\* Mutant: an acknowledgement empties the buffer.
UnackedNone(buffer) == <<>>

\* KlipperJobTracker.ack and the orphan buffer's filter: by job key.
Unacked(buffer) ==
  Keep(buffer, {r \in ToSet(buffer) : r.key \notin {j.key : j \in ToSet(jobs)}})

\* A 200, and manager.ack_jobs([j["jobKey"] for j in jobs]).
PostOk ==
  /\ pc = "post"
  /\ Ingest
  /\ orphans' = Unacked(orphans)
  /\ tracker' = [tracker EXCEPT !.pending = Unacked(@)]
  /\ pc' = "idle" /\ status' = NoStatus /\ jobs' = <<>>
  /\ UNCHANGED <<printerVars, attached, data, stamp, followed, histVars, upsets>>

\* PrinterManager._stop, first half: the pending records are rescued while the poll
\* thread still runs.
Rescue ==
  /\ pc = "idle" /\ attached /\ upsets < MaxUpsets
  /\ upsets' = upsets + 1
  /\ orphans' = orphans \o tracker.pending
  /\ pc' = "stop"
  /\ UNCHANGED <<printerVars, adapterVars, status, jobs, cloudVars, histVars>>

\* The adapter's memory is gone; a poll in flight goes to an adapter nobody reads.
ForgetAdapter ==
  /\ attached' = FALSE /\ data' = NoData
  /\ tracker' = NewTracker /\ followed' = {}

\* Second half: adapter.stop(), and the adapter is forgotten.
StopAdapter ==
  /\ pc = "stop"
  /\ ForgetAdapter
  /\ lost' = lost \cup (ToSet(tracker.pending) \ ToSet(orphans))
  /\ pc' = "idle"
  /\ UNCHANGED <<printerVars, stamp, orphans, status, jobs, cloudVars, emitted, upsets>>

\* _reconcile_klipper builds and starts a fresh adapter.
StartAdapter ==
  /\ pc = "idle" /\ ~attached
  /\ attached' = TRUE
  /\ UNCHANGED <<printerVars, data, tracker, stamp, followed,
                 beatVars, cloudVars, histVars, upsets>>

\* The process dies and systemd starts it again: every buffer is memory.
Die ==
  /\ upsets < MaxUpsets
  /\ upsets' = upsets + 1
  /\ ForgetAdapter
  /\ lost' = lost \cup ((ToSet(orphans) \cup ToSet(tracker.pending)) \ received)
  /\ orphans' = <<>> /\ pc' = "idle" /\ status' = NoStatus /\ jobs' = <<>>
  /\ UNCHANGED <<printerVars, stamp, cloudVars, emitted>>

Printer ==
  \/ \E f \in Files : StartPrint(f)
  \/ \E s \in Endings : EndPrint(s)
  \/ Advance \/ Pause \/ Resume \/ Unload

Heartbeat == CollectStatus \/ CollectJobs \/ PostOk \/ PostFailed \/ StopAdapter

Next == Printer \/ PollOk \/ Heartbeat \/ Rescue \/ StartAdapter \/ Die

Spec == Init /\ [][Next]_vars

\* The loops run on; Moonraker answers in the end, the cloud time and again.
LiveSpec == Spec /\ WF_vars(PollOk) /\ WF_vars(Heartbeat) /\ SF_vars(PostOk)

-------------------------------------------------------------------------------
(* Properties. *)

Prints == 1 .. MaxPrints
Records == [key : Nat \ {0}, status : {"done", "failed", "cancelled"}, opened : Prints,
            ended : Prints, recovered : BOOLEAN]

\* Types, the buffer's cap, and that nothing of a tracker survives its adapter.
TypeOK ==
  /\ ps.state \in {"standby"} \cup Underway \cup Terminal /\ ps.dur \in 0 .. MaxDur
  /\ pc \in {"idle", "jobs", "post", "stop"}
  /\ emitted \subseteq Records /\ lost \cup received \subseteq emitted
  /\ ToSet(tracker.pending) \cup ToSet(orphans) \cup ToSet(jobs) \subseteq emitted
  /\ Len(tracker.pending) <= MaxPending
  /\ ~attached => tracker = NewTracker /\ data = NoData

\* "Unacked terminal jobs observed since the last successful heartbeat ack": a record
\* is with the cloud, in the adapter's buffer or among the orphans, unless the buffer
\* overflowed, the process died, or it came between the rescue and the teardown.
RecordsKept == emitted \subseteq received \cup ToSet(orphans) \cup ToSet(tracker.pending) \cup lost

\* The tracker opens a print once, closes it once, and takes a terminal state for
\* news only as its very first signal: two records of one print take a teardown or a
\* death in between, after which a fresh tracker recovers what the old one had closed.
\* A print that is reopened by a fresh tracker still gives one record.
CountedOnce ==
  \A r, s \in emitted : r # s /\ r.opened = s.opened =>
    upsets > 0 /\ (r.recovered \/ s.recovered)

\* No record says "done" of a print that did not complete, unless a hidden cycle put
\* the start of another print between two polls.
DoneIsDone ==
  \A r \in emitted : r.status = "done" /\ r.opened = r.ended => fates[r.opened] = "complete"

\* The statuses are read before the records and a poll updates both under one lock:
\* a print the hub has followed is never shown to the cloud as over before the cloud
\* has been sent a record of it.
OverWithRecord ==
  \A p \in over : \E r \in received \cup lost : r.opened <= p /\ p <= r.ended

\* Once the printer is done for good no job stays open and no record undelivered:
\* whatever the trackers opened is with the cloud, or is a loss named above (a record
\* in lost, a job that went away with its adapter).
Settled ==
  <>[](ps.state \notin Underway) =>
    <>[](tracker.active = NoJob /\ emitted \subseteq received \cup lost)
===============================================================================
