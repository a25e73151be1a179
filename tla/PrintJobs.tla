------------------------------- MODULE PrintJobs -------------------------------
(***************************************************************************)
(* Terminal print jobs on their way to the cloud's billing: the printer,   *)
(* the Bambu adapter that merges its report frames, the JobTracker it      *)
(* feeds (printers/jobs.py), the PrinterManager that collects, rescues and *)
(* acknowledges the records (printers/manager.py), and the heartbeat that  *)
(* carries them (agent.py).  Frames are observed on the MQTT thread, all   *)
(* else runs on the heartbeat thread.  Nothing of this survives a process  *)
(* death.                                                                  *)
(*                                                                         *)
(* The records, where they may be and what is promised of them are in      *)
(* Billing.                                                                *)
(***************************************************************************)
EXTENDS Billing, Lists

CONSTANTS
  Names,        \* file names of prints
  Weather,      \* what the printer's telemetry may do, see WeatherKinds
  MaxDeaths,    \* bound: process deaths in a behaviour
  MaxRebuilds   \* bound: adapter teardowns in a behaviour

\* "gap": the connection may miss any number of changes of the printer;
\* "late": name and task id may reach the hub after the state they belong to;
\* "no_id": a print may carry no task id (reported as "0");
\* "reprint": a print may carry the name of the one before it.
WeatherKinds == {"gap", "late", "no_id", "reprint"}

ASSUME PrintJobsAssumption ==
  /\ Names # {}
  /\ Weather \subseteq WeatherKinds
  /\ MaxDeaths \in Nat /\ MaxRebuilds \in Nat

VARIABLES
  printer,   \* [state, print]: gcode_state and the current or last print
  seen,      \* the adapter has merged the printer's present state
  up,        \* the agent process is running
  attached,  \* the manager has an adapter for the printer
  data,      \* the adapter's merged report: [state, name, task]
  stamp,     \* wall clock, as far as fingerprints tell times apart
  pc,        \* where the heartbeat thread stands
  jobs,      \* the beat's manager.pending_jobs()
  deaths, rebuilds   \* counters of the bounded environment

printerVars == <<printer, prints>>
adapterVars == <<seen, attached, data, tracker, stamp>>
beatVars == <<orphans, pc, jobs>>
histVars == <<emitted, lost, ends, deaths, rebuilds>>
vars == <<printerVars, adapterVars, beatVars, histVars, up, received>>

NoName == "none"
NoJob == [key |-> <<"none", 0>>, name |-> NoName, opened |-> 0]
NoData == [state |-> "", name |-> NoName, task |-> 0]
NewTracker == [active |-> NoJob, pending |-> <<>>, last |-> ""]

Active == "RUNNING"
StillActive == {Active, "PAUSE", "PREPARE"}   \* _STILL_ACTIVE; SLICING and INIT behave as PREPARE
Terminal == {"FINISH", "FAILED"}

Init ==
  /\ printer = [state |-> "IDLE", print |-> 0] /\ prints = <<>>
  /\ seen = FALSE /\ up = TRUE /\ attached = FALSE
  /\ data = NoData /\ tracker = NewTracker /\ stamp = 0
  /\ orphans = <<>> /\ pc = "idle" /\ jobs = <<>>
  /\ received = <<>> /\ emitted = {} /\ lost = {} /\ ends = {}
  /\ deaths = 0 /\ rebuilds = 0

-------------------------------------------------------------------------------
(* JobTracker, a pure state machine over merged reports.  p is the print on the
   printer at the time, for the ghosts; now stands for time.time(). *)

\* _printer_task_id, _task_key and _fingerprint.
TaskKey(f) == <<"task", f.task>>
KeyOf(f, now) == IF f.task # 0 THEN TaskKey(f) ELSE <<"fp", now>>

Open(tr, f, p, now) ==
  [tr EXCEPT !.active = [key |-> KeyOf(f, now), name |-> f.name, opened |-> p]]

\* _buffer: the oldest records are dropped over the cap.
Buffer(tr, r) ==
  LET grown == Append(tr.pending, r)
      over == Len(grown) - MaxPending
  IN  [tr EXCEPT !.pending = IF over > 0 THEN SubSeq(grown, over + 1, Len(grown)) ELSE grown]

Close(tr, status, p) ==
  [Buffer(tr, [key |-> tr.active.key, status |-> status, opened |-> tr.active.opened, ended |-> p])
     EXCEPT !.active = NoJob]

TerminalStatus(state) == IF state = "FINISH" THEN "done" ELSE "failed"

\* Mutant: a recovered job without a task id gets a fingerprint.
EmitRecoveredAlways(tr, f, p) ==
  Buffer(tr, [key |-> KeyOf(f, stamp + MaxPrints + p), status |-> TerminalStatus(f.state), opened |-> p, ended |-> p])

\* The first signal is terminal already: reported only under the printer's own id.
EmitRecovered(tr, f, p) ==
  IF f.task = 0 THEN tr
  ELSE Buffer(tr, [key |-> TaskKey(f), status |-> TerminalStatus(f.state), opened |-> p, ended |-> p])

\* Same job still running: take over identity that arrived late.
Refresh(tr, f) ==
  [tr EXCEPT !.active.name = IF @ = NoName THEN f.name ELSE @,
             !.active.key = IF f.task # 0 /\ @[1] # "task" THEN TaskKey(f) ELSE @]

\* Mutant: a print that ended while the agent was away is not recovered.
ObserveIdleNoRecovery(tr, f, p, now) == IF f.state = Active THEN Open(tr, f, p, now) ELSE tr

ObserveIdle(tr, f, p, now) ==
  CASE f.state = Active -> Open(tr, f, p, now)
    [] tr.last = "" /\ f.state \in Terminal -> EmitRecovered(tr, f, p)
    [] OTHER -> tr

Renamed(tr, f) == f.name # NoName /\ tr.active.name # NoName /\ f.name # tr.active.name

\* Mutant: only FINISH, FAILED and a new name end a job.
ObserveActiveMissedEnd(tr, f, p, now) ==
  CASE f.state \in Terminal -> Close(tr, TerminalStatus(f.state), p)
    [] f.state = Active /\ Renamed(tr, f) -> Open(Close(tr, "cancelled", p), f, p, now)
    [] f.state = Active /\ ~Renamed(tr, f) -> Refresh(tr, f)
    [] OTHER -> tr

ObserveActive(tr, f, p, now) ==
  CASE f.state \in Terminal -> Close(tr, TerminalStatus(f.state), p)
    [] f.state = Active /\ Renamed(tr, f) -> Open(Close(tr, "cancelled", p), f, p, now)
    [] f.state = Active /\ ~Renamed(tr, f) -> Refresh(tr, f)
    [] f.state \notin StillActive \cup Terminal -> Close(tr, "cancelled", p)
    [] OTHER -> tr

Observe(tr, f, p, now) ==
  [(IF tr.active = NoJob THEN ObserveIdle(tr, f, p, now) ELSE ObserveActive(tr, f, p, now))
     EXCEPT !.last = f.state]

-------------------------------------------------------------------------------
(* The printer. *)

\* Without gaps a connected adapter sees every change before the next one.
MayChange == "gap" \in Weather \/ seen \/ tracker.last = ""

StartPrint(name, hasId) ==
  /\ MayChange
  /\ printer.state \notin StillActive
  /\ Len(prints) < MaxPrints
  /\ ~hasId => "no_id" \in Weather
  /\ prints # <<>> /\ name = Last(prints).name => "reprint" \in Weather
  /\ prints' = Append(prints, [name |-> name, id |-> hasId, fate |-> "active"])
  /\ printer' = [state |-> "PREPARE", print |-> Len(prints) + 1]
  /\ seen' = FALSE
  /\ UNCHANGED <<attached, data, tracker, stamp, beatVars, histVars, up, received>>

\* PREPARE -> RUNNING <-> PAUSE.
Proceed(state) ==
  /\ MayChange
  /\ <<printer.state, state>> \in {<<"PREPARE", Active>>, <<Active, "PAUSE">>, <<"PAUSE", Active>>}
  /\ printer' = [printer EXCEPT !.state = state]
  /\ seen' = FALSE
  /\ UNCHANGED <<prints, attached, data, tracker, stamp, beatVars, histVars, up, received>>

\* The print ends; IDLE is an end the printer does not report as one.
EndPrint(state) ==
  /\ MayChange
  /\ printer.state \in StillActive
  /\ state = "FINISH" => printer.state = Active
  /\ printer' = [printer EXCEPT !.state = state]
  /\ prints' = [prints EXCEPT ![printer.print].fate = state]
  /\ seen' = FALSE
  /\ UNCHANGED <<attached, data, tracker, stamp, beatVars, histVars, up, received>>

-------------------------------------------------------------------------------
(* BambuAdapter._on_message, on the MQTT thread: merge_report, then observe.  A
   frame overwrites only the fields it carries. *)

TaskId == IF printer.print > 0 /\ prints[printer.print].id THEN printer.print ELSE 0
FileName == IF printer.print > 0 THEN prints[printer.print].name ELSE NoName

Merged ==
  {[state |-> printer.state, name |-> n, task |-> t] :
     n \in {FileName} \cup (IF "late" \in Weather THEN {data.name} ELSE {}),
     t \in {TaskId} \cup (IF "late" \in Weather THEN {data.task} ELSE {})}

OnMessage ==
  /\ up /\ attached
  /\ \E f \in Merged :
       LET after == Observe(tracker, f, printer.print, stamp)
           new == IF after.pending = tracker.pending THEN {} ELSE {Last(after.pending)}
       IN /\ <<f, after>> # <<data, tracker>> \/ ~seen
          /\ data' = f
          /\ tracker' = after
          /\ stamp' = IF after.active.key = <<"fp", stamp>> THEN stamp + 1 ELSE stamp
          /\ emitted' = emitted \cup new
          /\ lost' = lost \cup ((ToSet(tracker.pending) \cup new) \ ToSet(after.pending))
  /\ seen' = TRUE
  /\ ends' = IF printer.state \in StillActive THEN ends ELSE ends \cup {printer.print}
  /\ UNCHANGED <<printerVars, attached, beatVars, deaths, rebuilds, up, received>>

-------------------------------------------------------------------------------
(* The heartbeat thread. *)

\* jobs = manager.pending_jobs()
CollectJobs ==
  /\ up /\ pc = "idle"
  /\ jobs' = orphans \o (IF attached THEN tracker.pending ELSE <<>>)
  /\ pc' = "post"
  /\ UNCHANGED <<printerVars, adapterVars, orphans, histVars, up, received>>

\* heartbeat_payload: "jobs": (jobs or [])[:256]
Payload == SubSeq(jobs, 1, IF Len(jobs) > PayloadMax THEN PayloadMax ELSE Len(jobs))

\* What the cloud does with the payload: it keeps the first record per jobKey.
Ingest == received' = received \o Keep(Payload, ToSet(Payload) \ ToSet(received))

PostOk ==
  /\ up /\ pc = "post"
  /\ Ingest
  /\ pc' = "ack"
  /\ UNCHANGED <<printerVars, adapterVars, orphans, jobs, histVars, up>>

\* Anything but a 200: the cloud may have taken the payload all the same.
PostFailed ==
  /\ up /\ pc = "post"
  /\ Ingest \/ UNCHANGED received
  /\ pc' = "idle" /\ jobs' = <<>>
  /\ UNCHANGED <<printerVars, adapterVars, orphans, histVars, up>>

\* Mutant: an acknowledgement empties the buffer.
UnackedNone(buffer) == <<>>

\* JobTracker.ack and the orphan buffer's filter: by job key.
Unacked(buffer) == Keep(buffer, {r \in ToSet(buffer) : r.key \notin {j.key : j \in ToSet(jobs)}})

\* manager.ack_jobs([j["jobKey"] for j in jobs])
AckJobs ==
  /\ up /\ pc = "ack"
  /\ orphans' = Unacked(orphans)
  /\ tracker' = IF attached THEN [tracker EXCEPT !.pending = Unacked(@)] ELSE tracker
  /\ pc' = "idle" /\ jobs' = <<>>
  /\ UNCHANGED <<printerVars, seen, attached, data, stamp, histVars, up, received>>

\* PrinterManager._stop, first half: pending records are rescued from the adapter
\* while its MQTT thread still runs.
Rescue ==
  /\ up /\ pc = "idle" /\ attached
  /\ rebuilds < MaxRebuilds
  /\ rebuilds' = rebuilds + 1
  /\ orphans' = orphans \o tracker.pending
  /\ pc' = "stop"
  /\ UNCHANGED <<printerVars, adapterVars, jobs, emitted, lost, ends, deaths, up, received>>

\* Second half: adapter.stop(), and the adapter is forgotten.
StopAdapter ==
  /\ up /\ pc = "stop"
  /\ attached' = FALSE /\ seen' = FALSE /\ data' = NoData /\ tracker' = NewTracker
  /\ lost' = lost \cup (ToSet(tracker.pending) \ ToSet(orphans))
  /\ pc' = "idle"
  /\ UNCHANGED <<printerVars, stamp, orphans, jobs, emitted, ends, deaths, rebuilds, up, received>>

\* reconcile builds and starts a fresh adapter.
StartAdapter ==
  /\ up /\ pc = "idle" /\ ~attached
  /\ attached' = TRUE
  /\ UNCHANGED <<printerVars, seen, data, tracker, stamp, beatVars, histVars, up, received>>

\* The process dies and systemd starts it again: every buffer is memory.
Die ==
  /\ up
  /\ deaths < MaxDeaths
  /\ deaths' = deaths + 1
  /\ up' = FALSE
  /\ lost' = lost \cup ((ToSet(orphans) \cup ToSet(tracker.pending)) \ ToSet(received))
  /\ attached' = FALSE /\ seen' = FALSE /\ data' = NoData /\ tracker' = NewTracker
  /\ orphans' = <<>> /\ pc' = "idle" /\ jobs' = <<>>
  /\ UNCHANGED <<printerVars, stamp, emitted, ends, rebuilds, received>>

Restart ==
  /\ ~up
  /\ up' = TRUE
  /\ UNCHANGED <<printerVars, adapterVars, beatVars, histVars, received>>

Printer ==
  \/ \E n \in Names, hasId \in BOOLEAN : StartPrint(n, hasId)
  \/ \E s \in {Active, "PAUSE"} : Proceed(s)
  \/ \E s \in {"FINISH", "FAILED", "IDLE"} : EndPrint(s)

Heartbeat == CollectJobs \/ PostOk \/ PostFailed \/ AckJobs \/ StopAdapter

Next == Printer \/ OnMessage \/ Heartbeat \/ Rescue \/ StartAdapter \/ Die \/ Restart

Spec == Init /\ [][Next]_vars

\* The printer keeps sending frames to a running adapter, and the loop keeps beating.
LiveSpec == Spec /\ WF_vars(OnMessage) /\ WF_vars(Heartbeat)

-------------------------------------------------------------------------------
(* Properties. *)

\* Types, the buffer's cap, and that nothing of a tracker survives its adapter.
TypeOK ==
  /\ Len(tracker.pending) <= MaxPending
  /\ \A r \in ToSet(tracker.pending) \cup ToSet(orphans) \cup ToSet(jobs) \cup emitted : r \in Records
  /\ printer.state \in {"IDLE"} \cup StillActive \cup Terminal
  /\ pc \in {"idle", "post", "ack", "stop"}
  /\ pc # "idle" => up
  /\ ~attached => tracker = NewTracker /\ data = NoData
  /\ lost \subseteq emitted /\ ToSet(received) \subseteq emitted

\* A finished print with a task id that stays on the printer's display is billed
\* in the end, although a restart or a rebuild may have lost its first record.
EventuallyBilled ==
  []<><<PostOk>>_vars =>
    \A p \in 1 .. MaxPrints :
      <>[](up /\ attached /\ printer = [state |-> "FINISH", print |-> p] /\ prints[p].id)
        => <>(\E r \in ToSet(received) : r.key = <<"task", p>>)
===============================================================================
