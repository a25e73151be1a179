----------------------------- MODULE QueueDispatch -----------------------------
(***************************************************************************)
(* Cloud queue jobs on their way through a printer: the heartbeat's answer *)
(* assigns them, PrinterManager.dispatch_assignments sends the start       *)
(* command once per process and assignment, QueueProgressTracker follows   *)
(* the print through the printer's telemetry (printers/queue_progress.py), *)
(* and _flush_queue_status_reports tells the cloud (agent.py).             *)
(*                                                                         *)
(* One printer.  Its JobTracker appears as the set of terminal records not *)
(* acknowledged yet, one per print: the print's number is the job key.     *)
(***************************************************************************)
EXTENDS Integers, Sequences, FiniteSets, SequencesExt, Lists

CONSTANTS
  QueueJobs,    \* ids of the cloud's queue jobs
  Nobody,       \* the owner of a print that no queue job asked for
  GuardMax,     \* MAX_DISPATCHED_QUEUE_JOBS
  Weather,      \* what the surroundings may do, see WeatherKinds
  MaxPrints,    \* bound: prints in a behaviour
  MaxAssigns,   \* bound: assignments by the cloud
  MaxCrashes,   \* bound: process deaths
  MaxRebuilds,  \* bound: adapter rebuilds
  MaxBacklog    \* bound: reports waiting when a flush fails

\* "outage": queue status reports may fail while heartbeats succeed;
\* "foreign": prints may be started at the printer, past the hub;
\* "slow": a start command may take effect after START_TIMEOUT_SEC.
WeatherKinds == {"outage", "foreign", "slow"}

ASSUME QueueDispatchAssumption ==
  /\ Nobody \notin QueueJobs
  /\ GuardMax \in Nat \ {0}
  /\ Weather \subseteq WeatherKinds
  /\ MaxPrints \in Nat /\ MaxAssigns \in Nat /\ MaxCrashes \in Nat /\ MaxRebuilds \in Nat
  /\ MaxBacklog \in Nat

VARIABLES
  cloud,       \* per queue job its state in the cloud
  flight,      \* start commands published and not acted upon
  gcode,       \* gcode_state, as merged by the adapter
  prints,      \* the prints so far: [owner, done]
  pending,     \* keys in JobTracker.pending()
  dispatches,  \* QueueProgressTracker._dispatches
  linked,      \* QueueProgressTracker._linked_job_keys
  guard,       \* PrinterManager._dispatched_queue_jobs, oldest first
  reports,     \* pending_queue_reports
  pc,          \* where the heartbeat thread stands
  todo,        \* assignments of this beat not handled yet
  current,     \* the assignment whose start command has just been published
  sent,        \* keys of the job records this beat carried
  started,     \* history: start commands per job, by this process, for this assignment, up to 2
  rejected,    \* history: reports the cloud's transition map refused
  assigns, crashes, rebuilds   \* counters of the bounded environment

printerVars == <<flight, gcode, prints>>
trackVars == <<pending, dispatches, linked>>
beatVars == <<guard, reports, pc, todo, current, sent>>
envVars == <<assigns, crashes, rebuilds>>
vars == <<printerVars, trackVars, beatVars, envVars, cloud, started, rejected>>

InProgress == {"assigned", "uploading", "printing"}

Init ==
  /\ cloud = [q \in QueueJobs |-> "queued"]
  /\ flight = {} /\ gcode = "IDLE" /\ prints = <<>>
  /\ pending = {} /\ dispatches = <<>> /\ linked = {}
  /\ guard = <<>> /\ reports = <<>> /\ pc = "idle" /\ todo = {} /\ current = Nobody /\ sent = {}
  /\ started = [q \in QueueJobs |-> 0] /\ rejected = {}
  /\ assigns = 0 /\ crashes = 0 /\ rebuilds = 0

-------------------------------------------------------------------------------
(* The cloud. *)

\* The scheduler gives the printer a queued job, or one that was held, when it
\* knows of no other job on it.
Assign(q) ==
  /\ cloud[q] \in {"queued", "held"}
  /\ \A r \in QueueJobs : cloud[r] \notin InProgress
  /\ assigns < MaxAssigns
  /\ assigns' = assigns + 1
  /\ cloud' = [cloud EXCEPT ![q] = "assigned"]
  /\ started' = [started EXCEPT ![q] = 0]
  /\ UNCHANGED <<printerVars, trackVars, beatVars, rejected, crashes, rebuilds>>

\* The transition map the comments of queue_progress.py and manager.py describe.
Allowed ==
  {<<"assigned", "uploading">>, <<"assigned", "held">>, <<"uploading", "printing">>,
   <<"uploading", "held">>, <<"printing", "completed">>, <<"printing", "held">>}

-------------------------------------------------------------------------------
(* The printer. *)

Busy == gcode = "RUNNING"

\* It takes up a start command, unless busy.
TakeUp(q) ==
  /\ q \in flight /\ ~Busy
  /\ Len(prints) < MaxPrints
  /\ flight' = flight \ {q}
  /\ prints' = Append(prints, [owner |-> q, done |-> FALSE])
  /\ gcode' = "RUNNING"
  /\ UNCHANGED <<trackVars, beatVars, envVars, cloud, started, rejected>>

\* It ignores one.
Ignore(q) ==
  /\ q \in flight
  /\ flight' = flight \ {q}
  /\ UNCHANGED <<gcode, prints, trackVars, beatVars, envVars, cloud, started, rejected>>

StartForeign ==
  /\ "foreign" \in Weather
  /\ ~Busy /\ Len(prints) < MaxPrints
  /\ prints' = Append(prints, [owner |-> Nobody, done |-> FALSE])
  /\ gcode' = "RUNNING"
  /\ UNCHANGED <<flight, trackVars, beatVars, envVars, cloud, started, rejected>>

\* The print ends and the tracker buffers its terminal record.
EndPrint(state) ==
  /\ Busy
  /\ gcode' = state
  /\ prints' = [prints EXCEPT ![Len(prints)].done = (state = "FINISH")]
  /\ pending' = pending \cup {Len(prints)}
  /\ UNCHANGED <<flight, dispatches, linked, beatVars, envVars, cloud, started, rejected>>

\* START_TIMEOUT_SEC pass since the oldest dispatch, between two heartbeats.
Age ==
  /\ pc = "idle"
  /\ dispatches # <<>> /\ ~dispatches[1].aged
  /\ "slow" \in Weather \/ flight = {}
  /\ dispatches' = [dispatches EXCEPT ![1].aged = TRUE]
  /\ UNCHANGED <<printerVars, pending, linked, beatVars, envVars, cloud, started, rejected>>

-------------------------------------------------------------------------------
(* The heartbeat: post, dispatch_assignments, collect_queue_progress, flush,
   ack_jobs.  A heartbeat without a 200 does none of it and is not a step. *)

Report(q, state) == [job |-> q, state |-> state]

\* The 200 arrives, with every job the cloud has assigned: delivery is at least once.
Beat ==
  /\ pc = "idle"
  /\ todo' = {q \in QueueJobs : cloud[q] = "assigned"}
  /\ sent' = pending
  /\ pc' = "dispatch"
  /\ UNCHANGED <<printerVars, trackVars, guard, reports, current, envVars, cloud, started, rejected>>

Guarded(q) == q \in ToSet(guard)

DispatchSkip(q) ==
  /\ pc = "dispatch" /\ q \in todo
  /\ Guarded(q)
  /\ todo' = todo \ {q}
  /\ UNCHANGED <<printerVars, trackVars, guard, reports, pc, current, sent, envVars, cloud, started, rejected>>

\* bad_assignment, printer_unavailable, file_not_found: held at once; a send
\* that fails: uploading, then held.
DispatchHeld(q, told) ==
  /\ pc = "dispatch" /\ q \in todo
  /\ ~Guarded(q)
  /\ todo' = todo \ {q}
  /\ reports' = reports \o told
  /\ UNCHANGED <<printerVars, trackVars, guard, pc, current, sent, envVars, cloud, started, rejected>>

\* start_print: the file is uploaded and the start command published ...
DispatchPublish(q) ==
  /\ pc = "dispatch" /\ q \in todo
  /\ ~Guarded(q)
  /\ todo' = todo \ {q}
  /\ reports' = Append(reports, Report(q, "uploading"))
  /\ flight' = flight \cup {q}
  /\ started' = [started EXCEPT ![q] = IF @ < 2 THEN @ + 1 ELSE @]
  /\ current' = q /\ pc' = "record"
  /\ UNCHANGED <<gcode, prints, trackVars, guard, sent, envVars, cloud, rejected>>

\* _remember_dispatched_queue_job: move to the end, evict the oldest over the cap.
Remember(q) ==
  LET grown == Append(Keep(guard, QueueJobs \ {q}), q)
      over == Len(grown) - GuardMax
  IN  IF over > 0 THEN SubSeq(grown, over + 1, Len(grown)) ELSE grown

\* Mutant: the dispatched job is not remembered.
DispatchRecordUnguarded ==
  /\ pc = "record"
  /\ dispatches' = Append(dispatches, [job |-> current, printing |-> FALSE, baseline |-> pending, aged |-> FALSE])
  /\ current' = Nobody /\ pc' = "dispatch"
  /\ UNCHANGED <<printerVars, pending, linked, guard, reports, todo, sent, envVars, cloud, started, rejected>>

\* Mutant: the dispatch has no baseline of records that were there before it.
DispatchRecordNoBaseline ==
  /\ pc = "record"
  /\ dispatches' = Append(dispatches, [job |-> current, printing |-> FALSE, baseline |-> {}, aged |-> FALSE])
  /\ guard' = Remember(current)
  /\ current' = Nobody /\ pc' = "dispatch"
  /\ UNCHANGED <<printerVars, pending, linked, reports, todo, sent, envVars, cloud, started, rejected>>

\* ... then record_dispatch takes the baseline of records pending by now.
DispatchRecord ==
  /\ pc = "record"
  /\ dispatches' = Append(dispatches, [job |-> current, printing |-> FALSE, baseline |-> pending, aged |-> FALSE])
  /\ guard' = Remember(current)
  /\ current' = Nobody /\ pc' = "dispatch"
  /\ UNCHANGED <<printerVars, pending, linked, reports, todo, sent, envVars, cloud, started, rejected>>

\* QueueProgressTracker.collect, through PrinterManager.collect_queue_progress,
\* which forgets a job on a terminal report.  Only the oldest dispatch counts.
Oldest == dispatches[1]
Candidates == pending \ (Oldest.baseline \cup linked)
Observed == Busy /\ ~Oldest.printing
TimedOut == Oldest.aged /\ ~Oldest.printing /\ ~Busy
\* Mutant: terminal reports do not prune the guard.
ForgetNothing(q) == guard

Forget(q) == Keep(guard, QueueJobs \ {q})

Collecting == pc = "dispatch" /\ todo = {}

Collected ==
  /\ pc' = "flush"
  /\ UNCHANGED <<printerVars, pending, todo, current, sent, envVars, cloud, started, rejected>>

\* Mutant: "completed" is reported without the "printing" the map asks for.
CollectLinkBare ==
  /\ Collecting /\ dispatches # <<>>
  /\ \E key \in Candidates :
       /\ Candidates = {key}
       /\ linked' = (linked \cap pending) \cup {key}
       /\ reports' = Append(reports, Report(Oldest.job, IF prints[key].done THEN "completed" ELSE "held"))
  /\ dispatches' = Tail(dispatches)
  /\ guard' = Forget(Oldest.job)
  /\ Collected

\* Exactly one new terminal record: it is taken for this dispatch's print, with
\* "printing" put in front when that was never seen.
CollectLink ==
  /\ Collecting /\ dispatches # <<>>
  /\ \E key \in Candidates :
       /\ Candidates = {key}
       /\ linked' = (linked \cap pending) \cup {key}
       /\ reports' = reports \o
            (IF ~prints[key].done THEN <<Report(Oldest.job, "held")>>
             ELSE IF Oldest.printing THEN <<Report(Oldest.job, "completed")>>
             ELSE <<Report(Oldest.job, "printing"), Report(Oldest.job, "completed")>>)
  /\ dispatches' = Tail(dispatches)
  /\ guard' = Forget(Oldest.job)
  /\ Collected

CollectPrinting ==
  /\ Collecting /\ dispatches # <<>>
  /\ Candidates = {} /\ Observed
  /\ dispatches' = [dispatches EXCEPT ![1].printing = TRUE]
  /\ reports' = Append(reports, Report(Oldest.job, "printing"))
  /\ linked' = linked \cap pending
  /\ UNCHANGED guard
  /\ Collected

\* start_not_observed
CollectGiveUp ==
  /\ Collecting /\ dispatches # <<>>
  /\ Candidates = {} /\ TimedOut
  /\ dispatches' = Tail(dispatches)
  /\ reports' = Append(reports, Report(Oldest.job, "held"))
  /\ guard' = Forget(Oldest.job)
  /\ linked' = linked \cap pending
  /\ Collected

\* No dispatch, nothing new, or more than one candidate.
CollectNothing ==
  /\ Collecting
  /\ dispatches # <<>> => Cardinality(Candidates) > 1 \/ (Candidates = {} /\ ~Observed /\ ~TimedOut)
  /\ linked' = linked \cap pending
  /\ UNCHANGED <<dispatches, guard, reports>>
  /\ Collected

\* The cloud applies a report its map allows and refuses (409) any other.
Apply(r) ==
  IF <<cloud[r.job], r.state>> \in Allowed
  THEN cloud' = [cloud EXCEPT ![r.job] = r.state] /\ UNCHANGED rejected
  ELSE rejected' = rejected \cup {r} /\ UNCHANGED cloud

\* 2xx or 4xx: the report leaves the list either way.
FlushOne ==
  /\ pc = "flush" /\ reports # <<>>
  /\ Apply(Head(reports))
  /\ reports' = Tail(reports)
  /\ UNCHANGED <<printerVars, trackVars, guard, pc, todo, current, sent, envVars, started>>

\* A transport error or a 5xx: this report and the ones after it wait for the
\* next beat.  The cloud may have applied it.
FlushRetry ==
  /\ pc = "flush" /\ reports # <<>>
  /\ "outage" \in Weather /\ Len(reports) <= MaxBacklog
  /\ Apply(Head(reports)) \/ UNCHANGED <<cloud, rejected>>
  /\ pc' = "ack"
  /\ UNCHANGED <<printerVars, trackVars, guard, reports, todo, current, sent, envVars, started>>

FlushDone ==
  /\ pc = "flush" /\ reports = <<>>
  /\ pc' = "ack"
  /\ UNCHANGED <<printerVars, trackVars, guard, reports, todo, current, sent, envVars, cloud, started, rejected>>

\* ack_jobs with the keys this beat carried.
AckJobs ==
  /\ pc = "ack"
  /\ pending' = pending \ sent
  /\ sent' = {} /\ pc' = "idle"
  /\ UNCHANGED <<printerVars, dispatches, linked, guard, reports, todo, current, envVars, cloud, started, rejected>>

\* The record of the last print, as a fresh adapter's first frame recovers it.
Recovered == IF prints # <<>> /\ ~Busy THEN {Len(prints)} ELSE {}

\* reconcile rebuilds the adapter: both of its trackers start empty, the guard is
\* the manager's and stays.
Rebuild ==
  /\ pc = "idle"
  /\ rebuilds < MaxRebuilds
  /\ rebuilds' = rebuilds + 1
  /\ dispatches' = <<>> /\ linked' = {}
  /\ pending' \in {{}, Recovered}
  /\ UNCHANGED <<printerVars, beatVars, assigns, crashes, cloud, started, rejected>>

\* The process dies and starts again; dispatches, guard and reports are memory.
Crash ==
  /\ crashes < MaxCrashes
  /\ crashes' = crashes + 1
  /\ dispatches' = <<>> /\ linked' = {} /\ guard' = <<>> /\ reports' = <<>>
  /\ pc' = "idle" /\ todo' = {} /\ current' = Nobody /\ sent' = {}
  /\ pending' \in {{}, Recovered}
  /\ started' = [q \in QueueJobs |-> 0]
  /\ UNCHANGED <<printerVars, assigns, rebuilds, cloud, rejected>>

Dispatch(q) ==
  \/ DispatchSkip(q)
  \/ DispatchHeld(q, <<Report(q, "held")>>)
  \/ DispatchHeld(q, <<Report(q, "uploading"), Report(q, "held")>>)
  \/ DispatchPublish(q)

Heartbeat ==
  \/ Beat \/ (\E q \in QueueJobs : Dispatch(q)) \/ DispatchRecord
  \/ CollectLink \/ CollectPrinting \/ CollectGiveUp \/ CollectNothing
  \/ FlushOne \/ FlushRetry \/ FlushDone \/ AckJobs

Commanded == \E q \in QueueJobs : TakeUp(q) \/ Ignore(q)

PrintEnds == \E s \in {"FINISH", "FAILED"} : EndPrint(s)

Next ==
  \/ \E q \in QueueJobs : Assign(q)
  \/ Commanded \/ StartForeign \/ PrintEnds \/ Age
  \/ Heartbeat
  \/ Rebuild \/ Crash

Spec == Init /\ [][Next]_vars

\* The loop keeps beating, printers act on commands, prints end, and beats are so
\* far apart that the start timeout passes (strong: only between beats).
LiveSpec == Spec /\ WF_vars(Heartbeat) /\ WF_vars(Commanded) /\ WF_vars(PrintEnds) /\ SF_vars(Age)

-------------------------------------------------------------------------------
(* Properties. *)

ReportSet == [job : QueueJobs, state : {"uploading", "printing", "completed", "held"}]

\* Types, the guard's cap, and that the linked keys are pruned to those pending.
TypeOK ==
  /\ cloud \in [QueueJobs -> {"queued", "completed", "held"} \cup InProgress]
  /\ gcode \in {"IDLE", "RUNNING", "FINISH", "FAILED"}
  /\ pc \in {"idle", "dispatch", "record", "flush", "ack"}
  /\ reports \in Seq(ReportSet) /\ rejected \subseteq ReportSet
  /\ Len(guard) <= GuardMax /\ IsInjective(guard)
  /\ pending \subseteq 1 .. Len(prints)
  /\ linked \subseteq 1 .. Len(prints) /\ (pc = "flush" => linked \subseteq pending)
  /\ pc = "record" <=> current # Nobody

\* "a same-window resend must not re-upload or re-start the printer": a process
\* sends one start command per assignment, however often the cloud repeats it.
StartedOnce == \A q \in QueueJobs : started[q] <= 1

\* However often the cloud repeats an assignment and whatever happens to the
\* reports, a job the hub still follows is never sent to the printer again.
TrackedOnce ==
  /\ IsInjective([i \in DOMAIN dispatches |-> dispatches[i].job])
  /\ pc = "record" => \A i \in DOMAIN dispatches : dispatches[i].job # current

\* Every report the hub sends is one the cloud's strict transition map accepts
\* from the state the cloud is in, so none is dropped as a 409.
MapRespected == rejected = {}

\* A queue job is completed only when a print of it was: telemetry of some other
\* print is never taken for it (baseline and linked keys of collect()).
CompletedWasPrinted ==
  \A q \in QueueJobs : cloud[q] = "completed" => \E i \in DOMAIN prints : prints[i].owner = q /\ prints[i].done

\* Every assignment comes to an end the cloud learns of, as long as no rebuild of
\* the adapter makes the hub forget the dispatch it follows.
Resolved ==
  [](rebuilds = 0) =>
    \A q \in QueueJobs : cloud[q] = "assigned" ~> cloud[q] \in {"completed", "held"}
===============================================================================
