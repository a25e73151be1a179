# Verification of the Makeros Hub agent

The Makeros Hub agent is a Python process on a small computer in a makerspace. It
heartbeats to a cloud service, follows 3D printers over MQTT and HTTP, starts the
print jobs the cloud assigns to them, reports finished prints for billing, and
shows slicers one *virtual printer* per printer model, whose jobs it passes to the
cloud. This directory holds TLA+ models of the parts of it that keep state and
make promises about it, TLC configurations that check them, and TLAPS proofs.

`PROJECT.json` relates definitions to source lines and lists runs, mutants,
hazards, findings and theorems. Paths below are relative to `src/makeros_hub/`.

## 1. Inventory

| Component | State | Operations | Talks to | Hard behaviour | What makes it correct |
|---|---|---|---|---|---|
| Submission pipeline (`agent.py`, `vprinter/outbox.py`) | bounded queue, on-disk outbox, attempt counts, rehydration flag | capture, persist, enqueue with eviction, rehydrate, drain, retry, dead-letter, shutdown drain | asyncio thread → queue → heartbeat thread → cloud | two threads on one queue; crash between any two steps; disk faults; credential outages; time budget of the drain | a durable job is never lost, no job is given up early, every job is settled in the end |
| Virtual printer servers (`vprinter/mqtt_broker.py`, `ftp_server.py`, `manager.py`) | active connection and session, displayed print state, upload semaphore, tasks | connect, displace, publish, STOR, stop | slicers; coordinator | handlers interleaved at awaits; displacement; failure at every await; teardown | who is served, what is shown, nothing left after stop |
| Capture coordinator (`vprinter/capture.py`) | two buckets of waiting halves, timer | record upload, record command, expire, clear | servers → pipeline | halves in either order, expiry, limits, ambiguity | one send's halves are joined, no others |
| Supervisor of the virtual printers (`vprinter/manager.py`) | runtimes per serial, snapshots for other threads, SSDP listener | reconcile, start, hot-apply, stop, time-out | heartbeat thread ↔ loop thread | a reconciliation that outlives its time-out | what runs is what was last asked for |
| IP allocation (`vprinter/ip_allocator.py`) | bindings file, claimed addresses | allocate, ensure, release | kernel, supervisor | crash between file and command; address conflicts | no address leaked or claimed twice |
| Authentication (`vprinter/auth.py`) | members, failure windows | authenticate, rate-limit, replace members | servers | clock windows | lock-outs end, good codes pass |
| Pool mirror (`vprinter/live_pool.py`, `pool_ranking.py`, `report.py`) | decayed minutes per filament, in a file | rank, assign slots | agent, servers | capacity | stable, bounded slots |
| Bambu job tracking (`printers/jobs.py`, `bambu.py`, `bambu_parse.py`) | merged report, open job, buffer of terminal records, last terminal key | observe a frame, buffer, recover, acknowledge | MQTT thread ↔ heartbeat thread | lost, partial and late frames; rebuild; process death; buffer cap | each finished print billed once |
| Queue dispatch and progress (`printers/queue_progress.py`, `manager.py`) | followed dispatches, linked keys, guard of dispatched jobs, pending reports | dispatch, record, collect, flush, forget | cloud ↔ printer | at-least-once assignments; stuck reports; prints of others; rebuild, crash | one start per assignment; reports fit the cloud's map |
| Printer manager (`printers/manager.py`) | adapters, static rows, back-off, orphans, guard of commands | reconcile, rebuild, stop, command dispatch with guard and rate limit | heartbeat → adapters | slow stop, failed start, rebuild, redelivered commands | what runs is what was pulled; a command acts once |
| Klipper adapter (`printers/klipper.py`) | cached poll, open job, buffer of terminal records | poll, observe, recover, acknowledge, send command | Moonraker over HTTP; poll thread ↔ heartbeat thread | whole prints between two polls; records closed between status and collection; rebuild, death | as for Bambu, and the record not later than the status that shows the end |
| Heartbeat loop and credential (`agent.py`, `enroll.py`, `config.py`, `http.py`) | credential, config snapshot, result buffers, restart nonce | beat, pull config, degrade, recover, restart | cloud, all the others | failed and lost answers, revoked credential, restarts inside a beat | results delivered, configuration current in the end, no restart loop |
| Over-the-air update (`update.py`, `update.sh`) | `last_update.json`, transient unit, release on disk | gate, note the attempt, launch, install or exit | cloud → systemd → agent | failed launch, failed install, restart before the cooldown is known | no downgrade, no loop |
| Ingest (`ingest.py`, `multipart.py`) | one spool directory per request | receive, register, discard | slicers → cloud | partial uploads; requests share nothing | registered files exist |
| Cameras (`printers/camera.py`, `*_camera.py`) | last state and last capture per printer, capture pool | find the due ones, capture within a deadline, stamp, push | heartbeat thread ↔ worker threads → cameras → cloud | cameras that hang; failures; printers switched off and on | no camera starves another, no printer goes dark |
| Failure watch (`printers/failure_watch.py`, `onnx_detector.py`, `yolo_*.py`) | smoothed score per printer, model file, detector holder | download, verify, load; infer, smooth, forget | boot thread ↔ heartbeat thread | gaps in a series; crash during the download | scores of one print are not mixed with older ones; only a verified model is loaded |
| Tailscale, discovery, diagnostics (`tailscale.py`, `discovery.py`, `lan_scan.py`, `bambu_ssdp.py`, `diagnostics.py`, `probes.py`) | retry state, cached hits, rings | scan, probe, retry | OS | time-outs | mostly I/O; probe results reach the cloud |

## 2. Plan

Modelled, in order of importance:

1. `VpSubmit` with the abstract `CaptureLedger` it implements: jobs of members, the only state that must survive crashes.
2. `PrintJobs`: billing records of Bambu printers.
3. `QueueDispatch`: starting printers.
4. `VpRuntime`: where members' jobs come from.
5. `VpHost`: which virtual printers run, and on which addresses.
6. `Klipper`: billing records of Klipper printers, against the same heartbeat.
7. `Cameras`: the camera part of a beat, the failure watch and the detector's boot.
8. `HubBeat`: the control side of a beat: results, configuration, restart, update, commands.

What is left is not worth a model (section 7). Every invariant the passing runs check is
also proved, under the hypotheses section 6 names.

## 3. Modules

### VpSubmit, CaptureLedger

Two threads, as in the code: `capture` (the virtual printer's asyncio loop, which
calls `on_capture`) and `heartbeat` (`run()`). A job is its deterministic
submission uid and attempt count; nothing else of the record is read.

* `CapturePersist` is `on_capture`: persist, and whether or not that worked, enqueue.
* `EnqueuePut`, `EnqueueEvict`, `EnqueueReput` are the three queue operations of
  `_enqueue_vprinter_submission`; another thread may run between them.
* `RehydrateLoad/Next/Done` read the outbox back once per process.
* `BeatDrain`, `DrainPop`, `PostVpSubmit`, `SettleDone/Retry/Auth`, `DrainEnd` are
  the drain; `FinalDrain` and `Exit` the shutdown path.
* `Die`, `Crash`, `Restart`, `CredentialChange`, `VpReconcile` are the surroundings.

Staging of the file in the spool is best-effort and is not read by the pipeline.
`CaptureLedger` states the promise to members: entries are entered, closed, and
struck out only when closed. `Ledger` in `VpSubmit` is the refinement mapping.

### PrintJobs

One printer, its frames, the adapter's merged report (`Merged`, `OnMessage`), the
`JobTracker` (`Observe` and what it calls), `PrinterManager` (`CollectJobs`,
`Rescue`, `StopAdapter`, `AckJobs`) and the heartbeat (`Payload`, `PostOk`,
`PostFailed`). What a record is and what is promised of it is in `Billing`, which knows
the places records may be at and nothing of how they get there. Keys keep the distinction the code makes between task ids and
fingerprints of file name and start time; `stamp` is the clock as far as
fingerprints tell times apart. `Weather` says what the telemetry may do: miss
changes, deliver name and id late, carry no id, repeat a name. Records carry two
ghost fields, the print they were opened on and the print on the printer when they
were closed, which no guard reads.

### QueueDispatch

One printer and its queue jobs: the heartbeat's answer (`Beat`), dispatch with the
guard (`DispatchSkip/Held/Publish`, `Remember`, `DispatchRecord`), telemetry
correlation (`CollectLink/Printing/GiveUp/Nothing`), delivery of the reports
(`FlushOne/Retry/Done`), and the cloud's strict map of transitions (`Allowed`,
`Apply`). The JobTracker appears as the set of unacknowledged records.

### VpRuntime

One running virtual printer. Handlers are cut at their awaits: a connection is
accepted (and displaces the previous one), its CONNECT is answered and its session
set up, a `project_file` is acknowledged in two writes and recorded
(`HandleClient`, `Connack`, `Publish`, `SendPrintAck`, `ProjectFile`);
a `STOR` waits for the semaphore, receives and records (`Stor`, `Acquire`,
`Stored`, `StorFails`). `Record` is the coordinator's whole reaction to a half:
prune, add, enforce both limits, try to capture, set the timer. `CancelFinish`,
`CloseBroker`, `AbortFtp` and `Stop` are the stages of `stop()`.

The two buckets are the upload and the command halves of one queue, in the order they
came (`Bucket`, `Waiting`).

Reports, versions and pings change no state and are left out, and so is what is
read from a session that is not active. Time is the choice of how many of the
oldest halves have expired. A send is one press of the slicer's button; its md5 is
compared only if its command carries one.

### VpHost

Two threads: the heartbeat, which pulls the configuration, puts addresses on the
interface and submits a reconciliation, and the loop thread, which works them off
one after the other under the supervisor's lock.

* `Pull`, `NoSuchEntry`, `EnsureClaimed/Save/Claim`, `Reclaim`, `Allocate`,
  `AllocateSave` handle the entries of `virtualPrinters` in order
  (`_allocate_vp_bind_ips`, `IpAllocator`), cut where the process may die with the
  bindings file and the interface apart.
* `Reconcile` and `Mirror` submit (`reconcile_sync`), the one from the
  configuration, the other from the snapshot; `Answered` and `TimesOut` end the
  wait. A reconciliation that times out is not cancelled.
* `StopAll`, `Begin`, `BeginFails`, `NotWanted`, `StartOrApply`, `Finish` are
  `_reconcile_locked`, one step per serial, and the writing of the snapshots.
* `Crash` is a process death, with or without a reboot; `Post` and `CloudChange`
  are the cloud.

A configuration is reduced to its address (the identity fingerprint) and whether
its pool is the cloud's or the mirrored one (the hot state). An address stands for
the pair of IP and interface, so the routed prefix is a change of address.
`leaked` and `torn` are history variables that no guard reads.

### Klipper

One printer, the poll thread, and the heartbeat, which reads the statuses before it
collects the records.

* `StartPrint`, `Advance`, `Pause`, `Resume`, `EndPrint`, `Unload` are the printer
  (`print_stats` of Moonraker). It may do any of them between two polls.
* `PollOk` is a poll: `Observe` and the cache change together under the adapter's
  lock. `ObserveIdle`, `ObserveActive` and `ObservePrinting` are the branches of
  `KlipperJobTracker.observe`, in its order: terminal, printing with a reset of the
  duration, a changed file name, standby. A failed poll changes nothing that is
  modelled.
* `CollectStatus`, `CollectJobs`, `PostOk`, `PostFailed` are the beat; `Rescue` and
  `StopAdapter` the two halves of a teardown, between which the poll thread may
  still close a job; `StartAdapter` and `Die` the rest.

A print is its number, which samples and records carry as ghosts. `print_duration` is
counted in units of the tracker's tolerance of a second.

### Cameras

* `CollectFrames` is the first part of `collect_camera_frames`: forget what is
  switched off, find the due printers (`ShouldCapture`, which overwrites the last
  state), submit them to the pool. `Captured` is a worker's return; `CollectDone` the
  end of `as_completed` or of the overall time-out, with the stamps. What a capture
  can return depends on the strategy (`RtspResults`, `LanResults`, `HttpResults`).
* `Watch` is the failure watch over the frames of the beat (`Sample`): infer, smooth,
  forget.
* `CheckCache`, `Fetch`, `Verify`, `Load` are the thread that builds the detector.
* `SetConfig`, `SetAct`, `SetCamera`, `Kill` are the surroundings.

Time is counted in beats, and a cadence is a number of beats. A score is reduced to
the age of the series it belongs to.

### HubBeat

* `PostOk`, `PostLost`, `PostRefused`: the post of a beat, whose answer may be lost
  after the cloud has taken it. The cloud delivers a request once and closes its row
  with the result.
* `PullOk`, `PullFailed`, `PullRestarts`: the configuration pull with the restart
  nonce and `PrinterManager.reconcile`, as the pairs of adapter and static row it may
  leave (`Reconcile`).
* `UpdateTriggered`, `UpdateExits`, `UpdateSkipped`: `maybe_update` with its gate and
  the cooldown file; `UnitInstalls`, `UnitFails`, `CooldownPasses`: the transient unit
  and the clock.
* `WorkStep`: one probe or command of the answer; `dispatch_commands` with guard, rate
  limit and the replies either vendor's adapter can give (`KlipperReplies`,
  `BambuReplies`).
* `Kill`, `Revoke`, `Enroll`, `Redeliver`, `EditConfig`, `RequestRestart`,
  `NameRelease`: the machine, the administrator and the cloud.

A command counts as acted on again only while the guard is meant to cover it: `acts`
starts anew when the reply was not a success, when the guard dropped the command, and
with a new process, because in these three cases the code accepts a second execution.

### Lists

`Keep` is the list comprehension with a membership test by which `PrintJobs`, `Klipper`,
`HubBeat`, `Cameras`, `QueueDispatch` and `VpRuntime` filter their buffers and queues.

### How the modules fit

The modules share the heartbeat thread and meet at its steps. `PrintJobs`, `Klipper`
and `QueueDispatch` take from `HubBeat` that adapters are rebuilt between beats and
that posts fail; `VpSubmit`'s drain, `VpHost`'s reconciliation and `Cameras`'
collection follow each other in one beat and share no variable with the others. What
`VpRuntime` captures is what `VpSubmit` is handed.

## 4. Runs

| Run | Checks | Bounds |
|---|---|---|
| `vp_safe` | `TypeOK`, `DurableCustody`, `DeadletterEarned`, `ImplementsLedger` | 2 jobs, queue of 1, 2 attempts, 2 captures, 1 crash, 1 outage, all faults |
| `vp_live` | `EventuallySettled` | 2 jobs, queue of 2, one job per drain, 1 crash |
| `jobs_safe` | `RecordsKept`, `BilledOnce`, `NoSilentMerge` | 2 prints, buffer of 1, gaps, missing ids, reprints, 1 death, 1 rebuild |
| `jobs_live` | `EventuallyBilled` | 2 prints, 1 death, 1 rebuild |
| `queue` | `MapRespected`, `CompletedWasPrinted`, `Resolved` | 2 queue jobs, 3 assignments, 3 prints, 1 rebuild |
| `queue_weather` | `TrackedOnce` | outage, foreign prints, slow starts, 1 crash, 1 rebuild |
| `queue_outage` | `StartedOnce` is violated | outage of status reports only |
| `vp_runtime` | `TypeOK`, `SendCaptured`, `OneSend`, `PrepareEnds`, `ServedUnlessDisplaced`, `StoppedIsQuiet`, `TimerCovers` | 2 sends, 2 connections, 2 keys, 3 commands, limits of 2 |
| `vp_host` | `NoLeak`, `OnRealAddress`, `LatestConfigRuns`, `SnapshotHonest`, `CloudLearns` | 2 models, 3 addresses, 2 changes in the cloud, 1 crash or time-out, failing commands and starts |
| `klipper` | `RecordsKept`, `CountedOnce`, `DoneIsDone`, `OverWithRecord`, `Settled` | 2 files, 2 prints, durations up to 2, buffer of 1, completing and failing prints, 1 pause, teardown or death |
| `camera` | `HangingDoNotStarve`, `NoBlackout`, `ReenabledIsDue`, `ColdAfterBreak`, `ModelVerified` | 3 printers, one per camera kind, 2 workers, cadences of 1, 2 and 3 beats, 1 retry, 2 changes or kills |
| `beat` | `RunOnce`, `NoResultLost`, `CurrentPrinters`, `NoRestartLoop`, `Settles` | 2 commands and 1 probe, 2 per answer, payload of 2, rate and guard of 1, 2 sets of facts (one Klipper), 2 releases, both update modes, 2 edits, 1 kill, revocation or redelivery |

Every module defines its `TypeOK`; a run lists it where it says more than types (the
capacity of the queue in `vp_safe`, the limits of the buckets in `vp_runtime`).

Why the bounds are enough for the cases of interest. A queue of one makes every
second job an overflow, with both threads in the middle of an eviction. Two
attempts separate the first failure, the last and the one after a restart. Two
prints are what a merge, a reprint and a missed end need; a buffer of one makes the
second record an overflow. Two queue jobs and three assignments allow a resend, a
hold and a re-assignment. In `vp_runtime` three commands overflow a bucket of two,
two sends under one key make an ambiguous match, and two connections make every
displacement, the late set-up of the displaced one included. In `vp_host` three
addresses leave a free one when both models have theirs, and two changes between
two pulls make a chain of moves; crash and time-out do not interact, as a crash
forgets the queue of reconciliations. In `klipper` a duration of 2 is the least that
can fall by more than the tolerance, and two prints of the same or another file make
every kind of hidden cycle. In `camera` three printers on two workers make one wait,
and one hanging camera leaves exactly one worker. In `beat` an answer holds one request
less than there are, a guard of one forgets the first command when the second succeeds,
and a rate of one rejects the second of an answer. Crashes, rebuilds and
outages are counted because each one only resets memory: a second adds no new kind
of state.

Every property of a passing run has a mutant of the code model that breaks it
(`PROJECT.json`, "mutants"). Deadlock is checked except in `vp_runtime`, where
`stop()` ends the runtime; elsewhere the idle heartbeat is an action, so a deadlock
would be one of the steps in between.

### What the violation shows

`queue_outage`: the guard is pruned when the terminal report is collected, not when it
is delivered. While it waits, the cloud repeats the assignment and the print is started
a second time.

### Known limits of what is promised, seen in the models and not given a run

Submission, billing and dispatch:

* The retry path calls `outbox.persist` unguarded before it enqueues (`agent.py:382`).
  If capture could not persist either, because the disk is still full, the job is in no
  queue and no record, although `on_capture` says a persist failure "must NEVER drop
  the job".
* When a new print's first RUNNING frame arrives before its task id, the merged report
  still carries the previous print's id; the new job opens under the old key, which is
  never replaced, and the cloud merges two prints (`jobs.py:269`), although the module
  biases "toward duplicates over silent merges". `jobs_safe` has no late ids.
* A heartbeat sends at most 256 records and acknowledges all that were collected
  (`agent.py:641`); a printer alone may buffer 500. `RecordsKept` needs that the
  records of a beat fit.
* A FINISH frame closes the open job without comparing name or id (`jobs.py:250`);
  `NoSilentMerge` excuses prints whose end went unseen for that reason.
* A record closed under a fingerprint may be recovered under its task id
  (`jobs.py:173`, `204`) when the id lands with the last frame.
* `start_print` does not ask whether the printer is busy, so a foreign print's end
  may complete a queue job (`queue_progress.py:103`); `CompletedWasPrinted` is
  checked on a printer only the hub starts.
* A rebuild drops the followed dispatches while the guard stays (`bambu.py:82`);
  `Resolved` excludes rebuilds.

Virtual printers:

* A displaced MQTT connection that finishes its set-up late takes the active
  session; when it ends the newer client is ignored until it reconnects.
  `ServedUnlessDisplaced` names exactly this exception (`overtaken`).
* A command without an md5 may be joined to another send of the same member and
  file name; a repeated command makes the match ambiguous and drops both halves.
* A FINISH scheduled while `MqttBroker.close` waits for the cancelled one outlives
  the broker by 1.5 s; it changes only the closed broker.
* `allocate_for` claims an address before it saves the binding
  (`ip_allocator.py:269-277`), and `ensure_claimed` releases the old one first,
  although the class "always persist[s] BEFORE issuing privileged commands"; an
  agent that dies in between leaves an address nobody remembers. `NoLeak` names
  this loss, failed releases and failed re-claims, and nothing else.
* Entries are handled one by one: a model that moves off an address releases it
  even if a model earlier in the list has just claimed it, and `allocate_for` may
  pick an address that a later entry of the same configuration names.
  `OnRealAddress` excuses the first, `CloudLearns` the second.
* A virtual printer that did not start, or whose claim failed, is not tried again
  before the configuration changes: `config_version` is updated first, and the
  mirror reconciles only what runs (`agent.py:989`, `1028`).
* After a reconciliation that timed out, the mirror may submit the old set behind
  the new one (`agent.py:1474`), and it stays until the next change;
  `LatestConfigRuns` is stated without time-outs for that reason.
* `IpAllocator.release` has no caller: a model that leaves the configuration keeps
  its address and its binding.
* When the cloud switches from the single virtual printer to several, the single one's
  state object keeps its last configuration (`agent.py:824`).

Klipper:

* A poll of a paused printer also remembers the duration, so a print that was stopped
  and started again during the pause is not seen as a reset; and every cycle of the
  same file hidden between two polls that keeps the duration growing is merged.
* A job whose file is no longer the one that reached a terminal state is closed with
  that state under the first file's name; a print that was stopped and started again
  with the same file is recorded as done. `DoneIsDone` excuses both: record opened and
  closed on different prints.
* A print first seen paused and then cancelled leaves no record.
* The print that ended before the adapter's first poll is recorded again, under a new
  key, after every rebuild and restart. `CountedOnce` names this case.
* A record that comes between the rescue and the stop of an adapter is lost.

Cameras:

* `should_capture` overwrites the last state before the capture is known to work: a
  failed capture on a change of state is not due again before the interval is over.
* A beat in which only other printers have frames ends the smoothed series of a
  printing printer that was not due.
* If as many cameras hang as there are workers, those behind them get no frame;
  `HangingDoNotStarve` assumes fewer.
* While the stub stands in for the detector its zeros enter the series.

Control:

* A wedged adapter is rebuilt only by `reconcile`, which runs only when the
  configuration's version changes, although `manager.py:31-37` says it "SELF-HEALS".
  The same holds for an adapter that failed to start.
* `run()` reads the credential once (`agent.py:1290`): a re-enrolment does not reach
  the running process, against the comment at the 401 (`agent.py:1865`). `Settles`
  assumes that the credential held is the cloud's.
* A printer whose vendor becomes one that is not driven keeps its old adapter beside
  the static row. `CurrentPrinters` says so.
* Commands whose answer was lost, or whose beat ended in a restart on the nonce or an
  update in exit mode, are not executed; results that wait when the process ends are
  gone.
* If the pull at the start failed, a restart requested meanwhile is adopted as the
  first nonce and not carried out.
* The cooldown is about one release: two targets named in turn bypass it, and so does a
  state file that cannot be written.
* A redelivered command does use up a place of the rate limit, against the comment at
  `manager.py:395`. More than three probes of one answer are dropped without a result.

## 5. Fairness

* `VpSubmit!LiveSpec`: weak fairness of the heartbeat thread and of an enqueue in
  progress. Every call of the heartbeat thread has a time-out and the loop is
  unconditional. Nothing is assumed of members, cloud, systemd or admins: the
  property itself assumes that process, virtual printer and credential are stable
  in the end. An attempt cap, not the cloud, makes jobs end.
* `PrintJobs!LiveSpec`: weak fairness of frame delivery (the printer pushes, and
  the adapter asks for, full reports) and of the heartbeat; that posts keep
  succeeding is a premise of the properties.
* `QueueDispatch!LiveSpec`: weak fairness of the heartbeat, of the printer acting
  on or ignoring a command and of prints ending; strong fairness of the start
  time-out passing, which is enabled only between beats: the interval of beats is
  seconds, the time-out is wall-clock time.
* `Klipper!LiveSpec`: weak fairness of polls that are answered (the poll loop is
  unconditional; a printer that is never reachable again is no printer the property is
  about) and of the heartbeat, strong fairness of a post that succeeds, which is the
  cloud being reachable time and again.
* `HubBeat!LiveSpec`: weak fairness of the steps after a post, which the loop takes by
  itself, and strong fairness of posts and of pulls that succeed. The time-outs of
  `http.py` bound each; that the network is up time and again is assumed of the site.
  The credential, which no step of the agent renews, is a premise of `Settles`, and so
  is that no release newer than the running one is wanted: its installation may fail
  for ever.
* `Cameras` has safety properties only; its deadline is the guard of `CollectDone`.

## 6. Proofs

Every theorem holds for all values of the constants that satisfy the `ASSUME` of its
module; hypotheses beyond that are in the theorem and named here. `PROJECT.json` lists
the theorems with the property each one states. None of the invariants below is
inductive by itself, but where this is said: each paragraph names what the strengthening
adds and why.

**`ListsProofs`** has what the others cite about lists: what `Keep`, `Append`, `Tail`,
`SubSeq` and `RemoveAt` do to members, order and places of a list (`Embeds`, `Shrinks`,
`Once`, `Places`). Facts along a list are proved from the least index that contradicts
them (`LeastElement`), as the library's induction theorems cannot be instantiated.

**`VpSubmitProofs`**, for any jobs, queue capacity, attempt cap, crashes, outages, faults:

* `TypeCorrect`: `TypeOK`, the capacity of the queue included. It is inductive: the
  conjunct relating `outcome` to the drain's position is what keeps the settle steps
  typed.
* `Durable`: `DurableCustody`. A settle step removes a record because of an answer
  received earlier. `Acknowledged` closes the gap (an `ok` in hand is about a job the
  cloud has); with it every step is one of a few kinds of custody step (`CustodyStep`:
  a record is written, a job accepted, a job settled, or nothing), and each kind
  preserves custody.
* `LedgerRefinement`: initial states map to initial states, and every custody step
  is a step of `CaptureLedger` or a stutter.
* `DeadletterIsEarned`: `DeadletterEarned`. Copies of a job lie in the queue, in both
  threads' hands, among the records read back and on disk; `Earned` says that none of
  them carries more attempts than submissions really failed.

**`QueueDispatchProofs`**, for any jobs, prints and size of the guard:

* `NothingFollowedTwice`: `TrackedOnce`, in any weather, with crashes and rebuilds, as
  long as no more jobs are followed than the guard has room for (`Room`: it holds 1000,
  and without an outage one job is followed at a time). That a followed job is in the
  guard is not inductive when the guard may overflow; `Tracks` adds that the followed
  jobs are its youngest, so that the cap evicts jobs nobody follows any more.
* `EveryReportFits`: `MapRespected`, unless `"outage"` is in the weather (`queue_outage`
  shows what an outage does). `Mapped` says that the reports that wait are a path of the
  map (`Path`) from the state the cloud has the job in to the one the hub follows it in,
  and that at most one job is under way.
* `CompletedMeansPrinted`: `CompletedWasPrinted`, on a printer only the hub starts
  (`Weather = {}`) and until the process dies. `Mine` says whose print runs or is about
  to (`Owned`), and that the records newer than a dispatch's baseline are of its job
  (`OwnRecords`). After a death it is false: section 7, last item.
* `TypesHold`: `TypeOK`, however many jobs are followed. The guard may overflow here, so
  nothing is said of whom it holds: only that it has no job twice and stays under its cap
  (`Capped`), which `_remember_dispatched_queue_job` owes to filtering before it appends.

**`VpRuntimeProofs`**, for any sends, keys and connections and all limits:

* `NoPhantomPrepare`, `Served` and `NothingAfterStop`: `PrepareEnds`,
  `ServedUnlessDisplaced`, `StoppedIsQuiet`. Besides them `IInv` says that only the
  newest connection is open and all others are closing (`OneOpen`), that the active
  session was set up and, once its writer is closing, can only read
  (`SessionSetUp`), and what each stage of `stop()` has ended (`Quiet`). `Served`
  needs `OneOpen`: the session a displacement takes away is that of the writer it
  closes.
* `TimerAlwaysSet`: `TimerCovers`, which is inductive as it stands.
* `TypesAndLimits`: `TypeOK` with the limits of the buckets. Pruning and capturing only
  shrink the queue (`Shrinks`), a shrunk queue has no bucket larger than before, and a
  half more is one place more, which the loop of each limit takes back.
* `CapturesPair` and `NoSendForgotten`: `OneSend` and `SendCaptured`. An upload waits once
  and never after it was captured (`UploadsOnce`), commands are no more than were
  published (`Commands`), no two halves wait that would make a capture (`Unmatched`), and
  a half of a send that nothing interferes with waits until it is captured or lost
  (`HalvesWait`).

**`VpHostProofs`**, for any models, addresses, changes, crashes, time-outs and failures:

* `Remembered`: `NoLeak`. It speaks of the file; the invariant adds the same of the
  bindings in memory (`Bound`), because the file is about to be overwritten by
  them, that both agree except while a change is being saved (`Persisted`), that
  what is claimed by `ensure_claimed` is bound before (`BoundFirst`), and that a
  fresh allocation replaces no binding (`Fresh`).
* `Honest`: `SnapshotHonest`. When everything is to be off the facade empties the
  snapshot by itself after the wait, so the invariant has to know that the
  reconciliation waited for is the last of the queue (`OffLast`) and that one which
  has begun is not an empty one (`Begun`).
* `RealAddresses`: `OnRealAddress`. Between the rest states a printer may run on an
  address that has just been taken away; `Grounded` says that then its own entry is still
  to be submitted (`Unsettled`) or a reconciliation that moves it is in the queue
  (`Replaced`), however many are.
* `NoOldConfig` and `CloudIsTold`: `LatestConfigRuns` and `CloudLearns`. Both exclude
  reconciliations that outlive their time-out (`late = 0`). Then the queue holds one at
  most, and what it leaves running has the addresses of the configuration (`InTime`,
  `Fits`); an address the hub chose is in the reports until the cloud has it (`Told`),
  which needs that what is not handled yet is what the cloud said (`Pulled`).
* `TypesHold`: `TypeOK`, by which no two virtual printers ever run on one address
  (`Alone`), late reconciliations included: a start on an address another one listens on
  fails, and a hot apply stays on its own.

**`KlipperProofs`**, for any files, prints, durations, pauses, upsets and buffer cap: the
type invariant, `RecordsKept`, `CountedOnce`, `DoneIsDone` and `OverWithRecord`, from one
invariant. Records are acknowledged by key, so it says that the clock tells jobs
apart (`KeysUnique`); "once" needs that an open job is of a print nobody has
reported (`OpenJob`), that the tracker's memory of the print under way cannot look like a
reset (`NoFalseReset`) and that a record closes on its own print or a later one
(`ClosedAfter`). `OverWithRecord` relates three moments of a beat: a followed print is
open or spanned by a record (`Followed`), and what the beat read of a print that is over is
in what it then collects (`Shown`).

**`CamerasProofs`**, for any printers, workers, cadences, retries and changes. A camera is
configured once per printer (`IsInjective(Targets)`: `targets` is built from the keys of
a dict, `manager.py:310-314`).

* `NobodyStarves`, `NoPrinterGoesDark` and `BackOnIsDue`: `HangingDoNotStarve`,
  `NoBlackout`, `ReenabledIsDue`. `Pool` says that every due printer is in exactly one
  place and that none waits while a worker is free; counting the hanging ones
  against the workers is the argument. `Stamps` says that only printers in view have a
  stamp and that it is that of a collected frame.
* `ScoresStartCold`, `OnlyVerifiedModels`: `ColdAfterBreak` by `Broken` (the smoother has
  no memory of a printer the watch has passed over), `ModelVerified` by itself.
* `TypesHold`: `TypeOK`; the pool never runs more captures than it has workers
  (`FillLimit`), and no age grows beyond its cap (`Bounded`).

**`BeatProofs`** is about what the heartbeat delivers. `HubBeat`, for any requests, caps,
edits, redeliveries, revocations and deaths: `RunOnce`, `NoResultLost`, `CurrentPrinters`,
`NoRestartLoop` and, with the cap of the guard (`Capped`), `TypeOK`, from one invariant.
A command the printer acted on is in the guard (`Guarded`), what the beat has reported
and what it still has to do come from one answer and fit one payload (`OneAnswer`; the
assumption `DeliverMax <= ResultMax` is the cloud's cap on requests against the agent's
on results), versions and nonces only grow (`Versions`, `Nonces`), and the cooldown
is in the file as long as it is remembered (`Noted`).

The promises of `Billing` about `PrintJobs`, instantiated there as `Bambu`, for any names,
prints, deaths, rebuilds and caps:

* `PrintsBilledOnce` and `NoPrintsMerge`: `BilledOnce` and `NoSilentMerge`, when task ids
  do not come "late" (section 4, known limits, says what happens then; TLC finds all three
  invariants violated with "late" in the weather). Both follow from
  two facts about all records the tracker ever buffered. `Sound`: a record's key is its
  print's task id or, if it has none, a fingerprint of the past or the id of a later print
  the job took over (`KeyFits`), and its status is how that print ended or says it
  was replaced. `Agree`: records of one print have one key, records of one key one status.
  A step keeps them because the open job is of a print whose end was not seen and that
  no record has named (`OpenBambuJob`).
* `BambuRecordsAreKept`: `RecordsKept`, as long as the records collected in a beat fit the
  payload (`BambuFits`): what is cut off is acknowledged without having been sent. A
  record is found again by key and status, so it rests on `Agree`: `ack_jobs` takes away
  whatever has a key that was sent.
* `BambuTypesHold`: `TypeOK`, under the same hypothesis on task ids: the buffer stays under
  its cap and nothing of a tracker survives its adapter (`Standing`).

With `TypesHold` of `KlipperProofs` the type invariant of every module that runs is
proved, in the runs that list it (section 4) and in the others.

Only model-checked: the liveness properties `EventuallySettled`, `EventuallyBilled`,
`Resolved`, `Settled` and `Settles`, because fairness is outside the prover's reach; and
`StartedOnce`, which is false.

## 7. Not modelled

* Byte protocols (MQTT, FTP, TLS, SSDP, multipart), 3MF and slice-info parsing,
  certificates, image decoding and inference, the formatting of statuses and
  diagnostics: encoding and I/O.
* Authentication's rate limiter and the ranking of the pool: arithmetic on timestamps,
  by one thread each.
* Ingest: requests share no state, each has its own spool directory.
* Tailscale: one retry timer around an external command, on the heartbeat thread. Any
  answer of the cloud, a 5xx too, counts as the status having been reported.
* LAN discovery: sweeps behind one lock; nothing depends on their hits.
* The legacy single virtual printer with its retry timer: only a cloud that does not
  send several uses it.
* In `Cameras`: the environment override that enables every camera.
* In `HubBeat`: an installation cut off halfway (it is one step, which installs or
  leaves the old release), and the fallback of `update.sh` without systemd, which has
  no unit that could be there already.
* In `VpRuntime`: the TLS handshake (accepting a connection and starting its
  handler are one step, so a handshake under way when the listener closes is not
  covered), the files of failed uploads, `replace_members` (a removed member's
  session stays able to submit until it disconnects).
* In `VpHost`: a command that times out although it took effect, a bindings file
  that cannot be written (the code logs it and goes on), failed allocations'
  reports to the cloud, the legacy single printer.
* In `QueueDispatch`: malformed assignments, which are skipped without a report,
  and 401 answers to status reports.
* After a crash a job that is held and assigned again while its first print is
  still running is followed through the wrong print; the hub has no state that
  could tell.
