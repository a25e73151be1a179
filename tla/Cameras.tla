-------------------------------- MODULE Cameras --------------------------------
(***************************************************************************)
(* The camera part of a heartbeat: which printers are due for a frame      *)
(* (CameraScheduler), the bounded pool that captures them                  *)
(* (collect_camera_frames), the out-of-band push, and the failure watch    *)
(* that runs a detector over the frames and smooths its scores             *)
(* (failure_watch.py).  Beside it a thread fetches the detector's model    *)
(* and fills the DetectorHolder (onnx_detector.py).                        *)
(*                                                                         *)
(* Time is counted in beats; a cadence is a number of beats.  The printers *)
(* are configured in the order of Targets, which is the order in which the *)
(* pool takes them.                                                        *)
(***************************************************************************)
EXTENDS Integers, Sequences, SequencesExt, FiniteSets, Lists

CONSTANTS
  Targets,      \* manager.camera_targets(), a sequence of printers
  Source,       \* per printer: its camera_source_kind, "bambu-rtsp", "bambu-lan",
                \* "http-snapshot" or "none"
  Workers,      \* max_workers
  EdgeBeats,    \* FIRST_OR_LAST_LAYER_S in beats
  MidBeats,     \* MID_PRINT_S in beats
  IdleBeats,    \* IDLE_S in beats, also the smoother's stale_after_sec
  Retries,      \* download retries after the first attempt
  MaxChanges    \* bound: changes of the printers, cameras, configuration and disk

Printers == ToSet(Targets)

ASSUME CamerasAssumption ==
  /\ Targets \in Seq(Printers) /\ IsInjective(Targets)
  /\ Source \in [Printers -> {"bambu-rtsp", "bambu-lan", "http-snapshot", "none"}]
  /\ Workers \in Nat \ {0} /\ Retries \in Nat /\ MaxChanges \in Nat
  /\ EdgeBeats \in Nat /\ MidBeats \in Nat /\ IdleBeats \in Nat
  /\ EdgeBeats <= MidBeats /\ MidBeats <= IdleBeats

VARIABLES
  config,     \* per printer: "off", "camera" (enabled) or "watch" (and aiFailureWatchEnabled)
  act,        \* per printer: "idle", "edge" (printing, first or last 5%) or "mid"
  camera,     \* per printer: "ok", "broken" (fails at once) or "hangs"
  lastState,  \* CameraScheduler._last_state, Unseen for none
  age,        \* beats since CameraScheduler._last_capture, Never for none
  prev,       \* beats since the smoother's last sample, Never for none
  pc,         \* "idle", "capture" or "watch"
  due, queue, running, frames, failed,   \* collect_camera_frames' locals
  model,      \* <sha>.onnx on disk: "none", "good" or "bad"
  boot,       \* the detector thread: "check", "fetch", "verify", "load", "active" or "stub"
  tries,      \* download attempts left
  eligible,   \* history: the printers the last beat found camera-enabled
  shipped,    \* history: beats since a frame of the printer was collected, Never for none
  passed,     \* history: printers the watch passed over since their last sample
  mixed,      \* history: printers whose scores were smoothed across such a break
  changes     \* counter of the bounded environment

configVars == <<config, act, camera>>
schedVars == <<lastState, age, shipped, eligible>>
poolVars == <<due, queue, running, frames, failed>>
watchVars == <<prev, passed, mixed>>
bootVars == <<model, boot, tries>>
vars == <<configVars, schedVars, poolVars, watchVars, bootVars, pc, changes>>

Never == -1
Unseen == "unseen"
None(S) == [p \in S |-> Never]

Init ==
  /\ config = [p \in Printers |-> "watch"]
  /\ act \in {[p \in Printers |-> a] : a \in {"idle", "edge"}}
  /\ camera = [p \in Printers |-> "ok"]
  /\ lastState = [p \in Printers |-> Unseen] /\ age = None(Printers) /\ prev = None(Printers)
  /\ pc = "idle" /\ due = {} /\ queue = <<>> /\ running = {} /\ frames = {} /\ failed = {}
  /\ model = "none" /\ boot = "check" /\ tries = 0
  /\ eligible = {} /\ shipped = None(Printers) /\ passed = {} /\ mixed = {}
  /\ changes = 0

-------------------------------------------------------------------------------
(* CameraScheduler. *)

State(p) == IF act[p] = "idle" THEN "idle" ELSE "printing"

\* _interval: dense in the first and last layers, sparse in between, rare when idle.
Interval(p) ==
  CASE act[p] = "idle" -> IdleBeats
    [] act[p] = "edge" -> EdgeBeats
    [] act[p] = "mid" -> MidBeats

\* should_capture: first sighting, a state change, or the interval is over.
ShouldCapture(p, states, ages) ==
  ages[p] = Never \/ State(p) # states[p] \/ ages[p] >= Interval(p)

\* forget(keep_ids), for the scheduler's and for the smoother's dicts.
Forget(f, keep, none) == [p \in DOMAIN f |-> IF p \in keep THEN f[p] ELSE none]

\* Mutant: disabled printers are kept.
EligibleAll == Printers

\* Printers the scheduler keeps track of: cameraEnabled, by the latest config.
Eligible == {p \in Printers : config[p] # "off"}

\* Mutant: every attempt is stamped.
StampedAttempts == due

\* mark_captured is called for a printer whose frame is in hand.
Stamped == frames

-------------------------------------------------------------------------------
(* collect_camera_frames, on the heartbeat thread, and its pool. *)

Started(waiting, busy) ==
  LET free == Workers - Cardinality(busy)
  IN  IF free <= 0 \/ waiting = <<>> THEN 0 ELSE IF Len(waiting) < free THEN Len(waiting) ELSE free

\* Mutant: captures run one after the other.
FillSequential(waiting, busy) ==
  LET n == IF busy = {} /\ waiting # <<>> THEN 1 ELSE 0
  IN  /\ running' = busy \cup {waiting[i] : i \in 1 .. n}
      /\ queue' = SubSeq(waiting, n + 1, Len(waiting))

\* A free worker takes the next capture.
Fill(waiting, busy) ==
  LET n == Started(waiting, busy)
  IN  /\ running' = busy \cup {waiting[i] : i \in 1 .. n}
      /\ queue' = SubSeq(waiting, n + 1, Len(waiting))

\* The beat reaches the cameras: forget the printers that are off, find the due ones
\* (which overwrites _last_state) and submit them.
CollectFrames ==
  /\ pc = "idle"
  /\ LET on == {p \in Printers : config[p] # "off"}
         states == Forget(lastState, Eligible, Unseen)
         ages == Forget(age, Eligible, Never)
         now == {p \in on : ShouldCapture(p, states, ages)}
     IN /\ due' = now
        /\ lastState' = [p \in Printers |-> IF p \in on THEN State(p) ELSE states[p]]
        /\ age' = ages
        /\ eligible' = on
        /\ Fill(Keep(Targets, now), {})
  /\ frames' = {} /\ failed' = {} /\ pc' = "capture"
  /\ UNCHANGED <<configVars, shipped, watchVars, bootVars, changes>>

\* rtsp_camera: one deadline over the whole ffmpeg run, below the pool's.
RtspResults(conduct) == IF conduct = "ok" THEN {"frame"} ELSE {"reason"}

\* bambu_camera: a timeout per read only; a camera that trickles may end in a frame.
LanResults(conduct) ==
  CASE conduct = "ok" -> {"frame"} [] conduct = "broken" -> {"reason"} [] OTHER -> {"frame", "reason"}

\* http_snapshot, likewise.
HttpResults(conduct) ==
  CASE conduct = "ok" -> {"frame"} [] conduct = "broken" -> {"reason"} [] OTHER -> {"frame", "reason"}

\* capture_printer_frame_with_reason: the strategy that fits the printer.
Results(p) ==
  CASE Source[p] = "bambu-rtsp" -> RtspResults(camera[p])
    [] Source[p] = "bambu-lan" -> LanResults(camera[p])
    [] Source[p] = "http-snapshot" -> HttpResults(camera[p])
    [] Source[p] = "none" -> {"reason"}

\* A capture returns and as_completed hands it over: a frame, or a reason.
Captured(p) ==
  /\ pc = "capture" /\ p \in running
  /\ \/ "frame" \in Results(p) /\ frames' = frames \cup {p} /\ UNCHANGED failed
     \/ "reason" \in Results(p) /\ failed' = failed \cup {p} /\ UNCHANGED frames
  /\ Fill(queue, running \ {p})
  /\ UNCHANGED <<configVars, schedVars, due, watchVars, bootVars, pc, changes>>

\* Captures that started at once; an RTSP capture among them ends before the deadline.
FirstWave == LET order == Keep(Targets, due)
             IN  {order[i] : i \in {k \in DOMAIN order : k <= Workers}}
Outlasts(p) == camera[p] = "hangs" /\ (Source[p] = "bambu-rtsp" => p \notin FirstWave)

\* One beat more, counted up to cap.
Older(f, cap) == [p \in DOMAIN f |-> IF f[p] \in {Never, cap} THEN f[p] ELSE f[p] + 1]

\* The smoother resets a series whose last sample is more than stale_after_sec old.
Stale == IdleBeats + 1

\* Captures the deadline cut off or never started count as a timeout.
Unfinished == due \ frames

\* All captures are in, or overall_timeout is over while only hanging ones run: the
\* rest is abandoned, stamps are set, frames and failures are pushed (best effort,
\* nothing is kept), and the loop goes on to the failure watch.
CollectDone ==
  /\ pc = "capture"
  /\ \A p \in running : Outlasts(p)
  /\ failed' = Unfinished
  /\ age' = [p \in Printers |-> IF p \in Stamped THEN 0 ELSE age[p]]
  /\ shipped' = [p \in Printers |-> IF p \in frames THEN 0 ELSE shipped[p]]
  /\ queue' = <<>> /\ running' = {}
  /\ pc' = "watch"
  /\ UNCHANGED <<configVars, lastState, eligible, due, frames, watchVars, bootVars, changes>>

-------------------------------------------------------------------------------
(* The failure watch. *)

\* Printers to infer on: both switches on, printing, and a frame in this beat.
Watched == {p \in frames : config[p] = "watch" /\ State(p) = "printing"}

\* Mutant: the smoother forgets disabled printers only.
KeptEnabled == {p \in Printers : config[p] = "watch"}

\* smoother.forget(eligible_ids)
Kept == Watched

\* collect_failure_samples, which runs when there is any frame: infer, smooth, forget
\* the printers not inferred on.  A real detector may raise: no sample then.
Sample(raised) ==
  LET sampled == Watched \ raised
      warm == {p \in sampled : prev[p] \notin {Never, Stale}}
  IN  /\ raised \subseteq Watched /\ (raised # {} => boot = "active")
      /\ prev' = Forget(Older([p \in Printers |-> IF p \in sampled THEN 0 ELSE prev[p]], Stale), Kept, Never)
      /\ mixed' = mixed \cup (warm \cap passed)
      /\ passed' = (passed \cup (Printers \ Watched)) \ sampled

NoSample == prev' = Older(prev, Stale) /\ UNCHANGED <<passed, mixed>>

\* The failure watch, and the beat is over.
Watch ==
  /\ pc = "watch"
  /\ IF frames = {} THEN NoSample ELSE \E raised \in SUBSET frames : Sample(raised)
  /\ age' = Older(age, IdleBeats) /\ shipped' = Older(shipped, IdleBeats)
  /\ pc' = "idle" /\ due' = {} /\ frames' = {} /\ failed' = {}
  /\ UNCHANGED <<configVars, lastState, eligible, queue, running, bootVars, changes>>

-------------------------------------------------------------------------------
(* build_detector_async's thread: download_model, then the session. *)

BootStep(from) == boot = from /\ UNCHANGED <<configVars, schedVars, poolVars, watchVars, pc, changes>>

\* Mutant: a cached file is used as it is.
CheckCacheUnverified ==
  /\ BootStep("check")
  /\ boot' = IF model = "none" THEN "fetch" ELSE "load"
  /\ tries' = Retries
  /\ UNCHANGED model

\* No model is configured, the runtime is missing or the directory cannot be made; or a
\* cached file is used if its hash still matches, and removed if that works otherwise.
\* (The sweep of old partial files is left out: nothing reads those.)
CheckCache ==
  /\ BootStep("check")
  /\ \/ boot' = "stub" /\ UNCHANGED model
     \/ boot' = (IF model = "good" THEN "load" ELSE "fetch")
        /\ model' \in (IF model = "bad" THEN {"none", "bad"} ELSE {model})
  /\ tries' = Retries

\* An attempt: the body is in a partial file, or that failed and the file is unlinked.
\* Network errors are retried as often as Retries says, others are not.
Fetch ==
  /\ BootStep("fetch")
  /\ \/ boot' = "verify" /\ UNCHANGED tries
     \/ tries > 0 /\ tries' = tries - 1 /\ UNCHANGED boot
     \/ boot' = "stub" /\ UNCHANGED tries
  /\ UNCHANGED model

\* The hash matches and the partial is renamed, or it is unlinked and the boot ends.
Verify ==
  /\ BootStep("verify")
  /\ \/ model' = "good" /\ boot' = "load"
     \/ boot' = "stub" /\ UNCHANGED model
  /\ UNCHANGED tries

\* The session is built and warmed up, or that fails; holder.set either way.
Load ==
  /\ BootStep("load")
  /\ boot' \in {"active", "stub"}
  /\ UNCHANGED <<model, tries>>

Boot == CheckCache \/ Fetch \/ Verify \/ Load

-------------------------------------------------------------------------------
(* The environment: between beats, a printer, its camera or its configuration changes;
   the process may be killed at any point, and the file on disk may rot meanwhile. *)

Change ==
  /\ changes < MaxChanges /\ changes' = changes + 1
  /\ UNCHANGED <<schedVars, poolVars, watchVars, bootVars, pc>>

SetConfig(p, c) == pc = "idle" /\ Change /\ config' = [config EXCEPT ![p] = c] /\ UNCHANGED <<act, camera>>
SetAct(p, a) == pc = "idle" /\ Change /\ act' = [act EXCEPT ![p] = a] /\ UNCHANGED <<config, camera>>
SetCamera(p, c) == pc = "idle" /\ Change /\ camera' = [camera EXCEPT ![p] = c] /\ UNCHANGED <<config, act>>

Kill ==
  /\ changes < MaxChanges /\ changes' = changes + 1
  /\ lastState' = [p \in Printers |-> Unseen] /\ age' = None(Printers) /\ prev' = None(Printers)
  /\ pc' = "idle" /\ due' = {} /\ queue' = <<>> /\ running' = {} /\ frames' = {} /\ failed' = {}
  /\ boot' = "check" /\ tries' = 0
  /\ model' \in {model} \cup (IF model = "good" THEN {"bad"} ELSE {})
  /\ eligible' = {} /\ shipped' = None(Printers) /\ passed' = {}
  /\ UNCHANGED <<configVars, mixed>>

Beat == CollectFrames \/ (\E p \in Printers : Captured(p)) \/ CollectDone \/ Watch

Environment ==
  \/ \E p \in Printers :
       \/ \E c \in {"off", "camera", "watch"} \ {config[p]} : SetConfig(p, c)
       \/ \E a \in {"idle", "edge", "mid"} \ {act[p]} : SetAct(p, a)
       \/ \E c \in {"ok", "broken", "hangs"} \ {camera[p]} : SetCamera(p, c)
  \/ Kill

Next == Beat \/ Boot \/ Environment

Spec == Init /\ [][Next]_vars

-------------------------------------------------------------------------------
(* Properties. *)

\* Types, and the locals of collect_camera_frames.
TypeOK ==
  /\ config \in [Printers -> {"off", "camera", "watch"}]
  /\ act \in [Printers -> {"idle", "edge", "mid"}]
  /\ lastState \in [Printers -> {Unseen, "idle", "printing"}]
  /\ {age, prev, shipped} \subseteq [Printers -> Never .. Stale]
  /\ Cardinality(running) <= Workers
  /\ running \cup ToSet(queue) \cup frames \cup failed \subseteq due
  /\ pc = "idle" => due = {} /\ running = {}
  /\ boot \in {"check", "fetch", "verify", "load", "active", "stub"}
  /\ model \in {"none", "good", "bad"} /\ tries \in 0 .. Retries

\* "a slow/unreachable camera never stalls the heartbeat": as long as fewer captures
\* outlast the deadline than there are workers, every due printer whose camera answers
\* gets its frame in this very beat, wherever it stands in the queue.
HangingDoNotStarve ==
  pc = "watch" /\ Cardinality({p \in due : Outlasts(p)}) < Workers =>
    \A p \in due : camera[p] = "ok" /\ Source[p] # "none" => p \in frames

\* Mark-on-success: a camera-enabled printer is left out of a beat only if a frame of
\* it was collected within the interval of its state ("10-minute blackouts").
NoBlackout ==
  pc = "watch" =>
    \A p \in eligible \ due : shipped[p] # Never /\ shipped[p] < Interval(p)

\* "re-enabling one later grabs a fresh frame immediately": a printer that was off in
\* the last beat is due in the first beat that finds it on.
ReenabledIsDue ==
  [][\A p \in Printers : p \in eligible' /\ p \notin eligible => p \in due']_eligible

\* A score is never smoothed into one from before a watch pass that left the printer
\* out, be it disabled, not printing or without a frame.
ColdAfterBreak == mixed = {}

\* Only a file whose hash was checked in this process is loaded, whatever crashes
\* left on disk.
ModelVerified == boot \in {"load", "active"} => model = "good"
===============================================================================
