------------------------------- MODULE HubBeat -------------------------------
(*****************************************************************************)
(* The control side of the agent's heartbeat: agent.run posts its buffered   *)
(* results and, on a 200, pulls the configuration when its version differs   *)
(* (restart nonce, PrinterManager.reconcile), considers the release the      *)
(* cloud names (update.py, update.sh), runs the probes and dispatches the    *)
(* control commands that came with the answer.  The cloud, the administrator *)
(* and the printer behind an adapter are external, as is systemd             *)
(* (Restart=always): a process that ends is followed by a fresh one.         *)
(*                                                                           *)
(* One printer stands for all: reconcile treats each by itself.  A printer's *)
(* configuration is "none", "incomplete", "other" (a vendor that is not      *)
(* driven) or one of the connection facts in Facts, which are what a         *)
(* fingerprint holds.  A result is reduced to the request it closes.         *)
(*****************************************************************************)
EXTENDS Integers, Sequences, FiniteSets, SequencesExt, Lists

CONSTANTS
  Probes,       \* the diagnostic requests of an administrator, oldest first
  Commands,     \* the control commands (pause, resume, stop, ...), oldest first
  Facts,        \* connection facts of a printer the agent can drive
  KlipperFacts, \* those of a Klipper printer; the others are of a Bambu
  DeliverMax,   \* commands and probes the cloud puts into one answer
  ResultMax,    \* results the payload carries (64)
  RateMax,      \* commands executed per answer (16)
  GuardMax,     \* MAX_DISPATCHED_COMMANDS
  Releases,     \* releases after the one running first, 0
  Modes,        \* MAKEROS_HUB_UPDATE_MODE, chosen once
  MaxEdits,     \* bound: configuration edits, restart requests, releases named
  MaxUpsets     \* bound: kills, revocations, redeliveries

Order == Probes \o Commands
Requests == ToSet(Order)

ASSUME HubBeatAssumption ==
  /\ Probes \in Seq(ToSet(Probes)) /\ Commands \in Seq(ToSet(Commands)) /\ IsInjective(Order)
  /\ {DeliverMax, ResultMax, RateMax, GuardMax} \subseteq Nat \ {0}
  /\ DeliverMax <= ResultMax /\ Facts # {} /\ KlipperFacts \subseteq Facts
  /\ Releases \subseteq Nat \ {0} /\ Modes \subseteq {"systemd", "exit", "disabled"}
  /\ {MaxEdits, MaxUpsets} \subseteq Nat

VARIABLES
  cloud,      \* the cloud's rows: [cfg, ver, nonce, target, cred]
  row,        \* row[r]: "open" until delivered (made by now or later), then "taken"
  disk,       \* [cred, release, attempt, fresh]: credential, code, last_update.json
  unit,       \* release the transient unit makeros-hub-ota is installing, or 0
  mode,
  pc,         \* "boot", "idle", "pull", "update", "work"
  held,       \* the credential read by run()
  running,    \* __version__
  ver,        \* manager.config_version, 0 for None
  seen,       \* _restart_nonce_state, -1 before the first nonce
  adapter,    \* the printer's adapter, by its fingerprint, or "none"
  static,     \* the printer has a static error row
  answer,     \* what is left of the answer in hand
  guard,      \* manager._dispatched_commands
  results,    \* pending_probe_results and pending_command_results
  pulled,     \* history: configuration that came with ver
  acts,       \* history: how often the printer acted on a command since the code last
              \* accepted that it may act again
  owed,       \* history: requests this process worked on and the cloud has no result of
  exits,      \* history: restarts on the nonce
  tried,      \* history: [release, fresh] of the last time the update was triggered
  hammered,   \* history: it was triggered again for the same release within the cooldown
  edits, upsets

diskVars == <<disk, unit, mode>>
loopVars == <<held, running, ver, seen, adapter, static, pulled>>
memVars == <<loopVars, answer, guard, results>>
histVars == <<acts, owed, exits, tried, hammered>>
vars == <<cloud, row, diskVars, pc, memVars, histVars, edits, upsets>>

NoAnswer == [ver |-> 0, target |-> 0, work |-> <<>>, done |-> 0, missed |-> FALSE]

Init ==
  /\ cloud = [cfg |-> CHOOSE f \in Facts : TRUE, ver |-> 1, nonce |-> 0, target |-> 0, cred |-> 0]
  /\ row = [r \in Requests |-> "open"]
  /\ disk = [cred |-> 0, release |-> 0, attempt |-> 0, fresh |-> FALSE]
  /\ unit = 0 /\ mode \in Modes /\ pc = "boot"
  /\ held = 0 /\ running = 0 /\ ver = 0 /\ seen = -1
  /\ adapter = "none" /\ static = FALSE
  /\ answer = NoAnswer /\ guard = <<>> /\ results = <<>> /\ pulled = "none"
  /\ acts = [c \in ToSet(Commands) |-> 0] /\ owed = {}
  /\ exits = 0 /\ tried = [release |-> 0, fresh |-> FALSE] /\ hammered = FALSE
  /\ edits = 0 /\ upsets = 0

\* The process has ended and systemd starts it: run() reads the credential, memory is new.
Fresh(release) ==
  /\ pc' = "boot" /\ held' = disk.cred /\ running' = release
  /\ ver' = 0 /\ seen' = -1 /\ adapter' = "none" /\ static' = FALSE /\ pulled' = "none"
  /\ answer' = NoAnswer /\ guard' = <<>> /\ results' = <<>>
  /\ acts' = [c \in ToSet(Commands) |-> 0] /\ owed' = {}

-------------------------------------------------------------------------------
(* The post of a beat. *)

\* heartbeat_payload: the results that fit.
Payload == ToSet(SubSeq(results, 1, IF Len(results) < ResultMax THEN Len(results) ELSE ResultMax))

\* The cloud takes the results, closing their rows, then delivers requests made by now,
\* the oldest first.
Deliver(batch) ==
  LET open == {r \in Requests : row[r] = "open"} \ Payload
  IN /\ batch \subseteq open /\ Cardinality(batch) <= DeliverMax
     /\ IsPrefix(Keep(Commands, batch), Keep(Commands, open))
     /\ row' = [r \in Requests |-> IF r \in batch \cup Payload THEN "taken" ELSE row[r]]
     /\ owed' = owed \ Payload

\* Mutant: the results are dropped whatever became of the post.
UnreportedNone(status) == <<>>

\* Mutant: the buffers are never cleared.
UnreportedKept(status) == results

\* Only a 200 clears the buffers.
Unreported(status) == IF status = 200 THEN <<>> ELSE results

PostOk ==
  /\ pc = "idle" /\ held = cloud.cred
  /\ \E batch \in SUBSET Requests :
       /\ Deliver(batch)
       /\ answer' = [NoAnswer EXCEPT !.ver = cloud.ver, !.target = cloud.target,
                      !.work = Keep(Order, batch)]
  /\ results' = Unreported(200)
  /\ pc' = IF cloud.ver # ver THEN "pull" ELSE "update"
  /\ UNCHANGED <<cloud, diskVars, loopVars, guard,
                 acts, exits, tried, hammered, edits, upsets>>

\* The cloud took the post, and its answer was lost (retries included).
PostLost ==
  /\ pc = "idle" /\ held = cloud.cred
  /\ \E batch \in SUBSET Requests : Deliver(batch)
  /\ results' = Unreported(0)
  /\ UNCHANGED <<cloud, diskVars, pc, loopVars, answer, guard,
                 acts, exits, tried, hammered, edits, upsets>>

\* 401 (degraded), a 5xx or no connection: everything stays up, the next beat tries again.
PostRefused ==
  /\ pc = "idle"
  /\ results' = Unreported(401)
  /\ UNCHANGED <<cloud, row, diskVars, pc, loopVars, answer,
                 guard, histVars, edits, upsets>>

-------------------------------------------------------------------------------
(* The pull of the configuration. *)

\* Mutant: an incomplete configuration leaves the old adapter in place.
ReconcileKeeps(cfg) ==
  CASE cfg = "none"       -> {[adapter |-> "none", static |-> FALSE]}
    [] cfg = "incomplete" -> {[adapter |-> adapter, static |-> TRUE]}
    [] cfg = "other"      -> {[adapter |-> adapter, static |-> TRUE]}
    [] OTHER              -> {[adapter |-> cfg, static |-> FALSE], [adapter |-> "none", static |-> TRUE]}

\* What reconcile leaves of adapter and static row for a configuration.  "other" only adds
\* the row.  An adapter with the same facts is kept or, found wedged past its backoff,
\* rebuilt like one whose facts changed; a start may fail.
Reconcile(cfg) ==
  CASE cfg = "none"       -> {[adapter |-> "none", static |-> FALSE]}
    [] cfg = "incomplete" -> {[adapter |-> "none", static |-> TRUE]}
    [] cfg = "other"      -> {[adapter |-> adapter, static |-> TRUE]}
    [] OTHER              -> {[adapter |-> cfg, static |-> FALSE], [adapter |-> "none", static |-> TRUE]}

\* Mutant: the first nonce is compared with nothing instead of being adopted.
RestartRequestedAlways == seen # cloud.nonce

\* _maybe_restart_on_nonce: the first nonce of a process is adopted.
RestartRequested == seen # -1 /\ seen # cloud.nonce

AfterPull == IF pc = "boot" THEN "idle" ELSE "update"

\* os._exit(0), before anything of the configuration is applied.
PullRestarts ==
  /\ pc \in {"boot", "pull"} /\ held = cloud.cred /\ RestartRequested
  /\ Fresh(disk.release)
  /\ exits' = exits + 1
  /\ UNCHANGED <<cloud, row, diskVars, tried, hammered, edits, upsets>>

PullOk ==
  /\ pc \in {"boot", "pull"} /\ held = cloud.cred /\ ~RestartRequested
  /\ seen' = cloud.nonce /\ ver' = cloud.ver /\ pulled' = cloud.cfg
  /\ \E s \in Reconcile(cloud.cfg) : adapter' = s.adapter /\ static' = s.static
  /\ pc' = AfterPull
  /\ UNCHANGED <<cloud, row, diskVars, held, running, answer, guard, results, histVars, edits, upsets>>

\* A transport error, a 401 or a 5xx: the current adapters stay until the next beat.
PullFailed ==
  /\ pc \in {"boot", "pull"}
  /\ pc' = AfterPull
  /\ answer' = [answer EXCEPT !.missed = (pc = "pull")]
  /\ UNCHANGED <<cloud, row, diskVars, loopVars, guard, results, histVars, edits, upsets>>

-------------------------------------------------------------------------------
(* The release the answer names. *)

\* should_update and recently_attempted.
UpdateWanted ==
  /\ mode # "disabled" /\ answer.target > running
  /\ ~(disk.attempt = answer.target /\ disk.fresh)

\* Mutant: last_update.json is written only once the script has been launched.
AttemptNotedIfLaunched(launched) ==
  IF launched THEN [disk EXCEPT !.attempt = answer.target, !.fresh = TRUE] ELSE disk

\* apply_update writes last_update.json before it triggers anything.
AttemptNoted(launched) == [disk EXCEPT !.attempt = answer.target, !.fresh = TRUE]

\* What is left of the answer; with the last request the beat ends.
Rest(work, done) ==
  /\ pc' = IF work = <<>> THEN "idle" ELSE "work"
  /\ answer' = IF work = <<>> THEN NoAnswer ELSE [answer EXCEPT !.target = 0, !.work = work, !.done = done]

NoteTried ==
  /\ tried' = [release |-> answer.target, fresh |-> TRUE]
  /\ hammered' = (hammered \/ tried = [release |-> answer.target, fresh |-> TRUE])

\* The root script starts the transient unit, unless one of that name is still there or
\* sudo, systemd-run or the time-out fail it.
UpdateTriggered ==
  /\ pc = "update" /\ UpdateWanted /\ mode = "systemd"
  /\ \E launched \in BOOLEAN :
       /\ launched => unit = 0
       /\ unit' = IF launched THEN answer.target ELSE unit
       /\ disk' = AttemptNoted(launched)
  /\ NoteTried /\ Rest(answer.work, 0)
  /\ UNCHANGED <<cloud, row, mode, loopVars, guard, results, acts, owed, exits, edits, upsets>>

\* Exit mode: the process ends, and the orchestrator has pulled the image or has not.
UpdateExits ==
  /\ pc = "update" /\ UpdateWanted /\ mode = "exit"
  /\ \E image \in {disk.release, answer.target} :
       /\ disk' = [AttemptNoted(TRUE) EXCEPT !.release = image]
       /\ Fresh(image)
  /\ NoteTried
  /\ UNCHANGED <<cloud, row, unit, mode, exits, edits, upsets>>

UpdateSkipped ==
  /\ pc = "update" /\ ~UpdateWanted
  /\ Rest(answer.work, 0)
  /\ UNCHANGED <<cloud, row, diskVars, loopVars, guard, results, histVars, edits, upsets>>

\* The unit has installed the release and restarts the service, which ends its beat first.
UnitInstalls ==
  /\ unit # 0 /\ pc = "idle"
  /\ disk' = [disk EXCEPT !.release = unit] /\ unit' = 0
  /\ Fresh(unit)
  /\ UNCHANGED <<cloud, row, mode, exits, tried, hammered, edits, upsets>>

\* The clone, the content-trust check or the installation fails.
UnitFails ==
  /\ unit # 0 /\ pc = "idle" /\ unit' = 0
  /\ UNCHANGED <<cloud, row, disk, mode, pc, memVars, histVars, edits, upsets>>

CooldownPasses ==
  /\ pc = "idle" /\ (disk.fresh \/ tried.fresh)
  /\ disk' = [disk EXCEPT !.fresh = FALSE] /\ tried' = [tried EXCEPT !.fresh = FALSE]
  /\ UNCHANGED <<cloud, row, unit, mode, pc, memVars, acts, owed, exits, hammered,
                 edits, upsets>>

-------------------------------------------------------------------------------
(* The probes and commands that came with the answer. *)

\* One request is dealt with: its result waits for the next heartbeat.
Report(r) ==
  /\ results' = Append(results, r)
  /\ owed' = owed \cup {r}
  /\ Rest(Tail(answer.work), answer.done + (IF r \in ToSet(Commands) THEN 1 ELSE 0))
  /\ UNCHANGED <<cloud, row, diskVars, loopVars, exits, tried, hammered, edits, upsets>>

RunProbe(p) ==
  /\ Report(p)
  /\ UNCHANGED <<guard, acts>>

\* Mutant: a redelivered request is executed again.
KnownNever(c) == FALSE

\* Executed before by this process: reported again, not sent again.
Known(c) == c \in ToSet(guard)

\* rate_limited (the place in the list counts, executed or not), or printer_unavailable.
Rejected(c) == answer.done >= RateMax \/ adapter = "none"

\* dispatch_commands for a command it does not send.
CloseUnsent(c) ==
  /\ Known(c) \/ Rejected(c)
  /\ Report(c)
  /\ UNCHANGED <<guard, acts>>

\* Moonraker confirms a command; a refusal, a lost connection and a bad parameter are not
\* acted on, and a time-out or an answer of another shape may hide one that was.
KlipperReplies == [ok : {FALSE}, acted : BOOLEAN] \cup {[ok |-> TRUE, acted |-> TRUE]}

\* A Bambu's command is published at QoS 0: what was published may get lost.
BambuReplies == [ok : {TRUE}, acted : BOOLEAN] \cup {[ok |-> FALSE, acted |-> FALSE]}

\* adapter.send_command: a positive reply is remembered, and the oldest gives way; any
\* other leaves the command free to be sent again.
Send(c) ==
  /\ ~Known(c) /\ ~Rejected(c)
  /\ Report(c)
  /\ \E reply \in IF adapter \in KlipperFacts THEN KlipperReplies ELSE BambuReplies :
       IF reply.ok
       THEN LET kept == IF Len(guard) < GuardMax THEN guard ELSE Tail(guard)
                gone == ToSet(guard) \ ToSet(kept)
            IN /\ guard' = Append(kept, c)
               /\ acts' = [d \in ToSet(Commands) |->
                             CASE d = c -> acts[c] + (IF reply.acted THEN 1 ELSE 0)
                               [] d \in gone -> 0
                               [] OTHER -> acts[d]]
       ELSE guard' = guard /\ acts' = [acts EXCEPT ![c] = 0]

WorkStep ==
  /\ pc = "work"
  /\ LET r == Head(answer.work)
     IN IF r \in ToSet(Probes) THEN RunProbe(r) ELSE CloseUnsent(r) \/ Send(r)

-------------------------------------------------------------------------------
(* The administrator, the cloud and the machine. *)

\* The agent looks at the cloud's rows in posts and pulls, and at the unit, the cooldown
\* and the credential file once per beat or process: changes at other moments can be put
\* off to these.  The process itself may be killed at any.
Elsewhere(seenAt) ==
  /\ pc \in seenAt
  /\ UNCHANGED <<pc, memVars, histVars>>

\* Both an edit and a restart request change the version heartbeats announce.
EditConfig(cfg) ==
  /\ edits < MaxEdits /\ edits' = edits + 1
  /\ cloud' = [cloud EXCEPT !.cfg = cfg, !.ver = @ + 1]
  /\ Elsewhere({"boot", "idle", "pull"}) /\ UNCHANGED <<row, diskVars, upsets>>

RequestRestart ==
  /\ edits < MaxEdits /\ edits' = edits + 1
  /\ cloud' = [cloud EXCEPT !.nonce = @ + 1, !.ver = @ + 1]
  /\ Elsewhere({"boot", "idle", "pull"}) /\ UNCHANGED <<row, diskVars, upsets>>

Upset == upsets < MaxUpsets /\ upsets' = upsets + 1

NameRelease(t) ==
  /\ edits < MaxEdits /\ edits' = edits + 1
  /\ cloud' = [cloud EXCEPT !.target = t]
  /\ Elsewhere({"idle"}) /\ UNCHANGED <<row, diskVars, upsets>>

\* "a lost result report could in theory get the row redelivered".
Redeliver(r) ==
  /\ Upset /\ row[r] = "taken"
  /\ row' = [row EXCEPT ![r] = "open"]
  /\ Elsewhere({"idle"}) /\ UNCHANGED <<cloud, diskVars, edits>>

Revoke ==
  /\ Upset
  /\ cloud' = [cloud EXCEPT !.cred = @ + 1]
  /\ Elsewhere({"boot", "idle", "pull"}) /\ UNCHANGED <<row, diskVars, edits>>

\* enroll writes the new credential; the running process does not read it.
Enroll ==
  /\ disk.cred # cloud.cred
  /\ disk' = [disk EXCEPT !.cred = cloud.cred]
  /\ Elsewhere({"idle"}) /\ UNCHANGED <<cloud, row, unit, mode, edits, upsets>>

Kill ==
  /\ Upset
  /\ Fresh(disk.release)
  /\ UNCHANGED <<cloud, row, diskVars, exits, tried, hammered, edits>>

Pull == PullOk \/ PullFailed \/ PullRestarts

Update == UpdateTriggered \/ UpdateExits \/ UpdateSkipped

Machine == UnitInstalls \/ UnitFails \/ CooldownPasses \/ Enroll \/ Kill

Cloud ==
  \/ \E cfg \in ({"none", "incomplete", "other"} \cup Facts) \ {cloud.cfg} : EditConfig(cfg)
  \/ \E r \in Requests : Redeliver(r)
  \/ \E t \in Releases \ {cloud.target} : NameRelease(t)
  \/ RequestRestart \/ Revoke

Next ==
  \/ PostOk \/ PostLost \/ PostRefused
  \/ Pull \/ Update \/ WorkStep
  \/ Machine \/ Cloud

Spec == Init /\ [][Next]_vars

\* The loop goes on by itself; time and again a post and a pull get through.
LiveSpec ==
  /\ Spec
  /\ WF_vars(Pull \/ Update \/ WorkStep)
  /\ SF_vars(PostOk) /\ SF_vars(PullOk \/ PullRestarts)

-------------------------------------------------------------------------------
(* Properties. *)

\* Types and bounds: the guard's cap, and results of one answer only.
TypeOK ==
  /\ row \in [Requests -> {"open", "taken"}]
  /\ pc \in {"boot", "idle", "pull", "update", "work"}
  /\ adapter \in {"none"} \cup Facts /\ static \in BOOLEAN
  /\ Len(guard) <= GuardMax
  /\ ToSet(results) \cup ToSet(answer.work) \cup owed \subseteq Requests
  /\ acts \in [ToSet(Commands) -> 0 .. 2]
  /\ ver <= cloud.ver /\ seen <= cloud.nonce
  /\ pc \in {"boot", "idle"} => answer.work = <<>>

\* "a redelivery re-report[s] ok without republishing": through redeliveries, adapter
\* rebuilds and posts that are lost, a printer acts on a command once, unless its reply
\* was not a success, the guard had to forget it, or the process was replaced.
RunOnce == \A c \in ToSet(Commands) : acts[c] <= 1

\* The payload's cap and the clearing of the whole buffer lose nothing: what a process
\* has worked on is closed in the cloud or still waits to be reported, whatever becomes
\* of the posts in between.
NoResultLost == owed \subseteq ToSet(results)

\* What runs is what the version the manager announces as its own says, through every
\* sequence of edits, failed starts and failed pulls; and commands are dispatched on the
\* configuration of their own answer unless this very beat failed to fetch it.
CurrentPrinters ==
  /\ ver # 0 =>
       CASE pulled = "none"       -> adapter = "none" /\ ~static
         [] pulled = "incomplete" -> adapter = "none" /\ static
         [] pulled = "other"      -> static
         [] OTHER                 -> adapter = (IF static THEN "none" ELSE pulled)
  /\ pc \in {"update", "work"} => ver >= answer.ver \/ answer.missed

\* "a restart doesn't immediately re-trigger on the post-restart config pull" and "a
\* broken target can't loop": the agent restarts itself at most once per request, and
\* does not trigger one release twice within the cooldown, across its own restarts.
NoRestartLoop == exits <= cloud.nonce /\ ~hammered

\* Once the credential held is the cloud's and no newer release is wanted, the agent
\* ends up on the latest configuration and nonce with no result left to report.
Settles ==
  <>[](held = cloud.cred /\ cloud.target <= running) =>
    <>[](pc # "boot" /\ ver = cloud.ver /\ seen = cloud.nonce /\ results = <<>>)
===============================================================================
