------------------------------- MODULE VpSubmit -------------------------------
(***************************************************************************)
(* The virtual printer's submission pipeline of the agent (agent.py and    *)
(* vprinter/outbox.py).  A member's captured job is persisted in an        *)
(* on-disk outbox and put on a bounded in-memory queue by the virtual      *)
(* printer's asyncio thread; the heartbeat thread drains the queue into    *)
(* the cloud, retries under an attempt cap, and removes the record when    *)
(* the job is settled.  The process may crash between any two steps; the   *)
(* outbox is read back once per process.                                   *)
(*                                                                         *)
(* A job is its submission uid (deterministic in the member, the file, the *)
(* plate and the AMS mapping) and its attempt count: nothing else of it is *)
(* read by the pipeline.                                                   *)
(***************************************************************************)
EXTENDS Integers, Sequences, FiniteSets

CONSTANTS
  Uids,         \* submission uids of the jobs members may send
  QueueMax,     \* VP_SUBMISSION_QUEUE_MAX
  DrainMax,     \* VP_SUBMISSIONS_PER_HEARTBEAT
  MaxAttempts,  \* VP_SUBMISSION_MAX_ATTEMPTS
  Faults,       \* which faults the environment may inject, see FaultKinds
  MaxCaptures,  \* bound: captures in a behaviour
  MaxCrashes,   \* bound: process deaths in a behaviour
  MaxOutages    \* bound: credential outages in a behaviour

\* "capture", "retry": persist() fails there; "remove": remove() fails;
\* "model": the virtual printer is taken down while the agent runs.
FaultKinds == {"capture", "retry", "remove", "model"}

ASSUME ConstantsAssumption ==
  /\ QueueMax \in Nat \ {0}
  /\ DrainMax \in Nat \ {0}
  /\ MaxAttempts \in Nat \ {0}
  /\ Faults \subseteq FaultKinds
  /\ MaxCaptures \in Nat
  /\ MaxCrashes \in Nat
  /\ MaxOutages \in Nat

Threads == {"capture", "heartbeat"}

NoRecord == -1

Job == [uid : Uids, attempts : 0 .. MaxAttempts - 1]

\* What a vp-submit POST comes back with: an HTTP 200 with ok true or false, a
\* job-intrinsic status (VP_SUBMIT_DEADLETTER_STATUSES), 401/403, or anything
\* that is retried (a transport error, another status, a 200 without "ok").
Outcomes == {"ok", "rejected", "intrinsic", "auth", "retry"}

\* How the hub settles a job for good without the cloud having accepted it.
Refusals == {"rejected", "intrinsic", "exhausted"}

VARIABLES
  up,          \* the agent process is running
  stopping,    \* stop_event is set
  model,       \* vp_manager.current_model() is not None
  auth,        \* the cloud honours the credential the agent runs with
  queue,       \* vp_submission_queue
  outbox,      \* per uid the attempts on its record, or NoRecord
  rehydrated,  \* vp_outbox_rehydrated
  pc,          \* where each thread stands
  job,         \* the job each thread has in hand
  todo,        \* records load_all() returned that are not enqueued yet
  left,        \* iterations the running drain still has
  final,       \* the running drain is the one of run()'s finally clause
  outcome,     \* result of the POST being settled
  cloud,       \* uids the cloud has registered
  refused,     \* history: per uid, how the hub gave up on it
  taken,       \* history: uids handed to on_capture (crash survivors only)
  stored,      \* history: uids some capture persisted
  fails,       \* history: per uid, failed submissions that count
  shed,        \* history: uids this process put out of its memory unsettled
  captures, crashes, outages   \* counters of the bounded environment

procVars == <<up, stopping, model, rehydrated>>
threadVars == <<pc, job, todo, left, final, outcome>>
histVars == <<refused, taken, stored, fails, shed>>
envVars == <<auth, captures, crashes, outages>>
vars == <<procVars, threadVars, histVars, envVars, queue, outbox, cloud>>

Recorded(u) == outbox[u] # NoRecord

At(t, where) == up /\ pc[t] = where

Goto(t, where) == pc' = [pc EXCEPT ![t] = where]

QMin(a, b) == IF a < b THEN a ELSE b

\* Where the threads of a fresh process stand.
StartPc == [t \in Threads |-> IF t = "capture" THEN "idle" ELSE "beat"]

Init ==
  /\ up = TRUE /\ stopping = FALSE /\ model = FALSE /\ auth = TRUE
  /\ queue = <<>>
  /\ outbox = [u \in Uids |-> NoRecord]
  /\ rehydrated = FALSE
  /\ pc = StartPc
  /\ \E u \in Uids : job = [t \in Threads |-> [uid |-> u, attempts |-> 0]]
  /\ todo = {} /\ left = 0 /\ final = FALSE /\ outcome = "none"
  /\ cloud = {}
  /\ refused = [u \in Uids |-> {}]
  /\ taken = {} /\ stored = {}
  /\ fails = [u \in Uids |-> 0] /\ shed = {}
  /\ captures = 0 /\ crashes = 0 /\ outages = 0

-------------------------------------------------------------------------------
(* _enqueue_vprinter_submission, run by either thread: put; when the queue is
   full evict the oldest and put again, and drop the newest when the other
   thread refilled the queue in between.  Each call on the queue is atomic. *)

\* Where a thread goes on when its enqueue is over.
Return(t) == IF t = "capture" THEN "idle" ELSE IF rehydrated THEN "next" ELSE "load"

EnqueuePut(t) ==
  /\ At(t, "put")
  /\ \/ /\ Len(queue) < QueueMax
        /\ queue' = Append(queue, job[t])
        /\ Goto(t, Return(t))
     \/ /\ Len(queue) >= QueueMax
        /\ Goto(t, "evict")
        /\ UNCHANGED queue
  /\ UNCHANGED <<procVars, job, todo, left, final, outcome, histVars, envVars, outbox, cloud>>

EnqueueEvict(t) ==
  /\ At(t, "evict")
  /\ \/ /\ queue # <<>>
        /\ queue' = Tail(queue)
        /\ shed' = shed \cup {Head(queue).uid}
     \/ queue = <<>> /\ UNCHANGED <<queue, shed>>
  /\ Goto(t, "reput")
  /\ UNCHANGED <<procVars, job, todo, left, final, outcome, refused, taken, stored, fails, envVars, outbox, cloud>>

\* Mutant: the second put does not look at the queue's capacity.
EnqueueReputUnchecked(t) ==
  /\ At(t, "reput")
  /\ queue' = Append(queue, job[t])
  /\ Goto(t, Return(t))
  /\ UNCHANGED <<procVars, job, todo, left, final, outcome, histVars, envVars, outbox, cloud>>

EnqueueReput(t) ==
  /\ At(t, "reput")
  /\ \/ /\ Len(queue) < QueueMax
        /\ queue' = Append(queue, job[t])
        /\ UNCHANGED shed
     \/ /\ Len(queue) >= QueueMax
        /\ shed' = shed \cup {job[t].uid}
        /\ UNCHANGED queue
  /\ Goto(t, Return(t))
  /\ UNCHANGED <<procVars, job, todo, left, final, outcome, refused, taken, stored, fails, envVars, outbox, cloud>>

-------------------------------------------------------------------------------
(* on_capture, on the virtual printer's asyncio thread.  The spool staging
   between persist and enqueue swallows every failure and is not read here. *)

\* A complete capture arrives: outbox.persist(job), whose failure is swallowed.
CapturePersist(u) ==
  /\ At("capture", "idle")
  /\ model
  /\ captures < MaxCaptures
  /\ captures' = captures + 1
  /\ job' = [job EXCEPT !["capture"] = [uid |-> u, attempts |-> 0]]
  /\ taken' = taken \cup {u} /\ shed' = shed \ {u}
  /\ \/ /\ outbox' = [outbox EXCEPT ![u] = 0]
        /\ stored' = stored \cup {u}
     \/ /\ "capture" \in Faults
        /\ UNCHANGED <<outbox, stored>>
  /\ Goto("capture", "put")
  /\ UNCHANGED <<procVars, todo, left, final, outcome, refused, fails, auth, crashes, outages, queue, cloud>>

-------------------------------------------------------------------------------
(* maybe_rehydrate_vprinter_outbox, on the heartbeat thread: once per process,
   as soon as a virtual printer runs, before any drain that could submit. *)

RehydrateLoad ==
  /\ At("heartbeat", "beat")
  /\ ~rehydrated /\ model
  /\ todo' = {j \in Job : outbox[j.uid] = j.attempts}
  /\ Goto("heartbeat", "load")
  /\ UNCHANGED <<procVars, job, left, final, outcome, histVars, envVars, queue, outbox, cloud>>

\* The jobs load_all() returned are enqueued one by one; the records may change
\* meanwhile.  The order of the uids, which are hashes, is left open.
RehydrateNext ==
  /\ At("heartbeat", "load")
  /\ \E j \in todo :
       /\ todo' = todo \ {j}
       /\ job' = [job EXCEPT !["heartbeat"] = j]
  /\ Goto("heartbeat", "put")
  /\ UNCHANGED <<procVars, left, final, outcome, histVars, envVars, queue, outbox, cloud>>

RehydrateDone ==
  /\ At("heartbeat", "load")
  /\ todo = {}
  /\ rehydrated' = TRUE
  /\ Goto("heartbeat", "beat")
  /\ UNCHANGED <<up, stopping, model, job, todo, left, final, outcome, histVars, envVars, queue, outbox, cloud>>

-------------------------------------------------------------------------------
(* _drain_vprinter_submissions, on the heartbeat thread. *)

\* Mutant: dropping the queue drops the jobs' records as well.
BeginDrainDropsRecords(maxJobs, isFinal) ==
  /\ ~model
  /\ queue' = <<>>
  /\ outbox' = [u \in Uids |-> IF \E i \in DOMAIN queue : queue[i].uid = u THEN NoRecord ELSE outbox[u]]
  /\ Goto("heartbeat", IF isFinal THEN "exit" ELSE "wait")
  /\ UNCHANGED <<procVars, job, todo, left, final, outcome, histVars, envVars, cloud>>

\* Entry of a drain with the given max_jobs: without a running virtual printer
\* the whole queue is dropped, else qsize() is read once.
BeginDrain(maxJobs, isFinal) ==
  /\ \/ /\ ~model
        /\ queue' = <<>>
        /\ shed' = shed \cup {queue[i].uid : i \in DOMAIN queue}
        /\ Goto("heartbeat", IF isFinal THEN "exit" ELSE "wait")
        /\ UNCHANGED <<left, final>>
     \/ /\ model
        /\ final' = isFinal
        /\ left' = QMin(maxJobs, Len(queue))
        /\ Goto("heartbeat", "drain")
        /\ UNCHANGED <<queue, shed>>
  /\ UNCHANGED <<procVars, job, todo, outcome, refused, taken, stored, fails, envVars, outbox, cloud>>

BeatDrain ==
  /\ At("heartbeat", "beat")
  /\ model => rehydrated
  /\ BeginDrain(DrainMax, FALSE)

\* stop_event is set when the wait ends: the drain of the finally clause.
FinalDrain ==
  /\ At("heartbeat", "wait")
  /\ stopping
  /\ BeginDrain(QueueMax, TRUE)

NextBeat ==
  /\ At("heartbeat", "wait")
  /\ ~stopping
  /\ Goto("heartbeat", "beat")
  /\ UNCHANGED <<procVars, job, todo, left, final, outcome, histVars, envVars, queue, outbox, cloud>>

\* The loop head: take the next job from the queue.
DrainPop ==
  /\ At("heartbeat", "drain") \/ At("heartbeat", "next")
  /\ left > 0 /\ queue # <<>>
  /\ job' = [job EXCEPT !["heartbeat"] = Head(queue)]
  /\ queue' = Tail(queue)
  /\ left' = left - 1
  /\ Goto("heartbeat", "post")
  /\ UNCHANGED <<procVars, todo, final, outcome, histVars, envVars, outbox, cloud>>

\* Where the heartbeat thread goes on after a drain, or after an exception in it.
AfterDrain ==
  /\ Goto("heartbeat", IF final THEN "exit" ELSE "wait")
  /\ left' = 0 /\ final' = FALSE

\* Mutant: the time budget may be found spent before the first job.
DrainEndEarly ==
  /\ At("heartbeat", "drain") \/ At("heartbeat", "next")
  /\ AfterDrain
  /\ UNCHANGED <<procVars, job, todo, outcome, histVars, envVars, queue, outbox, cloud>>

\* The drain's jobs are done, the queue ran empty, or VP_DRAIN_BUDGET_SEC passed:
\* never before the first job, the clock has only just been read.
DrainEnd ==
  /\ \/ At("heartbeat", "drain") /\ (left = 0 \/ queue = <<>>)
     \/ At("heartbeat", "next")
  /\ AfterDrain
  /\ UNCHANGED <<procVars, job, todo, outcome, histVars, envVars, queue, outbox, cloud>>

\* poster(cfg.vp_submit_url, ...).  When a submission is retried the cloud may
\* have registered it all the same: only the answer was lost.
PostVpSubmit(result) ==
  /\ At("heartbeat", "post")
  /\ LET u == job["heartbeat"].uid IN
     /\ result \in {"ok", "rejected", "intrinsic"} => auth
     /\ result = "auth" => ~auth
     /\ \/ result = "ok" /\ cloud' = cloud \cup {u}
        \/ result = "retry" /\ auth /\ cloud' = cloud \cup {u}
        \/ result # "ok" /\ UNCHANGED cloud
     /\ fails' = IF result = "retry" THEN [fails EXCEPT ![u] = @ + 1] ELSE fails
  /\ outcome' = result
  /\ Goto("heartbeat", "settle")
  /\ UNCHANGED <<procVars, job, todo, left, final, refused, taken, stored, shed, envVars, queue, outbox>>

\* attempts + 1 has reached the cap: the retried job is dead-lettered instead.
Exhausted == outcome = "retry" /\ job["heartbeat"].attempts + 1 >= MaxAttempts

\* The submission is over: outbox.remove(uid).  When remove() raises, the
\* record stays and _drain_vprinter_submissions_safely ends the drain.
SettleDone ==
  /\ At("heartbeat", "settle")
  /\ outcome \in {"ok", "rejected", "intrinsic"} \/ Exhausted
  /\ LET u == job["heartbeat"].uid IN
     /\ refused' = IF outcome = "ok" THEN refused
                   ELSE [refused EXCEPT ![u] = @ \cup {IF Exhausted THEN "exhausted" ELSE outcome}]
     /\ \/ /\ outbox' = [outbox EXCEPT ![u] = NoRecord]
           /\ Goto("heartbeat", "next")
           /\ UNCHANGED <<left, final>>
        \/ /\ "remove" \in Faults /\ Recorded(u)
           /\ AfterDrain
           /\ UNCHANGED outbox
  /\ outcome' = "none"
  /\ UNCHANGED <<procVars, job, todo, taken, stored, fails, shed, envVars, queue, cloud>>

\* Mutant: the retried job is enqueued with its record removed instead of rewritten.
SettleRetryUnrecorded ==
  /\ At("heartbeat", "settle")
  /\ outcome = "retry" /\ ~Exhausted
  /\ LET retried == [job["heartbeat"] EXCEPT !.attempts = @ + 1] IN
     /\ outbox' = [outbox EXCEPT ![retried.uid] = NoRecord]
     /\ job' = [job EXCEPT !["heartbeat"] = retried]
  /\ outcome' = "none"
  /\ Goto("heartbeat", "put")
  /\ UNCHANGED <<procVars, todo, left, final, histVars, envVars, queue, cloud>>

\* A counted failure below the cap: the retried job is persisted, then enqueued.
\* When persist() raises, the drain ends with the job in no queue.
SettleRetry ==
  /\ At("heartbeat", "settle")
  /\ outcome = "retry" /\ ~Exhausted
  /\ LET retried == [job["heartbeat"] EXCEPT !.attempts = @ + 1] IN
     \/ /\ outbox' = [outbox EXCEPT ![retried.uid] = retried.attempts]
        /\ stored' = stored \cup {retried.uid}
        /\ job' = [job EXCEPT !["heartbeat"] = retried]
        /\ Goto("heartbeat", "put")
        /\ UNCHANGED <<left, final, shed>>
     \/ /\ "retry" \in Faults
        /\ shed' = shed \cup {retried.uid}
        /\ AfterDrain
        /\ UNCHANGED <<outbox, stored, job>>
  /\ outcome' = "none"
  /\ UNCHANGED <<procVars, todo, refused, taken, fails, envVars, queue, cloud>>

\* Mutant: a 401/403 uses up an attempt.
SettleAuthCounted ==
  /\ At("heartbeat", "settle")
  /\ outcome = "auth"
  /\ job' = [job EXCEPT !["heartbeat"].attempts = QMin(@ + 1, MaxAttempts - 1)]
  /\ outcome' = "none"
  /\ Goto("heartbeat", "put")
  /\ UNCHANGED <<procVars, todo, left, final, histVars, envVars, queue, outbox, cloud>>

\* 401/403: enqueued again as it is, the record untouched.
SettleAuth ==
  /\ At("heartbeat", "settle")
  /\ outcome = "auth"
  /\ outcome' = "none"
  /\ Goto("heartbeat", "put")
  /\ UNCHANGED <<procVars, job, todo, left, final, histVars, envVars, queue, outbox, cloud>>

-------------------------------------------------------------------------------
(* The life of the process and its surroundings. *)

\* A reconcile on the heartbeat thread brings a virtual printer up or takes the
\* last one down.
VpReconcile ==
  /\ At("heartbeat", "beat")
  /\ model => "model" \in Faults
  /\ model' = ~model
  /\ UNCHANGED <<up, stopping, rehydrated, threadVars, histVars, envVars, queue, outbox, cloud>>

\* SIGTERM or SIGINT.
RequestShutdown ==
  /\ up /\ ~stopping
  /\ crashes < MaxCrashes
  /\ crashes' = crashes + 1
  /\ stopping' = TRUE
  /\ UNCHANGED <<up, model, rehydrated, threadVars, histVars, auth, captures, outages, queue, outbox, cloud>>

\* What memory held is gone; jobs without a record are no longer expected back.
Die ==
  /\ up' = FALSE /\ stopping' = FALSE /\ model' = FALSE /\ rehydrated' = FALSE
  /\ queue' = <<>> /\ todo' = {} /\ left' = 0 /\ final' = FALSE /\ outcome' = "none"
  /\ pc' = StartPc
  /\ taken' = {u \in taken : Recorded(u)} /\ shed' = {}
  /\ UNCHANGED <<job, refused, stored, fails, auth, captures, outages, outbox, cloud>>

\* vp_manager.stop_sync() waits for the asyncio thread, then run() returns.
Exit ==
  /\ At("heartbeat", "exit") /\ At("capture", "idle")
  /\ Die
  /\ UNCHANGED crashes

Crash ==
  /\ up
  /\ crashes < MaxCrashes
  /\ crashes' = crashes + 1
  /\ Die

\* systemd's Restart=always, into a fresh run().
Restart ==
  /\ ~up
  /\ up' = TRUE
  /\ UNCHANGED <<stopping, model, rehydrated, threadVars, histVars, envVars, queue, outbox, cloud>>

\* The credential is revoked or rotated in the cloud, and honoured again.
CredentialChange ==
  /\ auth => outages < MaxOutages
  /\ auth' = ~auth
  /\ outages' = IF auth THEN outages + 1 ELSE outages
  /\ UNCHANGED <<procVars, threadVars, histVars, captures, crashes, queue, outbox, cloud>>

Enqueue(t) == EnqueuePut(t) \/ EnqueueEvict(t) \/ EnqueueReput(t)

\* The heartbeat thread's own steps: the loop never stops while the process runs.
Heartbeat ==
  \/ RehydrateLoad \/ RehydrateNext \/ RehydrateDone
  \/ BeatDrain \/ FinalDrain \/ NextBeat
  \/ DrainPop \/ DrainEnd
  \/ \E r \in Outcomes : PostVpSubmit(r)
  \/ SettleDone \/ SettleRetry \/ SettleAuth
  \/ Enqueue("heartbeat")
  \/ Exit

Capture == (\E u \in Uids : CapturePersist(u)) \/ Enqueue("capture")

Environment == VpReconcile \/ RequestShutdown \/ Crash \/ Restart \/ CredentialChange

Next == Heartbeat \/ Capture \/ Environment

Spec == Init /\ [][Next]_vars

\* Both threads run; nothing is assumed of members, the cloud, systemd, admins.
LiveSpec == Spec /\ WF_vars(Heartbeat) /\ WF_vars(Enqueue("capture"))

-------------------------------------------------------------------------------
(* Properties. *)

HeartbeatPcs == {"beat", "load", "wait", "drain", "next", "post", "settle", "put", "evict", "reput", "exit"}
CapturePcs == {"idle", "put", "evict", "reput"}

\* Types, the queue's capacity, and where each thread may stand: an outcome is in
\* hand exactly while the drain settles it.
TypeOK ==
  /\ up \in BOOLEAN /\ stopping \in BOOLEAN /\ model \in BOOLEAN /\ auth \in BOOLEAN
  /\ rehydrated \in BOOLEAN /\ final \in BOOLEAN
  /\ queue \in Seq(Job) /\ Len(queue) <= QueueMax
  /\ outbox \in [Uids -> {NoRecord} \cup (0 .. MaxAttempts - 1)]
  /\ pc \in [Threads -> HeartbeatPcs \cup CapturePcs]
  /\ pc["heartbeat"] \in HeartbeatPcs /\ pc["capture"] \in CapturePcs
  /\ job \in [Threads -> Job]
  /\ todo \subseteq Job
  /\ left \in Nat
  /\ outcome \in Outcomes \cup {"none"}
  /\ pc["heartbeat"] = "settle" <=> outcome # "none"
  /\ cloud \subseteq Uids /\ taken \subseteq Uids /\ stored \subseteq Uids /\ shed \subseteq Uids
  /\ refused \in [Uids -> SUBSET Refusals]
  /\ fails \in [Uids -> Nat]
  /\ captures \in Nat /\ crashes \in Nat /\ outages \in Nat

Queued(u) == \E i \in DOMAIN queue : queue[i].uid = u

\* A thread is on its way to submit, settle or enqueue u.
InHand(u) ==
  \/ pc["capture"] # "idle" /\ job["capture"].uid = u
  \/ pc["heartbeat"] \in {"post", "settle", "put", "evict", "reput"} /\ job["heartbeat"].uid = u
  \/ \E j \in todo : j.uid = u

Closed(u) == u \in cloud \/ refused[u] # {}

\* A job whose record once reached the disk is on disk until the cloud has it
\* or the hub has refused it for good, through every crash, overflow, outage
\* and disk fault (persist in on_capture, remove in the drain).
DurableCustody == \A u \in stored : Recorded(u) \/ Closed(u)

\* A job is given up as undeliverable only after MaxAttempts submissions of it
\* failed: an auth outage, a restart or a re-capture never uses up attempts.
DeadletterEarned == \A u \in Uids : "exhausted" \in refused[u] => fails[u] >= MaxAttempts

\* Once the process stays up with a virtual printer and a good credential, every
\* captured job that survived the crashes reaches the cloud or is refused, unless
\* the process put it out of its memory: by overflow, because no virtual printer was
\* running, or because the retry path could not persist it.
EventuallySettled ==
  <>[](up /\ ~stopping /\ model /\ auth) =>
    \A u \in Uids : u \in taken ~> (Closed(u) \/ u \notin taken \/ u \in shed)

(* The pipeline implements the ledger of durable captures. *)
Ledger == INSTANCE CaptureLedger WITH
  entered <- {u \in Uids : Recorded(u)},
  closed <- {u \in Uids : Closed(u)}

\* Every step of the pipeline is a step of the ledger or leaves it alone: no
\* crash, overflow, drop, outage or fault strikes out a record that is not closed.
ImplementsLedger == Ledger!Spec
===============================================================================
