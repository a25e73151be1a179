---------------------------- MODULE VpSubmitProofs ----------------------------
(* Theorems of VpSubmit, for every value of its constants. *)
EXTENDS VpSubmit, TLAPS

-------------------------------------------------------------------------------
(* The actions of Next, so that a proof names them once. *)

\* The named steps of the next-state relation, without the Enqueue grouping.
LEMMA NextCases ==
  ASSUME Next
  PROVE  \/ \E t \in Threads : EnqueuePut(t) \/ EnqueueEvict(t) \/ EnqueueReput(t)
         \/ \E u \in Uids : CapturePersist(u)
         \/ RehydrateLoad \/ RehydrateNext \/ RehydrateDone
         \/ BeatDrain \/ FinalDrain \/ NextBeat \/ DrainPop \/ DrainEnd
         \/ \E r \in Outcomes : PostVpSubmit(r)
         \/ SettleDone \/ SettleRetry \/ SettleAuth
         \/ VpReconcile \/ RequestShutdown \/ Exit \/ Crash \/ Restart \/ CredentialChange
BY DEF Next, Heartbeat, Capture, Environment, Enqueue, Threads

\* A uid with an attempt count below the cap is a job.
LEMMA JobMake == \A u \in Uids, n \in 0 .. MaxAttempts - 1 : [uid |-> u, attempts |-> n] \in Job
BY ConstantsAssumption DEF Job

\* The fields of a job.
LEMMA JobParts == \A j \in Job : j.uid \in Uids /\ j.attempts \in 0 .. MaxAttempts - 1
BY ConstantsAssumption DEF Job

\* A retried job is the same job with one more attempt.
LEMMA JobRetry ==
  ASSUME NEW j \in Job, j.attempts + 1 < MaxAttempts
  PROVE  LET r == [j EXCEPT !.attempts = @ + 1] IN
         r \in Job /\ r.uid = j.uid /\ r.attempts = j.attempts + 1
<1>1. [j EXCEPT !.attempts = @ + 1] = [uid |-> j.uid, attempts |-> j.attempts + 1]
  BY DEF Job
<1>2. j.uid \in Uids /\ j.attempts + 1 \in 0 .. MaxAttempts - 1
  BY JobParts, ConstantsAssumption
<1>3. [uid |-> j.uid, attempts |-> j.attempts + 1] \in Job
  BY <1>2, JobMake
<1>4. QED
  BY <1>1, <1>3

\* Putting on and taking from the queue keeps it a queue of jobs.
LEMMA QueueParts ==
  ASSUME NEW q \in Seq(Job), NEW j \in Job
  PROVE  /\ Append(q, j) \in Seq(Job) /\ Len(Append(q, j)) = Len(q) + 1
         /\ q # <<>> => Tail(q) \in Seq(Job) /\ Head(q) \in Job /\ Len(Tail(q)) = Len(q) - 1
         /\ Len(q) \in Nat
OBVIOUS

\* The length of a queue.
LEMMA QueueLen == \A q \in Seq(Job) : Len(q) \in Nat
OBVIOUS

\* The uids of the jobs of a queue.
LEMMA QueueUids ==
  ASSUME NEW q \in Seq(Job)
  PROVE  {q[i].uid : i \in DOMAIN q} \subseteq Uids
<1>1. \A i \in DOMAIN q : q[i] \in Job
  OBVIOUS
<1>2. QED
  BY <1>1, JobParts

\* The empty queue.
LEMMA EmptyQueue == <<>> \in Seq(Job) /\ Len(<<>>) = 0
OBVIOUS

\* The initial state has the types of TypeOK.
LEMMA InitTypeOK == Init => TypeOK
<1> SUFFICES ASSUME Init PROVE TypeOK
  OBVIOUS
<1>1. job \in [Threads -> Job]
  BY JobMake, ConstantsAssumption DEF Init
<1>2. queue \in Seq(Job) /\ Len(queue) <= QueueMax
  BY EmptyQueue, ConstantsAssumption DEF Init
<1>3. QED
  BY <1>1, <1>2, ConstantsAssumption DEF Init, TypeOK, Threads, StartPc, HeartbeatPcs, CapturePcs

\* Every step preserves TypeOK.
LEMMA NextTypeOK == TypeOK /\ [Next]_vars => TypeOK'
<1> SUFFICES ASSUME TypeOK, [Next]_vars PROVE TypeOK'
  OBVIOUS
<1> USE ConstantsAssumption DEF TypeOK, Threads, HeartbeatPcs, CapturePcs, At, Goto,
        procVars, threadVars, histVars, envVars, NoRecord
<1>1. CASE UNCHANGED vars
  BY <1>1 DEF vars
<1>2. ASSUME NEW t \in Threads, EnqueuePut(t) PROVE TypeOK'
  <2>1. queue' \in Seq(Job) /\ Len(queue') <= QueueMax
    <3>1. job[t] \in Job /\ Len(queue) \in Nat
      BY QueueLen
    <3>2. CASE Len(queue) < QueueMax
      <4>1. queue' = Append(queue, job[t])
        BY <1>2, <3>1, <3>2 DEF EnqueuePut
      <4>2. QED
        BY <3>1, <3>2, <4>1, QueueParts
    <3>3. CASE Len(queue) >= QueueMax
      BY <1>2, <3>1, <3>3 DEF EnqueuePut
    <3>4. QED
      BY <3>1, <3>2, <3>3
  <2>2. /\ pc' \in [Threads -> HeartbeatPcs \cup CapturePcs]
        /\ pc["heartbeat"]' \in HeartbeatPcs /\ pc["capture"]' \in CapturePcs
        /\ pc["heartbeat"]' = "settle" <=> outcome # "none"
    BY <1>2 DEF EnqueuePut, Return
  <2>3. QED
    BY <1>2, <2>1, <2>2 DEF EnqueuePut
<1>3. ASSUME NEW t \in Threads, EnqueueEvict(t) PROVE TypeOK'
  <2>1. queue' \in Seq(Job) /\ Len(queue') <= QueueMax /\ shed' \subseteq Uids
    <3>1. CASE queue # <<>>
      <4>1. queue' = Tail(queue) /\ shed' = shed \cup {Head(queue).uid}
        BY <1>3, <3>1 DEF EnqueueEvict
      <4>2. Head(queue) \in Job /\ Tail(queue) \in Seq(Job) /\ Len(Tail(queue)) <= QueueMax
        BY <3>1, QueueParts, QueueLen
      <4>3. QED
        BY <4>1, <4>2, JobParts
    <3>2. CASE queue = <<>>
      BY <1>3, <3>2 DEF EnqueueEvict
    <3>3. QED
      BY <3>1, <3>2
  <2>2. QED
    BY <1>3, <2>1 DEF EnqueueEvict
<1>4. ASSUME NEW t \in Threads, EnqueueReput(t) PROVE TypeOK'
  <2>1. queue' \in Seq(Job) /\ Len(queue') <= QueueMax /\ shed' \subseteq Uids
    <3>1. job[t] \in Job /\ job[t].uid \in Uids /\ Len(queue) \in Nat
      BY QueueLen, JobParts
    <3>2. CASE Len(queue) < QueueMax
      <4>1. queue' = Append(queue, job[t]) /\ UNCHANGED shed
        BY <1>4, <3>1, <3>2 DEF EnqueueReput
      <4>2. QED
        BY <3>1, <3>2, <4>1, QueueParts
    <3>3. CASE Len(queue) >= QueueMax
      BY <1>4, <3>1, <3>3 DEF EnqueueReput
    <3>4. QED
      BY <3>1, <3>2, <3>3
  <2>2. QED
    BY <1>4, <2>1 DEF EnqueueReput, Return
<1>5. ASSUME NEW u \in Uids, CapturePersist(u) PROVE TypeOK'
  <2>1. /\ job' \in [Threads -> Job]
        /\ pc' \in [Threads -> HeartbeatPcs \cup CapturePcs]
        /\ pc["heartbeat"]' = pc["heartbeat"] /\ pc["capture"]' = "put"
    BY <1>5, JobMake DEF CapturePersist
  <2>2. outbox' \in [Uids -> {NoRecord} \cup (0 .. MaxAttempts - 1)] /\ captures' \in Nat
    <3>1. (outbox' = [outbox EXCEPT ![u] = 0] \/ UNCHANGED outbox) /\ captures' = captures + 1
      BY <1>5 DEF CapturePersist
    <3>2. 0 \in 0 .. MaxAttempts - 1
      OBVIOUS
    <3>3. QED
      BY <3>1, <3>2
  <2>3. stored' \subseteq Uids
    BY <1>5 DEF CapturePersist
  <2>4. taken' \subseteq Uids /\ shed' \subseteq Uids
    <3>1. taken' = taken \cup {u} /\ shed' = shed \ {u}
      BY <1>5 DEF CapturePersist
    <3>2. QED
      BY <3>1
  <2>5. QED
    BY <1>5, <2>1, <2>2, <2>3, <2>4 DEF CapturePersist
<1>6. CASE RehydrateLoad
  BY <1>6 DEF RehydrateLoad
<1>7. CASE RehydrateNext
  BY <1>7 DEF RehydrateNext
<1>8. CASE RehydrateDone
  BY <1>8 DEF RehydrateDone
<1>9. CASE BeatDrain
  <2>1. /\ queue' \in Seq(Job) /\ Len(queue') <= QueueMax
        /\ left' \in Nat
        /\ final' \in BOOLEAN
        /\ shed' \subseteq Uids
    <3>1. CASE ~model
      <4>1. /\ queue' = <<>> /\ UNCHANGED <<left, final>>
            /\ shed' = shed \cup {queue[i].uid : i \in DOMAIN queue}
        BY <1>9, <3>1 DEF BeatDrain, BeginDrain
      <4>2. QED
        BY <4>1, EmptyQueue, QueueUids
    <3>2. CASE model
      <4>1. UNCHANGED <<queue, shed>> /\ final' \in BOOLEAN /\ left' = QMin(DrainMax, Len(queue))
        BY <1>9, <3>2 DEF BeatDrain, BeginDrain
      <4>2. left' \in Nat
        BY <4>1, QueueLen DEF QMin
      <4>3. QED
        BY <4>1, <4>2
    <3>3. QED
      BY <3>1, <3>2
  <2>2. /\ pc' \in [Threads -> HeartbeatPcs \cup CapturePcs]
        /\ pc["heartbeat"]' \in HeartbeatPcs \ {"settle"} /\ pc["capture"]' \in CapturePcs
        /\ outcome = "none"
    BY <1>9 DEF BeatDrain, BeginDrain
  <2>3. QED
    BY <1>9, <2>1, <2>2 DEF BeatDrain, BeginDrain
<1>10. CASE FinalDrain
  <2>1. /\ queue' \in Seq(Job) /\ Len(queue') <= QueueMax
        /\ left' \in Nat
        /\ final' \in BOOLEAN
        /\ shed' \subseteq Uids
    <3>1. CASE ~model
      <4>1. /\ queue' = <<>> /\ UNCHANGED <<left, final>>
            /\ shed' = shed \cup {queue[i].uid : i \in DOMAIN queue}
        BY <1>10, <3>1 DEF FinalDrain, BeginDrain
      <4>2. QED
        BY <4>1, EmptyQueue, QueueUids
    <3>2. CASE model
      <4>1. UNCHANGED <<queue, shed>> /\ final' \in BOOLEAN /\ left' = QMin(QueueMax, Len(queue))
        BY <1>10, <3>2 DEF FinalDrain, BeginDrain
      <4>2. left' \in Nat
        BY <4>1, QueueLen DEF QMin
      <4>3. QED
        BY <4>1, <4>2
    <3>3. QED
      BY <3>1, <3>2
  <2>2. /\ pc' \in [Threads -> HeartbeatPcs \cup CapturePcs]
        /\ pc["heartbeat"]' \in HeartbeatPcs \ {"settle"} /\ pc["capture"]' \in CapturePcs
        /\ outcome = "none"
    BY <1>10 DEF FinalDrain, BeginDrain
  <2>3. QED
    BY <1>10, <2>1, <2>2 DEF FinalDrain, BeginDrain
<1>11. CASE NextBeat
  BY <1>11 DEF NextBeat
<1>12. CASE DrainPop
  BY <1>12, QueueParts DEF DrainPop
<1>13. CASE DrainEnd
  BY <1>13 DEF DrainEnd, AfterDrain
<1>14. ASSUME NEW r \in Outcomes, PostVpSubmit(r) PROVE TypeOK'
  BY <1>14, JobParts DEF PostVpSubmit, Outcomes
<1>15. CASE SettleDone
  <2>1. job["heartbeat"].uid \in Uids
    BY JobParts
  <2>2. refused' \in [Uids -> SUBSET Refusals]
    BY <1>15, <2>1 DEF SettleDone, Exhausted, Refusals
  <2>3. outbox' \in [Uids -> {NoRecord} \cup (0 .. MaxAttempts - 1)]
    BY <1>15, <2>1 DEF SettleDone
  <2>4. /\ pc' \in [Threads -> HeartbeatPcs \cup CapturePcs]
        /\ pc["heartbeat"]' \in HeartbeatPcs \ {"settle"} /\ pc["capture"]' \in CapturePcs
        /\ left' \in Nat /\ final' \in BOOLEAN
    <3>1. CASE AfterDrain
      BY <3>1 DEF AfterDrain
    <3>2. CASE Goto("heartbeat", "next") /\ UNCHANGED <<left, final>>
      BY <3>2
    <3>3. QED
      BY <1>15, <3>1, <3>2 DEF SettleDone
  <2>5. QED
    BY <1>15, <2>2, <2>3, <2>4 DEF SettleDone
<1>16. CASE SettleRetry
  <2> DEFINE retried == [job["heartbeat"] EXCEPT !.attempts = @ + 1]
  <2>1. retried \in Job /\ retried.uid \in Uids /\ retried.attempts \in 0 .. MaxAttempts - 1
    <3>1. job["heartbeat"] \in Job /\ job["heartbeat"].attempts + 1 < MaxAttempts
      BY <1>16, JobParts DEF SettleRetry, Exhausted
    <3>2. QED
      BY <3>1, JobRetry, JobParts
  <2>2. \/ /\ outbox' = [outbox EXCEPT ![retried.uid] = retried.attempts]
           /\ stored' = stored \cup {retried.uid}
           /\ job' = [job EXCEPT !["heartbeat"] = retried]
           /\ pc' = [pc EXCEPT !["heartbeat"] = "put"]
           /\ UNCHANGED <<left, final, shed>>
        \/ AfterDrain /\ shed' = shed \cup {retried.uid} /\ UNCHANGED <<outbox, stored, job>>
    BY <1>16 DEF SettleRetry
  <2> HIDE DEF retried
  <2>3. /\ pc' \in [Threads -> HeartbeatPcs \cup CapturePcs]
        /\ pc["heartbeat"]' \in HeartbeatPcs \ {"settle"} /\ pc["capture"]' \in CapturePcs
        /\ left' \in Nat /\ final' \in BOOLEAN
    <3>1. CASE AfterDrain
      BY <3>1 DEF AfterDrain
    <3>2. CASE pc' = [pc EXCEPT !["heartbeat"] = "put"] /\ UNCHANGED <<left, final>>
      BY <3>2
    <3>3. QED
      BY <2>2, <3>1, <3>2
  <2>4. /\ outbox' \in [Uids -> {NoRecord} \cup (0 .. MaxAttempts - 1)]
        /\ stored' \subseteq Uids
        /\ shed' \subseteq Uids
        /\ job' \in [Threads -> Job]
    <3>1. CASE UNCHANGED <<outbox, stored, job>> /\ shed' = shed \cup {retried.uid}
      BY <2>1, <3>1
    <3>2. CASE /\ outbox' = [outbox EXCEPT ![retried.uid] = retried.attempts]
               /\ stored' = stored \cup {retried.uid}
               /\ job' = [job EXCEPT !["heartbeat"] = retried]
               /\ UNCHANGED shed
      BY <2>1, <3>2
    <3>3. QED
      BY <2>2, <3>1, <3>2
  <2>5. QED
    BY <1>16, <2>3, <2>4 DEF SettleRetry
<1>17. CASE SettleAuth
  BY <1>17 DEF SettleAuth
<1>18. CASE VpReconcile
  BY <1>18 DEF VpReconcile
<1>19. CASE RequestShutdown
  BY <1>19 DEF RequestShutdown
<1>20. CASE Exit \/ Crash
  <2>1. Die /\ crashes' \in Nat
    BY <1>20 DEF Exit, Crash
  <2>2. queue' \in Seq(Job) /\ Len(queue') <= QueueMax
    BY <2>1, EmptyQueue DEF Die
  <2>3. /\ pc' \in [Threads -> HeartbeatPcs \cup CapturePcs]
        /\ pc["heartbeat"]' = "beat" /\ pc["capture"]' = "idle"
    BY <2>1 DEF Die, StartPc
  <2>4. QED
    BY <2>1, <2>2, <2>3 DEF Die
<1>21. CASE Restart
  BY <1>21 DEF Restart
<1>22. CASE CredentialChange
  BY <1>22 DEF CredentialChange
<1>23. QED
  BY NextCases, <1>1, <1>2, <1>3, <1>4, <1>5, <1>6, <1>7, <1>8, <1>9, <1>10, <1>11, <1>12, <1>13,
     <1>14, <1>15, <1>16, <1>17, <1>18, <1>19, <1>20, <1>21, <1>22

\* Type correctness of the submission pipeline; the queue never exceeds its cap
\* although two threads put on it without holding a lock across their steps.
THEOREM TypeCorrect == Spec => []TypeOK
BY InitTypeOK, NextTypeOK, PTL DEF Spec

-------------------------------------------------------------------------------
(* Custody of the records.  DurableCustody is not inductive: a step that removes
   a record after an "ok" answer needs to know that the cloud has the job.  *)

\* The drain is about to settle a submission the cloud accepted only when the
\* cloud really has it.
Acknowledged == outcome = "ok" => job["heartbeat"].uid \in cloud

custodyVars == <<outbox, stored, cloud, refused>>

\* What a step may do to the records and to the fate of the jobs: enter a record,
\* learn that the cloud has a job, or settle a job and then maybe drop its record.
EnterRecord(u) ==
  /\ \E n \in 0 .. MaxAttempts - 1 : outbox' = [outbox EXCEPT ![u] = n]
  /\ stored' = stored \cup {u}
  /\ UNCHANGED <<cloud, refused>>

Accept(u) == cloud' = cloud \cup {u} /\ UNCHANGED <<outbox, stored, refused>>

Settle(u) ==
  /\ u \in cloud \/ refused'[u] # {}
  /\ refused' = refused \/ \E why \in Refusals : refused' = [refused EXCEPT ![u] = @ \cup {why}]
  /\ outbox' = outbox \/ outbox' = [outbox EXCEPT ![u] = NoRecord]
  /\ UNCHANGED <<stored, cloud>>

CustodyStep == UNCHANGED custodyVars \/ \E u \in Uids : EnterRecord(u) \/ Accept(u) \/ Settle(u)

\* Acknowledged is established by the POST and kept until the drain has settled.
LEMMA NextAcknowledged == TypeOK /\ Acknowledged /\ [Next]_vars => Acknowledged'
<1> SUFFICES ASSUME TypeOK, Acknowledged, [Next]_vars PROVE Acknowledged'
  OBVIOUS
<1> USE DEF TypeOK, Acknowledged, Threads, At, Goto, procVars, threadVars, histVars, envVars
<1>1. CASE UNCHANGED <<outcome, job, cloud>>
  BY <1>1
<1>2. CASE UNCHANGED vars
  BY <1>1, <1>2 DEF vars
<1>3. ASSUME NEW t \in Threads, EnqueuePut(t) \/ EnqueueEvict(t) \/ EnqueueReput(t) PROVE Acknowledged'
  BY <1>1, <1>3 DEF EnqueuePut, EnqueueEvict, EnqueueReput
<1>4. ASSUME NEW u \in Uids, CapturePersist(u) PROVE Acknowledged'
  BY <1>4 DEF CapturePersist
<1>5. CASE RehydrateNext
  BY <1>5 DEF RehydrateNext
<1>6. CASE DrainPop
  BY <1>6 DEF DrainPop
<1>7. CASE RehydrateLoad \/ RehydrateDone \/ BeatDrain \/ FinalDrain \/ NextBeat \/ DrainEnd
  BY <1>1, <1>7 DEF RehydrateLoad, RehydrateDone, BeatDrain, FinalDrain, BeginDrain, NextBeat, DrainEnd
<1>8. ASSUME NEW r \in Outcomes, PostVpSubmit(r) PROVE Acknowledged'
  BY <1>8 DEF PostVpSubmit
<1>9. CASE SettleDone \/ SettleRetry \/ SettleAuth \/ Exit \/ Crash
  <2>1. outcome' = "none"
    BY <1>9 DEF SettleDone, SettleRetry, SettleAuth, Exit, Crash, Die
  <2>2. QED
    BY <2>1
<1>10. CASE VpReconcile \/ RequestShutdown \/ Restart \/ CredentialChange
  BY <1>1, <1>10 DEF VpReconcile, RequestShutdown, Restart, CredentialChange
<1>11. QED
  BY NextCases, <1>2, <1>3, <1>4, <1>5, <1>6, <1>7, <1>8, <1>9, <1>10

\* Every step of the pipeline is a custody step.
LEMMA NextCustodyStep == TypeOK /\ Acknowledged /\ [Next]_vars => CustodyStep
<1> SUFFICES ASSUME TypeOK, Acknowledged, [Next]_vars PROVE CustodyStep
  OBVIOUS
<1> USE DEF procVars, threadVars, histVars, envVars
<1>1. CASE UNCHANGED custodyVars
  BY <1>1 DEF CustodyStep
<1>2. CASE UNCHANGED vars
  BY <1>1, <1>2 DEF vars, custodyVars
<1>3. ASSUME NEW t \in Threads, EnqueuePut(t) \/ EnqueueEvict(t) \/ EnqueueReput(t) PROVE CustodyStep
  BY <1>1, <1>3 DEF EnqueuePut, EnqueueEvict, EnqueueReput, custodyVars
<1>4. ASSUME NEW u \in Uids, CapturePersist(u) PROVE CustodyStep
  <2>1. CASE UNCHANGED <<outbox, stored>>
    BY <1>1, <1>4, <2>1 DEF CapturePersist, custodyVars
  <2>2. CASE outbox' = [outbox EXCEPT ![u] = 0] /\ stored' = stored \cup {u}
    <3>1. 0 \in 0 .. MaxAttempts - 1
      BY ConstantsAssumption
    <3>2. UNCHANGED <<cloud, refused>>
      BY <1>4 DEF CapturePersist
    <3>3. EnterRecord(u)
      BY <2>2, <3>1, <3>2 DEF EnterRecord
    <3>4. QED
      BY <3>3 DEF CustodyStep
  <2>3. QED
    BY <1>4, <2>1, <2>2 DEF CapturePersist
<1>5. CASE RehydrateLoad \/ RehydrateNext \/ RehydrateDone
  BY <1>1, <1>5 DEF RehydrateLoad, RehydrateNext, RehydrateDone, custodyVars
<1>6. CASE BeatDrain \/ FinalDrain \/ NextBeat \/ DrainPop \/ DrainEnd
  BY <1>1, <1>6 DEF BeatDrain, FinalDrain, BeginDrain, NextBeat, DrainPop, DrainEnd, custodyVars
<1>7. ASSUME NEW r \in Outcomes, PostVpSubmit(r) PROVE CustodyStep
  <2>1. job["heartbeat"].uid \in Uids
    BY JobParts DEF TypeOK, Threads
  <2>2. UNCHANGED cloud \/ cloud' = cloud \cup {job["heartbeat"].uid}
    BY <1>7 DEF PostVpSubmit
  <2>3. UNCHANGED <<outbox, stored, refused>>
    BY <1>7 DEF PostVpSubmit
  <2>4. QED
    BY <2>1, <2>2, <2>3 DEF CustodyStep, custodyVars, Accept
<1>8. CASE SettleDone
  <2> DEFINE u == job["heartbeat"].uid
  <2>1. u \in Uids
    BY JobParts DEF TypeOK, Threads
  <2>2. outbox' = outbox \/ outbox' = [outbox EXCEPT ![u] = NoRecord]
    BY <1>8 DEF SettleDone
  <2>3. UNCHANGED <<stored, cloud>>
    BY <1>8 DEF SettleDone
  <2>4. CASE outcome = "ok"
    <3>1. refused' = refused /\ u \in cloud
      BY <1>8, <2>4 DEF SettleDone, Acknowledged
    <3>2. QED
      BY <2>1, <2>2, <2>3, <3>1 DEF CustodyStep, Settle
  <2>5. CASE outcome # "ok"
    <3> DEFINE why == IF Exhausted THEN "exhausted" ELSE outcome
    <3>1. why \in Refusals
      BY <1>8, <2>5 DEF SettleDone, Exhausted, Refusals
    <3>2. refused' = [refused EXCEPT ![u] = @ \cup {why}]
      BY <1>8, <2>5 DEF SettleDone
    <3> HIDE DEF why
    <3>3. refused'[u] # {}
      BY <2>1, <3>2 DEF TypeOK
    <3>4. QED
      BY <2>1, <2>2, <2>3, <3>1, <3>2, <3>3 DEF CustodyStep, Settle
  <2>6. QED
    BY <2>4, <2>5
<1>9. CASE SettleRetry
  <2> DEFINE retried == [job["heartbeat"] EXCEPT !.attempts = @ + 1]
  <2>1. retried.uid \in Uids /\ retried.attempts \in 0 .. MaxAttempts - 1
    <3>1. job["heartbeat"] \in Job
      BY DEF TypeOK, Threads
    <3>2. job["heartbeat"].attempts + 1 < MaxAttempts
      BY <1>9, <3>1, JobParts, ConstantsAssumption DEF SettleRetry, Exhausted
    <3>3. QED
      BY <3>1, <3>2, JobRetry, JobParts
  <2>2. UNCHANGED <<cloud, refused>>
    BY <1>9 DEF SettleRetry
  <2>3. \/ outbox' = [outbox EXCEPT ![retried.uid] = retried.attempts] /\ stored' = stored \cup {retried.uid}
        \/ UNCHANGED <<outbox, stored>>
    BY <1>9 DEF SettleRetry
  <2> HIDE DEF retried
  <2>4. QED
    BY <2>1, <2>2, <2>3 DEF CustodyStep, custodyVars, EnterRecord
<1>10. CASE SettleAuth \/ Exit \/ Crash
  BY <1>1, <1>10 DEF SettleAuth, Exit, Crash, Die, custodyVars
<1>11. CASE VpReconcile \/ RequestShutdown \/ Restart \/ CredentialChange
  BY <1>1, <1>11 DEF VpReconcile, RequestShutdown, Restart, CredentialChange, custodyVars
<1>12. QED
  BY NextCases, <1>2, <1>3, <1>4, <1>5, <1>6, <1>7, <1>8, <1>9, <1>10, <1>11

\* A custody step keeps every stored job on record or settled.
LEMMA CustodyStepKeeps == TypeOK /\ DurableCustody /\ CustodyStep => DurableCustody'
<1> SUFFICES ASSUME TypeOK, DurableCustody, CustodyStep PROVE DurableCustody'
  OBVIOUS
<1> USE DEF DurableCustody, Recorded, Closed, TypeOK
<1>1. CASE UNCHANGED custodyVars
  BY <1>1 DEF custodyVars
<1>2. ASSUME NEW u \in Uids, EnterRecord(u) PROVE DurableCustody'
  BY <1>2, ConstantsAssumption DEF EnterRecord, NoRecord
<1>3. ASSUME NEW u \in Uids, Accept(u) PROVE DurableCustody'
  BY <1>3 DEF Accept
<1>4. ASSUME NEW u \in Uids, Settle(u) PROVE DurableCustody'
  <2>1. \A v \in Uids : v # u => outbox'[v] = outbox[v] /\ refused'[v] = refused[v]
    BY <1>4 DEF Settle
  <2>2. QED
    BY <1>4, <2>1 DEF Settle
<1>5. QED
  BY <1>1, <1>2, <1>3, <1>4 DEF CustodyStep

\* No job whose record once reached the disk is lost, for any queue size, drain
\* size, attempt cap, number of jobs and pattern of crashes, outages and faults.
THEOREM Durable == Spec => []DurableCustody
<1>1. Init => Acknowledged /\ DurableCustody
  BY DEF Init, Acknowledged, DurableCustody
<1>2. QED
  BY <1>1, InitTypeOK, NextTypeOK, NextAcknowledged, NextCustodyStep, CustodyStepKeeps, PTL DEF Spec

\* A custody step is a step of the ledger, or leaves it alone.
LEMMA CustodyStepRefines == TypeOK /\ CustodyStep => [Ledger!Next]_(Ledger!ledgerVars)
<1> SUFFICES ASSUME TypeOK, CustodyStep PROVE Ledger!Next \/ UNCHANGED Ledger!ledgerVars
  OBVIOUS
<1> USE DEF Recorded, Closed
<1>1. CASE UNCHANGED custodyVars
  BY <1>1 DEF custodyVars, Ledger!ledgerVars
<1>2. ASSUME NEW u \in Uids, EnterRecord(u) PROVE Ledger!Enter(u)
  BY <1>2, ConstantsAssumption DEF EnterRecord, NoRecord, TypeOK, Ledger!Enter
<1>3. ASSUME NEW u \in Uids, Accept(u) PROVE Ledger!Close(u)
  BY <1>3 DEF Accept, TypeOK, Ledger!Close
<1>4. ASSUME NEW u \in Uids, Settle(u) PROVE Ledger!Close(u) \/ Ledger!StrikeOut(u)
  <2>1. \A v \in Uids : v # u => outbox'[v] = outbox[v] /\ refused'[v] = refused[v]
    BY <1>4 DEF Settle, TypeOK
  <2>2. u \in cloud' \/ refused'[u] # {}
    BY <1>4 DEF Settle
  <2>3. UNCHANGED cloud
    BY <1>4 DEF Settle
  <2>4. {v \in Uids : Closed(v)}' = {v \in Uids : Closed(v)} \cup {u}
    BY <2>1, <2>2, <2>3
  <2>5. CASE outbox' = outbox
    BY <2>4, <2>5 DEF Ledger!Close
  <2>6. CASE outbox' = [outbox EXCEPT ![u] = NoRecord]
    <3>1. {v \in Uids : Recorded(v)}' = {v \in Uids : Recorded(v)} \ {u}
      BY <2>1, <2>6 DEF TypeOK
    <3>2. QED
      BY <2>4, <3>1 DEF Ledger!StrikeOut
  <2>7. QED
    BY <1>4, <2>5, <2>6 DEF Settle
<1>5. QED
  BY <1>1, <1>2, <1>3, <1>4 DEF CustodyStep, Ledger!Next

\* The pipeline implements the ledger of durable captures.
THEOREM LedgerRefinement == Spec => ImplementsLedger
<1>1. Init => Acknowledged /\ Ledger!Init
  BY DEF Init, Acknowledged, Ledger!Init, Recorded, Closed
<1>2. QED
  BY <1>1, InitTypeOK, NextTypeOK, NextAcknowledged, NextCustodyStep, CustodyStepRefines, PTL
  DEF Spec, ImplementsLedger, Ledger!Spec

-------------------------------------------------------------------------------
(* Attempts.  A job is dead-lettered on the attempt count it carries; copies of it
   lie in the queue, in both threads' hands, among the records read back and on
   disk.  None of them may carry more attempts than submissions really failed. *)

Counted(j) == j.attempts <= fails[j.uid]

AllCounted(q) == \A i \in DOMAIN q : Counted(q[i])

\* No copy of a job is ahead of the submissions that failed, and a failure that is
\* about to be counted has happened.
Earned ==
  /\ AllCounted(queue)
  /\ \A t \in Threads : Counted(job[t])
  /\ \A j \in todo : Counted(j)
  /\ \A u \in Uids : outbox[u] <= fails[u]
  /\ outcome = "retry" => job["heartbeat"].attempts + 1 <= fails[job["heartbeat"].uid]

\* Counting is about the jobs in a queue, not about their places.
LEMMA CountedQueues ==
  ASSUME NEW q \in Seq(Job), AllCounted(q), NEW j \in Job, Counted(j)
  PROVE  /\ AllCounted(Append(q, j)) /\ AllCounted(<<>>)
         /\ q # <<>> => AllCounted(Tail(q)) /\ Counted(Head(q))
<1>1. AllCounted(<<>>)
  BY DEF AllCounted
<1>2. AllCounted(Append(q, j))
  <2>1. ASSUME NEW i \in DOMAIN Append(q, j) PROVE Counted(Append(q, j)[i])
    <3>1. CASE i = Len(q) + 1
      <4>1. Append(q, j)[i] = j
        BY <3>1
      <4>2. QED
        BY <4>1
    <3>2. CASE i # Len(q) + 1
      <4>1. i \in DOMAIN q /\ Append(q, j)[i] = q[i]
        BY <3>2
      <4>2. QED
        BY <4>1 DEF AllCounted
    <3>3. QED
      BY <3>1, <3>2
  <2>2. QED
    BY <2>1 DEF AllCounted
<1>3. ASSUME q # <<>> PROVE AllCounted(Tail(q)) /\ Counted(Head(q))
  <2>1. \A i \in DOMAIN Tail(q) : i + 1 \in DOMAIN q /\ Tail(q)[i] = q[i + 1]
    BY <1>3
  <2>2. 1 \in DOMAIN q /\ Head(q) = q[1]
    BY <1>3
  <2>3. QED
    BY <2>1, <2>2 DEF AllCounted
<1>4. QED
  BY <1>1, <1>2, <1>3

\* Submissions that failed are never forgotten.
LEMMA CountedLonger ==
  ASSUME TypeOK, Earned, fails' \in [Uids -> Nat], \A u \in Uids : fails[u] <= fails'[u]
  PROVE  /\ \A j \in Job : Counted(j) => Counted(j)'
         /\ \A u \in Uids : outbox[u] <= fails'[u]
<1>1. \A u \in Uids : fails[u] \in Nat /\ fails'[u] \in Nat /\ outbox[u] \in Int
  BY ConstantsAssumption DEF TypeOK, NoRecord
<1>2. \A u \in Uids : outbox[u] <= fails'[u]
  BY <1>1 DEF Earned
<1>3. ASSUME NEW j \in Job, Counted(j) PROVE Counted(j)'
  <2>1. j.uid \in Uids /\ j.attempts \in Int
    BY JobParts, ConstantsAssumption
  <2>2. fails[j.uid] \in Nat /\ fails'[j.uid] \in Nat /\ fails[j.uid] <= fails'[j.uid]
    BY <1>1, <2>1
  <2>3. j.attempts <= fails'[j.uid]
    BY <1>3, <2>1, <2>2 DEF Counted
  <2>4. QED
    BY <2>3 DEF Counted
<1>4. QED
  BY <1>2, <1>3

\* Every step keeps the copies honest.
LEMMA NextEarned == TypeOK /\ Earned /\ [Next]_vars => Earned'
<1> SUFFICES ASSUME TypeOK, Earned, [Next]_vars PROVE Earned'
  OBVIOUS
<1> USE DEF Threads, At, Goto, procVars, threadVars, histVars, envVars
<1>a. /\ queue \in Seq(Job) /\ job \in [Threads -> Job] /\ todo \subseteq Job
      /\ outbox \in [Uids -> {NoRecord} \cup (0 .. MaxAttempts - 1)]
      /\ fails \in [Uids -> Nat] /\ outcome \in Outcomes \cup {"none"}
      /\ pc["heartbeat"] = "settle" <=> outcome # "none"
      /\ pc["capture"] \in CapturePcs
  BY DEF TypeOK
<1>b. job["heartbeat"] \in Job /\ Counted(job["heartbeat"]) /\ job["capture"] \in Job /\ Counted(job["capture"])
  BY <1>a DEF Earned
<1>c. ASSUME UNCHANGED <<fails, outbox>>, AllCounted(queue'),
             \A t \in Threads : Counted(job'[t]), \A j \in todo' : Counted(j),
             outcome' # "retry" \/ UNCHANGED <<outcome, job>>
      PROVE  Earned'
  BY <1>c DEF Earned, Counted, AllCounted
<1>d. \A u \in Uids : 0 <= fails[u] /\ [uid |-> u, attempts |-> 0].attempts = 0
                      /\ [uid |-> u, attempts |-> 0].uid = u
  BY <1>a
<1>e. \A n \in Nat : 0 <= n /\ NoRecord <= n
  BY DEF NoRecord
<1>1. CASE UNCHANGED <<queue, job, todo, outbox, fails, outcome>>
  BY <1>1, <1>c DEF Earned
<1>2. CASE UNCHANGED vars
  BY <1>1, <1>2 DEF vars
<1>3. ASSUME NEW t \in Threads, EnqueuePut(t) \/ EnqueueEvict(t) \/ EnqueueReput(t) PROVE Earned'
  <2>1. UNCHANGED <<job, todo, outbox, fails, outcome>>
    BY <1>3 DEF EnqueuePut, EnqueueEvict, EnqueueReput
  <2>2. \/ queue' = queue
        \/ queue' = Append(queue, job[t])
        \/ queue # <<>> /\ queue' = Tail(queue)
    BY <1>3 DEF EnqueuePut, EnqueueEvict, EnqueueReput
  <2>3. AllCounted(queue')
    BY <1>a, <1>b, <2>2, CountedQueues DEF Earned
  <2>4. QED
    BY <1>c, <2>1, <2>3 DEF Earned
<1>4. ASSUME NEW u \in Uids, CapturePersist(u) PROVE Earned'
  <2>1. /\ outbox' = outbox \/ outbox' = [outbox EXCEPT ![u] = 0]
        /\ job' = [job EXCEPT !["capture"] = [uid |-> u, attempts |-> 0]]
        /\ UNCHANGED <<queue, todo, fails, outcome>>
    BY <1>4 DEF CapturePersist
  <2>2. \A v \in Uids : outbox'[v] <= fails[v]
    BY <1>a, <1>e, <2>1 DEF Earned
  <2>3. job'["heartbeat"] = job["heartbeat"] /\ job'["capture"] = [uid |-> u, attempts |-> 0]
    BY <1>a, <2>1
  <2>4. Counted(job'["heartbeat"]) /\ Counted(job'["capture"])
    BY <1>b, <1>d, <2>3 DEF Counted
  <2>5. QED
    BY <2>1, <2>2, <2>3, <2>4 DEF Earned, Counted, AllCounted
<1>5. CASE RehydrateLoad
  <2>1. todo' = {j \in Job : outbox[j.uid] = j.attempts} /\ UNCHANGED <<queue, job, outbox, fails, outcome>>
    BY <1>5 DEF RehydrateLoad
  <2>2. \A j \in todo' : Counted(j)
    BY <2>1, JobParts DEF Earned, Counted
  <2>3. QED
    BY <1>c, <2>1, <2>2 DEF Earned
<1>6. CASE RehydrateNext
  <2>1. PICK j \in todo : todo' = todo \ {j} /\ job' = [job EXCEPT !["heartbeat"] = j]
    BY <1>6 DEF RehydrateNext
  <2>2. UNCHANGED <<queue, outbox, fails, outcome>> /\ outcome = "none"
    BY <1>6, <1>a DEF RehydrateNext
  <2>3. Counted(j)
    BY DEF Earned
  <2>4. job'["heartbeat"] = j /\ job'["capture"] = job["capture"]
    BY <1>a, <2>1
  <2>5. QED
    BY <1>b, <1>c, <2>1, <2>2, <2>3, <2>4 DEF Earned
<1>7. CASE BeatDrain \/ FinalDrain
  <2>1. UNCHANGED <<job, todo, outbox, fails, outcome>> /\ (queue' = queue \/ queue' = <<>>)
    BY <1>7 DEF BeatDrain, FinalDrain, BeginDrain
  <2>2. AllCounted(queue')
    BY <1>a, <1>b, <2>1, CountedQueues DEF Earned
  <2>3. QED
    BY <1>c, <2>1, <2>2 DEF Earned
<1>8. CASE DrainPop
  <2>1. /\ queue # <<>> /\ queue' = Tail(queue) /\ job' = [job EXCEPT !["heartbeat"] = Head(queue)]
        /\ UNCHANGED <<todo, outbox, fails, outcome>> /\ outcome = "none"
    BY <1>8, <1>a DEF DrainPop
  <2>2. AllCounted(queue') /\ Counted(Head(queue))
    BY <1>a, <1>b, <2>1, CountedQueues DEF Earned
  <2>3. job'["heartbeat"] = Head(queue) /\ job'["capture"] = job["capture"]
    BY <1>a, <2>1
  <2>4. QED
    BY <1>b, <1>c, <2>1, <2>2, <2>3 DEF Earned
<1>9. CASE RehydrateDone \/ NextBeat \/ DrainEnd
  BY <1>1, <1>9 DEF RehydrateDone, NextBeat, DrainEnd
<1>10. ASSUME NEW r \in Outcomes, PostVpSubmit(r) PROVE Earned'
  <2> DEFINE u == job["heartbeat"].uid
  <2>1. /\ fails' = (IF r = "retry" THEN [fails EXCEPT ![u] = @ + 1] ELSE fails)
        /\ outcome' = r /\ UNCHANGED <<queue, job, todo, outbox>>
    BY <1>10 DEF PostVpSubmit
  <2>2. u \in Uids /\ job["heartbeat"].attempts \in Nat
    BY <1>b, JobParts, ConstantsAssumption
  <2>3. fails' \in [Uids -> Nat] /\ \A v \in Uids : fails[v] <= fails'[v]
    BY <1>a, <2>1, <2>2
  <2>4. /\ \A j \in Job : Counted(j) => Counted(j)'
        /\ \A v \in Uids : outbox[v] <= fails'[v]
    BY <2>3, CountedLonger
  <2>5. r = "retry" => job["heartbeat"].attempts + 1 <= fails'[u]
    <3>1. ASSUME r = "retry" PROVE job["heartbeat"].attempts + 1 <= fails'[u]
      <4>1. fails'[u] = fails[u] + 1 /\ fails[u] \in Nat
        BY <1>a, <2>1, <2>2, <3>1
      <4>2. job["heartbeat"].attempts <= fails[u]
        BY <1>b DEF Counted
      <4>3. QED
        BY <2>2, <4>1, <4>2
    <3>2. QED
      BY <3>1
  <2>6. \A i \in DOMAIN queue : queue[i] \in Job /\ Counted(queue[i])
    BY <1>a DEF Earned, AllCounted
  <2>7. AllCounted(queue)'
    BY <2>1, <2>4, <2>6 DEF AllCounted
  <2>8. (\A t \in Threads : Counted(job[t]))' /\ (\A j \in todo : Counted(j))'
    BY <1>a, <2>1, <2>4 DEF Earned
  <2>9. QED
    BY <2>1, <2>4, <2>5, <2>7, <2>8 DEF Earned
<1>11. CASE SettleDone
  <2> DEFINE u == job["heartbeat"].uid
  <2>1. /\ outbox' = outbox \/ outbox' = [outbox EXCEPT ![u] = NoRecord]
        /\ outcome' = "none" /\ UNCHANGED <<queue, job, todo, fails>>
    BY <1>11 DEF SettleDone
  <2>2. \A v \in Uids : outbox'[v] <= fails[v]
    BY <1>a, <1>e, <2>1 DEF Earned
  <2>3. QED
    BY <2>1, <2>2 DEF Earned, Counted, AllCounted
<1>12. CASE SettleRetry
  <2> DEFINE retried == [job["heartbeat"] EXCEPT !.attempts = @ + 1]
  <2>1. /\ \/ /\ outbox' = [outbox EXCEPT ![retried.uid] = retried.attempts]
              /\ job' = [job EXCEPT !["heartbeat"] = retried]
           \/ UNCHANGED <<outbox, job>>
        /\ outcome' = "none" /\ UNCHANGED <<queue, todo, fails>>
    BY <1>12 DEF SettleRetry
  <2>2. retried.uid \in Uids /\ retried.attempts <= fails[retried.uid]
    <3>1. job["heartbeat"].attempts + 1 <= fails[job["heartbeat"].uid]
      BY <1>12 DEF SettleRetry, Earned
    <3>2. job["heartbeat"].attempts + 1 < MaxAttempts
      BY <1>12, <1>b, JobParts, ConstantsAssumption DEF SettleRetry, Exhausted
    <3>3. retried.uid = job["heartbeat"].uid /\ retried.attempts = job["heartbeat"].attempts + 1
      BY <1>b, <3>2, JobRetry
    <3>4. QED
      BY <1>b, <3>1, <3>3, JobParts
  <2> HIDE DEF retried
  <2>3. \A v \in Uids : outbox'[v] <= fails[v]
    BY <1>a, <2>1, <2>2 DEF Earned
  <2>4. Counted(job'["heartbeat"]) /\ Counted(job'["capture"])
    BY <1>a, <1>b, <2>1, <2>2 DEF Counted
  <2>5. QED
    BY <2>1, <2>3, <2>4 DEF Earned, Counted, AllCounted
<1>13. CASE SettleAuth
  <2>1. outcome' = "none" /\ UNCHANGED <<queue, job, todo, outbox, fails>>
    BY <1>13 DEF SettleAuth
  <2>2. QED
    BY <1>c, <2>1 DEF Earned
<1>14. CASE Exit \/ Crash
  <2>1. outcome' = "none" /\ queue' = <<>> /\ todo' = {} /\ UNCHANGED <<job, outbox, fails>>
    BY <1>14 DEF Exit, Crash, Die
  <2>2. AllCounted(queue')
    BY <1>a, <1>b, <2>1, CountedQueues DEF Earned
  <2>3. QED
    BY <1>c, <2>1, <2>2 DEF Earned
<1>15. CASE VpReconcile \/ RequestShutdown \/ Restart \/ CredentialChange
  BY <1>1, <1>15 DEF VpReconcile, RequestShutdown, Restart, CredentialChange
<1>16. QED
  BY NextCases, <1>2, <1>3, <1>4, <1>5, <1>6, <1>7, <1>8, <1>9, <1>10, <1>11, <1>12, <1>13, <1>14, <1>15

\* Submissions that failed stay failed, and only a job whose attempts are used up is
\* dead-lettered as such.
LEMMA NextDeadletter == TypeOK /\ Earned /\ DeadletterEarned /\ [Next]_vars => DeadletterEarned'
<1> SUFFICES ASSUME TypeOK, Earned, DeadletterEarned, [Next]_vars PROVE DeadletterEarned'
  OBVIOUS
<1> USE DEF procVars, threadVars, histVars, envVars
<1>1. CASE UNCHANGED <<refused, fails>>
  BY <1>1 DEF DeadletterEarned
<1>2. ASSUME NEW r \in Outcomes, PostVpSubmit(r) PROVE DeadletterEarned'
  <2> DEFINE u == job["heartbeat"].uid
  <2>1. /\ fails' = (IF r = "retry" THEN [fails EXCEPT ![u] = @ + 1] ELSE fails)
        /\ refused' = refused
    BY <1>2 DEF PostVpSubmit
  <2>2. \A v \in Uids : fails[v] \in Nat /\ (fails'[v] = fails[v] \/ fails'[v] = fails[v] + 1)
    BY <2>1 DEF TypeOK
  <2>3. \A m, n, k \in Nat : m >= n /\ (k = m \/ k = m + 1) => k >= n
    OBVIOUS
  <2>4. QED
    BY <2>1, <2>2, <2>3, ConstantsAssumption DEF DeadletterEarned
<1>3. CASE SettleDone
  <2> DEFINE u == job["heartbeat"].uid
  <2>1. /\ fails' = fails
        /\ refused' = (IF outcome = "ok" THEN refused
                       ELSE [refused EXCEPT ![u] = @ \cup {IF Exhausted THEN "exhausted" ELSE outcome}])
    BY <1>3 DEF SettleDone
  <2>2. job["heartbeat"] \in Job /\ u \in Uids /\ job["heartbeat"].attempts \in Nat /\ fails[u] \in Nat
    BY JobParts, ConstantsAssumption DEF TypeOK, Threads
  <2>3. Exhausted => fails[u] >= MaxAttempts
    <3>1. Exhausted => /\ job["heartbeat"].attempts + 1 <= fails[u]
                       /\ job["heartbeat"].attempts + 1 >= MaxAttempts
      BY DEF Earned, Exhausted
    <3>2. QED
      BY <2>2, <3>1, ConstantsAssumption
  <2>4. outcome # "exhausted"
    BY DEF TypeOK, Outcomes
  <2>5. \A v \in Uids : "exhausted" \in refused'[v] => "exhausted" \in refused[v] \/ (v = u /\ Exhausted)
    BY <2>1, <2>2, <2>4 DEF TypeOK
  <2>6. QED
    BY <2>1, <2>3, <2>5 DEF DeadletterEarned
<1>4. CASE UNCHANGED vars
  BY <1>1, <1>4 DEF vars
<1>5. ASSUME NEW t \in Threads, EnqueuePut(t) \/ EnqueueEvict(t) \/ EnqueueReput(t) PROVE DeadletterEarned'
  BY <1>1, <1>5 DEF EnqueuePut, EnqueueEvict, EnqueueReput
<1>6. ASSUME NEW u \in Uids, CapturePersist(u) PROVE DeadletterEarned'
  BY <1>1, <1>6 DEF CapturePersist
<1>7. CASE RehydrateLoad \/ RehydrateNext \/ RehydrateDone
  BY <1>1, <1>7 DEF RehydrateLoad, RehydrateNext, RehydrateDone
<1>8. CASE BeatDrain \/ FinalDrain \/ NextBeat \/ DrainPop \/ DrainEnd
  BY <1>1, <1>8 DEF BeatDrain, FinalDrain, BeginDrain, NextBeat, DrainPop, DrainEnd
<1>9. CASE SettleRetry \/ SettleAuth \/ Exit \/ Crash
  BY <1>1, <1>9 DEF SettleRetry, SettleAuth, Exit, Crash, Die
<1>10. CASE VpReconcile \/ RequestShutdown \/ Restart \/ CredentialChange
  BY <1>1, <1>10 DEF VpReconcile, RequestShutdown, Restart, CredentialChange
<1>11. QED
  BY NextCases, <1>2, <1>3, <1>4, <1>5, <1>6, <1>7, <1>8, <1>9, <1>10

\* The hub gives a job up as undeliverable only after MaxAttempts submissions of it
\* really failed, for any attempt cap and whatever outages, restarts, re-captures and
\* copies of the job there were in between.
THEOREM DeadletterIsEarned == Spec => []DeadletterEarned
<1>1. Init => Earned /\ DeadletterEarned
  <2> SUFFICES ASSUME Init PROVE Earned /\ DeadletterEarned
    OBVIOUS
  <2>1. PICK u \in Uids : job = [t \in Threads |-> [uid |-> u, attempts |-> 0]]
    BY DEF Init
  <2>2. \A t \in Threads : job[t].attempts = 0 /\ job[t].uid = u
    BY <2>1
  <2>3. \A v \in Uids : fails[v] = 0 /\ outbox[v] = NoRecord /\ refused[v] = {}
    BY DEF Init
  <2>4. queue = <<>> /\ todo = {} /\ outcome = "none"
    BY DEF Init
  <2>5. DeadletterEarned
    BY <2>3 DEF DeadletterEarned
  <2>6. QED
    BY <2>2, <2>3, <2>4, <2>5 DEF Earned, Counted, AllCounted, NoRecord
<1>2. QED
  BY <1>1, InitTypeOK, NextTypeOK, NextEarned, NextDeadletter, PTL DEF Spec
===============================================================================
