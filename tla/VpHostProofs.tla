----------------------------- MODULE VpHostProofs -----------------------------
(***************************************************************************)
(* Proofs about VpHost, for any number of models, addresses, changes and   *)
(* mishaps: the addresses on the host's interfaces are the remembered      *)
(* ones, the snapshot is what runs, what runs is bound to the address      *)
(* allocated for it and stays with the last configuration, and the cloud   *)
(* is told the addresses there are.                                        *)
(***************************************************************************)
EXTENDS VpHost, SequenceTheorems, TLAPS

\* The part of the type invariant the argument about addresses needs.
AddressTypes ==
  /\ cloud \in [Models -> Ips \cup {Nil, Absent}] /\ conf \in [Models -> Ips \cup {Nil, Absent}]
  /\ bindings \in [Models -> Ips \cup {Nil}] /\ file \in [Models -> Ips \cup {Nil}]
  /\ reports \in [Models -> Ips \cup {Nil}]
  /\ iface \subseteq Ips

\* An entry is under way at every stage of its own.
EntryUnderWay == pc \in {"save", "claim", "bind"} => at \in Models /\ conf[at] \in Ips

\* Memory and file agree, but for the binding that is just being saved.
Persisted == pc # "save" => file = bindings

\* What is going to be claimed is bound already.
BoundFirst == pc \in {"save", "claim"} => bindings[at] = conf[at]

\* A fresh address is allocated only to a model without one.
Fresh == pc = "bind" => bindings[at] = Nil

\* NoLeak of the bindings in memory.
Bound ==
  \A a \in iface : (\E m \in Models : bindings[m] = a) \/ a \in leaked \/ (pc = "bind" /\ a = conf[at])

IInv == AddressTypes /\ EntryUnderWay /\ Persisted /\ BoundFirst /\ Fresh /\ Bound /\ NoLeak

USE VpHostAssumption

\* IInv holds initially.
LEMMA InitIInv == Init => IInv
BY DEF Init, IInv, AddressTypes, EntryUnderWay, Persisted, BoundFirst, Fresh, Bound, NoLeak, NoEntry, NoIps

\* Steps of the loop thread and waits for it leave the addresses alone.
LEMMA Elsewhere ==
  ASSUME IInv, UNCHANGED <<addrVars, conf, at, cloud, reports>>,
         pc' = pc \/ (pc \notin {"save", "claim", "bind"} /\ pc' \notin {"save", "claim", "bind"})
  PROVE  IInv'
BY DEF addrVars, IInv, AddressTypes, EntryUnderWay, Persisted, BoundFirst, Fresh, Bound, NoLeak

\* Post keeps IInv.
LEMMA PostStep == ASSUME IInv, Post PROVE IInv'
BY DEF Post, addrVars, NoIps, IInv, AddressTypes, EntryUnderWay, Persisted, BoundFirst, Fresh, Bound, NoLeak

\* CloudChange keeps IInv.
LEMMA CloudChangeStep ==
  ASSUME IInv, NEW m \in Models, NEW a \in Ips \cup {Nil, Absent}, CloudChange(m, a)
  PROVE  IInv'
BY DEF CloudChange, addrVars, beatVars, IInv, AddressTypes, EntryUnderWay, Persisted, BoundFirst, Fresh, Bound, NoLeak

\* Pull keeps IInv.
LEMMA PullStep == ASSUME IInv, Pull PROVE IInv'
BY DEF Pull, addrVars, IInv, AddressTypes, EntryUnderWay, Persisted, BoundFirst, Fresh, Bound, NoLeak

\* NoSuchEntry keeps IInv.
LEMMA NoSuchEntryStep == ASSUME IInv, at \in Models, NoSuchEntry(at) PROVE IInv'
BY DEF NoSuchEntry, cloudVars, addrVars, IInv, AddressTypes, EntryUnderWay, Persisted, BoundFirst, Fresh, Bound, NoLeak

\* The old address goes from the interface, or is known to be left there.
LEMMA EnsureClaimedStep == ASSUME IInv, at \in Models, EnsureClaimed(at) PROVE IInv'
<1> USE DEF EnsureClaimed
<1>1. AddressTypes'
  BY DEF IInv, AddressTypes, Release, cloudVars
<1>2. EntryUnderWay' /\ Persisted' /\ Fresh'
  BY DEF IInv, EntryUnderWay, Persisted, Fresh
<1>3. BoundFirst'
  BY DEF IInv, AddressTypes, BoundFirst
<1>4. \A a \in iface' : a \in iface /\ (a \in leaked => a \in leaked')
  BY DEF Release
<1>5. \A a \in iface' : bindings[at] = a => bindings'[at] = a \/ a \in leaked'
  BY DEF Release, IInv, AddressTypes
<1>6. \A m \in Models \ {at} : bindings'[m] = bindings[m]
  BY DEF IInv, AddressTypes
<1>7. Bound'
  BY <1>4, <1>5, <1>6 DEF IInv, Bound
<1>8. NoLeak'
  BY <1>4 DEF IInv, NoLeak
<1>9. QED
  BY <1>1, <1>2, <1>3, <1>7, <1>8 DEF IInv

\* EnsureSave keeps IInv.
LEMMA EnsureSaveStep == ASSUME IInv, EnsureSave PROVE IInv'
BY DEF EnsureSave, cloudVars, IInv, AddressTypes, EntryUnderWay, Persisted, BoundFirst, Fresh, Bound, NoLeak

\* EnsureClaim keeps IInv.
LEMMA EnsureClaimStep == ASSUME IInv, EnsureClaim PROVE IInv'
<1> USE DEF EnsureClaim
<1>1. at \in Models /\ bindings[at] = conf[at] /\ file = bindings
  BY DEF IInv, EntryUnderWay, BoundFirst, Persisted
<1>2. AddressTypes'
  BY <1>1 DEF IInv, AddressTypes, Claim, EntryUnderWay, cloudVars
<1>3. EntryUnderWay' /\ Persisted' /\ BoundFirst' /\ Fresh'
  BY <1>1 DEF EntryUnderWay, Persisted, BoundFirst, Fresh
<1>4. \A a \in iface' : a = conf[at] \/ (a \in iface /\ (a \in leaked => a \in leaked'))
  BY DEF Claim
<1>5. Bound' /\ NoLeak'
  BY <1>1, <1>4 DEF IInv, Bound, NoLeak
<1>6. QED
  BY <1>2, <1>3, <1>5 DEF IInv

\* Reclaim keeps IInv.
LEMMA ReclaimStep == ASSUME IInv, at \in Models, Reclaim(at) PROVE IInv'
<1> USE DEF Reclaim
<1>1. file = bindings /\ file' = bindings'
  BY DEF IInv, Persisted
<1>2. AddressTypes'
  BY DEF IInv, AddressTypes, Claim, cloudVars
<1>3. EntryUnderWay' /\ Persisted' /\ BoundFirst' /\ Fresh'
  BY <1>1 DEF EntryUnderWay, Persisted, BoundFirst, Fresh
<1>4. \A a \in iface' : (\E m \in Models : bindings'[m] = a) \/ a \in leaked'
  <2>1. CASE Claim(bindings[at]) /\ UNCHANGED bindings
    BY <2>1 DEF Claim, IInv, Bound
  <2>2. CASE /\ bindings' = [bindings EXCEPT ![at] = Nil] /\ UNCHANGED iface
             /\ leaked' = leaked \cup {a \in iface : a = bindings[at] /\ \A k \in Models : bindings'[k] # a}
    <3> SUFFICES ASSUME NEW a \in iface, \A m \in Models : bindings'[m] # a PROVE a \in leaked'
      BY <2>2
    <3>1. \A m \in Models \ {at} : bindings[m] # a
      BY <2>2 DEF IInv, AddressTypes
    <3>2. a = bindings[at] \/ a \in leaked
      BY <3>1 DEF IInv, Bound
    <3>3. QED
      BY <3>2, <2>2
  <2>3. QED
    BY <2>1, <2>2
<1>5. Bound' /\ NoLeak'
  BY <1>1, <1>4 DEF Bound, NoLeak
<1>6. QED
  BY <1>2, <1>3, <1>5 DEF IInv

\* Allocate keeps IInv.
LEMMA AllocateStep == ASSUME IInv, at \in Models, Allocate(at) PROVE IInv'
<1> USE DEF Allocate
<1>1. file = bindings /\ file' = bindings'
  BY DEF IInv, Persisted
<1>2. AddressTypes'
  BY DEF IInv, AddressTypes, Claim, Candidates, cloudVars
<1>3. EntryUnderWay'
  BY DEF EntryUnderWay, IInv, AddressTypes, Candidates
<1>4. Persisted' /\ BoundFirst' /\ Fresh'
  BY <1>1 DEF Persisted, BoundFirst, Fresh
<1>5. \A a \in iface' : (pc' = "bind" /\ a = conf'[at']) \/ (a \in iface /\ (a \in leaked => a \in leaked'))
  BY DEF Claim, IInv, AddressTypes
<1>6. Bound' /\ NoLeak'
  BY <1>1, <1>5 DEF IInv, Bound, NoLeak
<1>7. QED
  BY <1>2, <1>3, <1>4, <1>6 DEF IInv

\* AllocateSave keeps IInv.
LEMMA AllocateSaveStep == ASSUME IInv, AllocateSave PROVE IInv'
<1> USE DEF AllocateSave
<1>1. at \in Models /\ conf[at] \in Ips /\ file = bindings /\ file' = bindings'
  BY DEF IInv, EntryUnderWay, Persisted
<1>2. AddressTypes'
  BY <1>1 DEF IInv, AddressTypes, cloudVars
<1>3. EntryUnderWay' /\ Persisted' /\ BoundFirst' /\ Fresh'
  BY <1>1 DEF EntryUnderWay, Persisted, BoundFirst, Fresh
<1>4. bindings'[at] = conf[at] /\ \A m \in Models \ {at} : bindings'[m] = bindings[m]
  BY <1>1 DEF IInv, AddressTypes
<1>5. \A a \in iface : (\E m \in Models : bindings'[m] = a) \/ a \in leaked
  <2> HIDE DEF AllocateSave
  <2>1. \A a \in iface : (\E m \in Models : bindings[m] = a) \/ a \in leaked \/ a = conf[at]
    BY DEF IInv, Bound
  <2>2. bindings[at] = Nil \/ bindings[at] = conf[at]
    BY DEF IInv, Fresh, AllocateSave
  <2>3. QED
    BY <1>1, <1>4, <2>1, <2>2 DEF IInv, AddressTypes
<1>6. Bound' /\ NoLeak'
  BY <1>1, <1>5 DEF Bound, NoLeak
<1>7. QED
  BY <1>2, <1>3, <1>6 DEF IInv

\* A process that dies keeps its file; an address claimed and not yet saved leaks.
LEMMA CrashStep == ASSUME IInv, Crash PROVE IInv'
<1> USE DEF Crash
<1>1. AddressTypes'
  BY DEF IInv, AddressTypes, NoEntry, NoIps
<1>2. EntryUnderWay' /\ Persisted' /\ BoundFirst' /\ Fresh'
  BY DEF EntryUnderWay, Persisted, BoundFirst, Fresh
<1>3. \A a \in iface' : (\E m \in Models : file[m] = a) \/ a \in leaked'
  BY DEF IInv, NoLeak
<1>4. Bound' /\ NoLeak'
  BY <1>3 DEF Bound, NoLeak
<1>5. QED
  BY <1>1, <1>2, <1>4 DEF IInv

\* The steps of the next-state relation.
LEMMA NextCases ==
  ASSUME Next
  PROVE  \/ Pull \/ Post \/ Idle \/ EnsureSave \/ EnsureClaim \/ AllocateSave
         \/ at \in Models /\ (NoSuchEntry(at) \/ EnsureClaimed(at) \/ Reclaim(at) \/ Allocate(at))
         \/ Reconcile \/ Mirror \/ Answered \/ TimesOut
         \/ StopAll \/ Begin \/ BeginFails \/ NotWanted \/ StartOrApply \/ Finish
         \/ Crash
         \/ \E m \in Models, a \in Ips \cup {Nil, Absent} : CloudChange(m, a)
BY DEF Next, Heartbeat, Loop

\* Every step keeps IInv.
LEMMA NextIInv == IInv /\ [Next]_vars => IInv'
<1> SUFFICES ASSUME IInv, [Next]_vars PROVE IInv'
  OBVIOUS
<1>1. CASE UNCHANGED vars \/ Idle
  <2>1. UNCHANGED vars
    BY <1>1 DEF Idle
  <2>2. UNCHANGED <<addrVars, conf, at, cloud, reports>> /\ pc' = pc
    BY <2>1 DEF vars, cloudVars, beatVars, addrVars
  <2>3. QED
    BY <2>2, Elsewhere DEF addrVars
<1>2. CASE Reconcile \/ Mirror
  BY <1>2, Elsewhere DEF Reconcile, Mirror, Submit, cloudVars
<1>3. CASE Answered \/ TimesOut
  BY <1>3, Elsewhere DEF Answered, TimesOut, cloudVars
<1>4. CASE StopAll \/ Begin \/ BeginFails
  <2>1. UNCHANGED <<addrVars, conf, at, cloud, reports>> /\ pc' = pc
    BY <1>4 DEF StopAll, Begin, BeginFails, cloudVars, beatVars, addrVars
  <2>2. QED
    BY <2>1, Elsewhere DEF addrVars
<1>5. CASE NotWanted \/ StartOrApply \/ Finish
  <2>1. UNCHANGED <<addrVars, conf, at, cloud, reports>> /\ pc' = pc
    BY <1>5 DEF NotWanted, StartOrApply, Finish, cloudVars, beatVars, addrVars
  <2>2. QED
    BY <2>1, Elsewhere DEF addrVars
<1>6. CASE Next
  BY <1>6, <1>1, <1>2, <1>3, <1>4, <1>5, NextCases, PullStep, PostStep, EnsureSaveStep, EnsureClaimStep,
     AllocateSaveStep, NoSuchEntryStep, EnsureClaimedStep, ReclaimStep, AllocateStep, CrashStep, CloudChangeStep
<1>7. QED
  BY <1>1, <1>6

\* Every address the hub put on an interface is in vp-bindings.json, so that a
\* restarted agent claims it again: whatever the cloud does to the virtual printers,
\* whichever commands fail and whenever the process dies, except for the three
\* losses NoLeak names (IpAllocator, "rather than leaking it").
THEOREM Remembered == Spec => []NoLeak
<1>1. IInv => NoLeak
  BY DEF IInv
<1>2. QED
  BY <1>1, InitIInv, NextIInv, PTL DEF Spec

-------------------------------------------------------------------------------
(* The snapshot. *)

\* Configurations, were there one for an entry without an address, too.
AnyConfigs == [Models -> [ip : Ips \cup {Nil, Absent}, pool : {"cloud", "live"}]]

ConfigTypes ==
  /\ jobs \in Seq(AnyConfigs)
  /\ running \in AnyConfigs /\ snap \in AnyConfigs
  /\ turn \in 0 .. N + 1

\* A reconciliation that has begun is the first of the queue and wants something.
Begun == turn # 0 => jobs # <<>> /\ Wanted # AllOff

\* While the heartbeat waits for everything to stop, that is the last of the queue,
\* or it has been done and nothing was submitted after it.
OffLast ==
  pc = "wait_off" => IF jobs = <<>> THEN running = AllOff ELSE jobs[Len(jobs)] = AllOff

SInv == ConfigTypes /\ Begun /\ OffLast /\ SnapshotHonest

\* No virtual printer wanted is a configuration.
LEMMA AllOffType == AllOff \in AnyConfigs
BY DEF AllOff, Off, AnyConfigs

\* The queue of the loop thread: what is put on it comes last, what is done first.
LEMMA QueuePut ==
  ASSUME NEW q \in Seq(AnyConfigs), NEW w \in AnyConfigs
  PROVE  /\ Append(q, w) \in Seq(AnyConfigs) /\ Append(q, w) # <<>>
         /\ Append(q, w)[Len(Append(q, w))] = w
         /\ q # <<>> => Head(Append(q, w)) = Head(q)
OBVIOUS

\* Taking a reconciliation off the queue leaves the last one last.
LEMMA QueueTake ==
  ASSUME NEW q \in Seq(AnyConfigs), q # <<>>
  PROVE  /\ Tail(q) \in Seq(AnyConfigs) /\ Head(q) \in AnyConfigs
         /\ Tail(q) = <<>> => q[Len(q)] = Head(q)
         /\ Tail(q) # <<>> => Tail(q)[Len(Tail(q))] = q[Len(q)]
<1>1. Tail(q) \in Seq(AnyConfigs) /\ Head(q) \in AnyConfigs /\ Len(Tail(q)) = Len(q) - 1 /\ Len(q) \in Nat \ {0}
  OBVIOUS
<1>2. \A i \in 1 .. Len(q) - 1 : Tail(q)[i] = q[i + 1]
  OBVIOUS
<1>3. CASE Len(q) = 1
  <2>1. Tail(q) = <<>>
    <3>1. Tail(q) # <<>> => Len(Tail(q)) \in Nat \ {0}
      BY <1>1, EmptySeq
    <3>2. QED
      BY <1>1, <1>3, <3>1
  <2>2. QED
    BY <1>1, <1>3, <2>1
<1>4. CASE Len(q) # 1
  <2>1. Len(Tail(q)) \in 1 .. Len(q) - 1 /\ Len(Tail(q)) + 1 = Len(q)
    BY <1>1, <1>4
  <2>2. Tail(q) # <<>>
    BY <1>1, <2>1, EmptySeq
  <2>3. QED
    BY <1>1, <1>2, <2>1, <2>2
<1>5. QED
  BY <1>3, <1>4

\* SInv holds initially.
LEMMA InitSInv == Init => SInv
<1> SUFFICES ASSUME Init PROVE SInv
  OBVIOUS
<1>1. ConfigTypes
  BY AllOffType DEF Init, ConfigTypes
<1>2. Begun /\ OffLast /\ SnapshotHonest
  BY DEF Init, Begun, OffLast, SnapshotHonest
<1>3. QED
  BY <1>1, <1>2 DEF SInv

\* What is submitted is typed, and it is everything off or the heartbeat does not
\* wait for that.
LEMMA SubmitStep ==
  ASSUME SInv, NEW want \in AnyConfigs, Submit(want), UNCHANGED <<turn, running, snap>>
  PROVE  SInv'
<1> USE DEF Submit
<1>1. ConfigTypes'
  BY QueuePut DEF SInv, ConfigTypes
<1>2. Begun'
  BY QueuePut DEF SInv, ConfigTypes, Begun, Wanted
<1>3. OffLast'
  BY QueuePut DEF SInv, ConfigTypes, OffLast
<1>4. SnapshotHonest'
  BY DEF SInv, SnapshotHonest
<1>5. QED
  BY <1>1, <1>2, <1>3, <1>4 DEF SInv

\* Reconcile keeps SInv.
LEMMA ReconcileStep == ASSUME IInv, SInv, Reconcile PROVE SInv'
<1>1. Parsed \in AnyConfigs
  BY DEF IInv, AddressTypes, Parsed, Off, AnyConfigs
<1>2. CASE pc' = "beat" /\ UNCHANGED jobs
  BY <1>2 DEF Reconcile, SInv, ConfigTypes, Begun, Wanted, OffLast, SnapshotHonest
<1>3. CASE Submit(Parsed)
  BY <1>1, <1>3, SubmitStep DEF Reconcile
<1>4. QED
  BY <1>2, <1>3 DEF Reconcile

\* Mirror keeps SInv.
LEMMA MirrorStep == ASSUME SInv, Mirror PROVE SInv'
<1>1. Mirrored \in AnyConfigs
  BY DEF SInv, ConfigTypes, Mirrored, Off, AnyConfigs
<1>2. QED
  BY <1>1, SubmitStep DEF Mirror

\* Answered keeps SInv.
LEMMA AnsweredStep == ASSUME SInv, Answered PROVE SInv'
BY AllOffType DEF Answered, SInv, ConfigTypes, Begun, Wanted, OffLast, SnapshotHonest

\* A reconciliation is done, whether or not it could: the next one's turn.
LEMMA DoneStep ==
  ASSUME SInv, jobs # <<>>, jobs' = Tail(jobs), turn' = 0, pc' = pc, snap' = running',
         running' \in AnyConfigs, running' = AllOff \/ Wanted # AllOff
  PROVE  SInv'
<1>1. ConfigTypes'
  BY QueueTake DEF SInv, ConfigTypes
<1>2. Begun' /\ SnapshotHonest'
  BY DEF Begun, SnapshotHonest
<1>3. OffLast'
  BY QueueTake DEF SInv, ConfigTypes, OffLast, Wanted
<1>4. QED
  BY <1>1, <1>2, <1>3 DEF SInv

\* Begin keeps SInv.
LEMMA BeginStep == ASSUME SInv, Begin PROVE SInv'
<1>1. running' \in AnyConfigs
  BY DEF Begin, SInv, ConfigTypes, Off, AnyConfigs
<1>2. QED
  BY <1>1 DEF Begin, beatVars, SInv, ConfigTypes, Begun, Wanted, OffLast, SnapshotHonest

\* A turn keeps the snapshot's part.
LEMMA TurnStep == ASSUME SInv, NotWanted \/ StartOrApply PROVE SInv'
<1>1. Wanted \in AnyConfigs /\ turn \in Models
  BY QueueTake DEF NotWanted, StartOrApply, SInv, ConfigTypes, Begun, Wanted, Models
<1>2. running' \in AnyConfigs
  BY <1>1 DEF NotWanted, StartOrApply, SInv, ConfigTypes, Off, AnyConfigs
<1>3. turn' = turn + 1 /\ UNCHANGED <<jobs, snap, pc>>
  BY DEF NotWanted, StartOrApply, beatVars
<1>4. QED
  BY <1>1, <1>2, <1>3 DEF Models, SInv, ConfigTypes, Begun, Wanted, OffLast, SnapshotHonest

\* Every step keeps SInv.
LEMMA NextSInv == IInv /\ SInv /\ [Next]_vars => SInv'
<1> SUFFICES ASSUME IInv, SInv, [Next]_vars PROVE SInv'
  OBVIOUS
<1>1. CASE UNCHANGED <<jobs, turn, running, snap>> /\ (pc' = pc \/ pc' # "wait_off")
  BY <1>1 DEF SInv, ConfigTypes, Begun, Wanted, OffLast, SnapshotHonest
<1>2. CASE UNCHANGED vars \/ Idle
  BY <1>1, <1>2 DEF Idle, vars, loopVars, beatVars
<1>3. CASE Pull \/ Post \/ EnsureSave \/ EnsureClaim \/ AllocateSave \/ TimesOut
  BY <1>1, <1>3 DEF Pull, Post, EnsureSave, EnsureClaim, AllocateSave, TimesOut, loopVars
<1>4. CASE NoSuchEntry(at) \/ EnsureClaimed(at) \/ Reclaim(at) \/ Allocate(at)
  BY <1>1, <1>4 DEF NoSuchEntry, EnsureClaimed, Reclaim, Allocate, loopVars
<1>5. CASE \E m \in Models, a \in Ips \cup {Nil, Absent} : CloudChange(m, a)
  BY <1>1, <1>5 DEF CloudChange, loopVars, beatVars
<1>6. CASE StopAll
  BY <1>6, DoneStep, AllOffType DEF StopAll, beatVars
<1>7. CASE BeginFails
  BY <1>7, DoneStep DEF BeginFails, beatVars, SInv, ConfigTypes, SnapshotHonest
<1>8. CASE Finish
  <2>1. jobs # <<>> /\ Wanted # AllOff
    BY <1>8 DEF Finish, SInv, Begun
  <2>2. QED
    BY <1>8, <2>1, DoneStep DEF Finish, beatVars, SInv, ConfigTypes
<1>9. CASE Crash
  BY <1>9, AllOffType DEF Crash, SInv, ConfigTypes, Begun, OffLast, SnapshotHonest
<1>10. CASE Next
  BY <1>10, <1>2, <1>3, <1>4, <1>5, <1>6, <1>7, <1>8, <1>9,
     NextCases, ReconcileStep, MirrorStep, AnsweredStep, BeginStep, TurnStep
<1>11. QED
  BY <1>2, <1>10

\* "never serve a stale snapshot": between reconciliations the identities and
\* configurations the heartbeat reads are those of the runtimes, through failed
\* starts, failed and late reconciliations and the stopping of the loop thread.
THEOREM Honest == Spec => []SnapshotHonest
<1>1. SInv => SnapshotHonest
  BY DEF SInv
<1>2. QED
  BY <1>1, InitIInv, NextIInv, InitSInv, NextSInv, PTL DEF Spec

-------------------------------------------------------------------------------
(* What the loop thread works on. *)

Allocating == pc \in {"alloc", "save", "claim", "bind"}

\* Whatever is to run, or runs, has an address.
RealSet(w) == \A m \in Models : w[m] # Off => w[m].ip \in Ips

Real ==
  /\ RealSet(running) /\ RealSet(snap)
  /\ \A i \in 1 .. Len(jobs) : RealSet(jobs[i])

\* An entry that is handled has an address or is left out.
Handled ==
  /\ at \in 1 .. N + 1
  /\ Allocating => \A m \in Models : m < at => conf[m] # Nil

\* Runtimes need the listener and the loop thread.
LoopUp ==
  /\ running # AllOff \/ turn # 0 => ssdp
  /\ ~loop => jobs = <<>> /\ running = AllOff

\* What is no longer wanted was stopped when its reconciliation began.
InTurn == turn # 0 => \A m \in Models : Wanted[m] = Off => running[m] = Off

RInv == Real /\ Handled /\ LoopUp /\ InTurn

\* The queue by index.
LEMMA QueuePutAt ==
  ASSUME NEW q \in Seq(AnyConfigs), NEW w \in AnyConfigs
  PROVE  /\ Len(q) \in Nat /\ Len(Append(q, w)) = Len(q) + 1 /\ Append(q, w)[Len(q) + 1] = w
         /\ \A i \in 1 .. Len(q) : Append(q, w)[i] = q[i]
OBVIOUS

\* Taking a reconciliation off the queue moves the others up.
LEMMA QueueTakeAt ==
  ASSUME NEW q \in Seq(AnyConfigs), q # <<>>
  PROVE  /\ Len(q) \in Nat \ {0} /\ Len(Tail(q)) = Len(q) - 1 /\ Head(q) = q[1]
         /\ \A i \in 1 .. Len(q) - 1 : Tail(q)[i] = q[i + 1]
OBVIOUS

\* What was put last or taken first changes nothing else.
LEMMA RealPut ==
  ASSUME ConfigTypes, Real, NEW w \in AnyConfigs, RealSet(w), jobs' = Append(jobs, w), UNCHANGED <<running, snap>>
  PROVE  Real'
<1>1. jobs \in Seq(AnyConfigs)
  BY DEF ConfigTypes
<1>2. /\ Len(jobs) \in Nat /\ Len(jobs') = Len(jobs) + 1 /\ jobs'[Len(jobs) + 1] = w
      /\ \A i \in 1 .. Len(jobs) : jobs'[i] = jobs[i]
  BY <1>1, QueuePutAt
<1>3. \A i \in 1 .. Len(jobs) + 1 : i \in 1 .. Len(jobs) \/ i = Len(jobs) + 1
  BY <1>2
<1>4. \A i \in 1 .. Len(jobs') : RealSet(jobs'[i])
  BY <1>2, <1>3 DEF Real
<1>5. QED
  BY <1>4 DEF Real, RealSet

\* A taken reconciliation wanted real addresses.
LEMMA RealTake ==
  ASSUME ConfigTypes, Real, jobs # <<>>, jobs' = Tail(jobs), RealSet(running'), RealSet(snap')
  PROVE  Real'
<1>1. jobs \in Seq(AnyConfigs)
  BY DEF ConfigTypes
<1>2. Len(jobs) \in Nat \ {0} /\ Len(jobs') = Len(jobs) - 1 /\ \A i \in 1 .. Len(jobs) - 1 : jobs'[i] = jobs[i + 1]
  BY <1>1, QueueTakeAt
<1>3. \A i \in 1 .. Len(jobs) - 1 : i + 1 \in 1 .. Len(jobs)
  BY <1>2
<1>4. \A i \in 1 .. Len(jobs') : RealSet(jobs'[i])
  BY <1>2, <1>3 DEF Real
<1>5. QED
  BY <1>4 DEF Real, RealSet

\* The first of the queue is real.
LEMMA WantedReal == ASSUME ConfigTypes, Real, jobs # <<>> PROVE RealSet(Wanted)
<1>1. jobs \in Seq(AnyConfigs)
  BY DEF ConfigTypes
<1>2. 1 \in 1 .. Len(jobs) /\ Wanted = jobs[1]
  BY <1>1, QueueTakeAt DEF Wanted
<1>3. QED
  BY <1>2 DEF Real

\* No virtual printer wanted wants no address.
LEMMA RealAllOff == RealSet(AllOff) /\ \A m \in Models : AllOff[m] = Off
BY DEF RealSet, AllOff

\* What a turn does: the model whose turn it is runs as wanted, or not at all.
LEMMA TurnDoes ==
  ASSUME ConfigTypes, Begun, NotWanted \/ StartOrApply
  PROVE  /\ turn \in Models /\ turn' = turn + 1 /\ jobs # <<>> /\ Wanted \in AnyConfigs
         /\ \A m \in Models : m # turn => running'[m] = running[m]
         /\ \/ Wanted[turn] = Off /\ running'[turn] = running[turn]
            \/ running'[turn] = Off
            \/ /\ running'[turn] = Wanted[turn]
               /\ running[turn].ip = Wanted[turn].ip \/ Wanted[turn].ip \in iface
         /\ UNCHANGED <<cloudVars, addrVars, beatVars, loop, jobs, ssdp, snap>>
<1>1. turn \in Models /\ turn # 0
  BY DEF NotWanted, StartOrApply, Models
<1>2. jobs # <<>> /\ Wanted \in AnyConfigs
  BY <1>1, QueueTake DEF ConfigTypes, Begun, Wanted
<1>3. \A m \in Models : m # turn => running'[m] = running[m]
  BY DEF NotWanted, StartOrApply, ConfigTypes, AnyConfigs
<1>4. \/ Wanted[turn] = Off /\ running'[turn] = running[turn]
      \/ running'[turn] = Off
      \/ /\ running'[turn] = Wanted[turn]
         /\ running[turn].ip = Wanted[turn].ip \/ Wanted[turn].ip \in iface
  BY <1>1 DEF NotWanted, StartOrApply, CanStart, ConfigTypes, AnyConfigs
<1>5. turn' = turn + 1 /\ UNCHANGED <<cloudVars, addrVars, beatVars, loop, jobs, ssdp, snap>>
  BY DEF NotWanted, StartOrApply
<1>6. QED
  BY <1>1, <1>2, <1>3, <1>4, <1>5

\* The initial states.
LEMMA InitRInv == Init => RInv
<1> SUFFICES ASSUME Init PROVE RInv
  OBVIOUS
<1>1. running = AllOff /\ snap = AllOff /\ jobs = <<>> /\ turn = 0 /\ at = N + 1 /\ pc = "beat" /\ Len(jobs) = 0
  BY DEF Init
<1>2. QED
  BY <1>1, RealAllOff DEF RInv, Real, Handled, LoopUp, InTurn, Allocating

\* Steps that only deal with addresses.
AddressStep ==
  \/ Pull \/ EnsureSave \/ EnsureClaim \/ AllocateSave
  \/ at \in Models /\ (NoSuchEntry(at) \/ EnsureClaimed(at) \/ Reclaim(at) \/ Allocate(at))

\* The steps of one entry go through the models in their order.
LEMMA AddressStepHandled ==
  ASSUME IInv, Handled, AddressStep
  PROVE  Handled' /\ UNCHANGED loopVars /\ Allocating' /\ pc' \notin {"wait", "wait_off", "beat"}
<1>1. UNCHANGED loopVars
  BY DEF AddressStep, Pull, EnsureSave, EnsureClaim, AllocateSave, NoSuchEntry, EnsureClaimed, Reclaim, Allocate
<1>2. Allocating'
  BY DEF Allocating, AddressStep, Pull, EnsureSave, EnsureClaim, AllocateSave, NoSuchEntry, EnsureClaimed, Reclaim, Allocate
<1>3. CASE Pull
  <2>1. at' = 1 /\ pc' = "alloc"
    BY <1>3 DEF Pull
  <2>2. 1 \in 1 .. N + 1 /\ \A m \in Models : ~(m < 1)
    BY DEF Models
  <2>3. Handled'
    BY <2>1, <2>2 DEF Handled
  <2>4. QED
    BY <1>1, <1>2, <2>1, <2>3
<1>4. CASE ~Pull
  <2>1. at \in Models /\ at' \in {at, at + 1} /\ Allocating
    BY <1>4 DEF AddressStep, EnsureSave, EnsureClaim, AllocateSave, NoSuchEntry, EnsureClaimed, Reclaim, Allocate,
                Allocating, IInv, EntryUnderWay
  <2>2. \A m \in Models : m # at => conf'[m] = conf[m]
    BY <1>4 DEF AddressStep, EnsureSave, EnsureClaim, AllocateSave, NoSuchEntry, EnsureClaimed, Reclaim, Allocate,
                IInv, AddressTypes
  <2>3. at' = at + 1 => conf'[at] # Nil
    <3> SUFFICES ASSUME at' = at + 1 PROVE conf'[at] # Nil
      OBVIOUS
    <3>1. at + 1 # at
      BY <2>1 DEF Models
    <3>2. CASE NoSuchEntry(at)
      BY <3>2 DEF NoSuchEntry
    <3>3. CASE EnsureClaim
      BY <3>3 DEF EnsureClaim, IInv, AddressTypes, EntryUnderWay
    <3>4. CASE AllocateSave
      BY <3>4 DEF AllocateSave, IInv, AddressTypes, EntryUnderWay
    <3>5. CASE Reclaim(at)
      BY <2>1, <3>1, <3>5 DEF Reclaim, IInv, AddressTypes
    <3>6. CASE Allocate(at)
      BY <2>1, <3>1, <3>6 DEF Allocate, IInv, AddressTypes
    <3>7. CASE EnsureSave \/ EnsureClaimed(at)
      BY <3>1, <3>7 DEF EnsureSave, EnsureClaimed
    <3>8. QED
      BY <1>4, <3>2, <3>3, <3>4, <3>5, <3>6, <3>7 DEF AddressStep
  <2>4. at' \in 1 .. N + 1
    BY <2>1 DEF Models
  <2>5. \A m \in Models : m < at' => conf'[m] # Nil
    <3> SUFFICES ASSUME NEW m \in Models, m < at' PROVE conf'[m] # Nil
      OBVIOUS
    <3>1. CASE m = at
      <4>1. at' = at + 1
        BY <2>1, <3>1 DEF Models
      <4>2. QED
        BY <2>3, <3>1, <4>1
    <3>2. CASE m # at
      <4>1. m < at
        BY <2>1, <3>2 DEF Models
      <4>2. QED
        BY <2>1, <2>2, <3>2, <4>1 DEF Handled
    <3>3. QED
      BY <3>1, <3>2
  <2>6. QED
    BY <1>1, <1>2, <2>4, <2>5 DEF Handled, Allocating
<1>5. QED
  BY <1>1, <1>2, <1>3, <1>4 DEF Allocating

\* Every step keeps what the loop thread works on real.
LEMMA StepRInv == IInv /\ SInv /\ RInv /\ [Next]_vars => RInv'
<1> SUFFICES ASSUME IInv, SInv, RInv, [Next]_vars PROVE RInv'
  OBVIOUS
<1>a. ConfigTypes /\ Begun /\ OffLast /\ Real /\ Handled /\ LoopUp /\ InTurn
  BY DEF SInv, RInv
<1>b. jobs = <<>> \/ jobs # <<>>
  OBVIOUS
<1>1. ASSUME UNCHANGED loopVars PROVE Real' /\ LoopUp' /\ InTurn'
  BY <1>a, <1>1 DEF loopVars, Real, RealSet, LoopUp, InTurn, Wanted
<1>2. ASSUME UNCHANGED <<conf, at>>, pc' = pc \/ pc' \in {"beat", "wait", "wait_off"} PROVE Handled'
  BY <1>a, <1>2 DEF Handled, Allocating
<1>3. CASE AddressStep
  BY <1>a, <1>1, <1>3, AddressStepHandled DEF RInv
<1>4. CASE Post \/ TimesOut \/ (\E m \in Models, a \in Ips \cup {Nil, Absent} : CloudChange(m, a))
  <2>1. UNCHANGED loopVars /\ UNCHANGED <<conf, at>> /\ (pc' = pc \/ pc' \in {"beat", "wait", "wait_off"})
    BY <1>4 DEF Post, TimesOut, CloudChange, beatVars
  <2>2. QED
    BY <1>1, <1>2, <2>1 DEF RInv
<1>5. ASSUME NEW w \in AnyConfigs, RealSet(w), Submit(w), UNCHANGED <<conf, at, turn, ssdp, running, snap>>
      PROVE  RInv'
  <2>1. jobs' = Append(jobs, w) /\ loop' = TRUE /\ pc' \in {"wait", "wait_off"}
    BY <1>5 DEF Submit
  <2>2. Real'
    BY <1>a, <1>5, <2>1, RealPut
  <2>3. Handled' /\ LoopUp'
    BY <1>a, <1>2, <1>5, <2>1 DEF LoopUp
  <2>4. InTurn'
    <3>1. turn # 0 => Wanted' = Wanted
      BY <1>a, <2>1, QueuePut DEF ConfigTypes, Begun, Wanted
    <3>2. QED
      BY <1>a, <1>5, <3>1 DEF InTurn
  <2>5. QED
    BY <2>2, <2>3, <2>4 DEF RInv
<1>6. CASE Reconcile
  <2>1. UNCHANGED <<conf, at, turn, ssdp, running, snap>> /\ at = N + 1 /\ pc = "alloc"
    BY <1>6 DEF Reconcile
  <2>2. CASE pc' = "beat" /\ UNCHANGED <<jobs, loop>>
    BY <1>1, <1>2, <2>1, <2>2 DEF RInv, loopVars
  <2>3. CASE Submit(Parsed)
    <3>1. Parsed \in AnyConfigs
      BY DEF IInv, AddressTypes, Parsed, Off, AnyConfigs
    <3>2. RealSet(Parsed)
      <4>1. \A m \in Models : m < at
        BY <2>1 DEF Models
      <4>2. \A m \in Models : conf[m] \in Ips \cup {Absent}
        BY <1>a, <2>1, <4>1 DEF Handled, Allocating, IInv, AddressTypes
      <4>3. QED
        BY <4>2 DEF RealSet, Parsed, Off
    <3>3. QED
      BY <1>5, <2>1, <2>3, <3>1, <3>2
  <2>4. QED
    BY <1>6, <2>2, <2>3 DEF Reconcile
<1>7. CASE Mirror
  <2>1. UNCHANGED <<conf, at, turn, ssdp, running, snap>> /\ Submit(Mirrored)
    BY <1>7 DEF Mirror
  <2>2. Mirrored \in AnyConfigs
    BY <1>a DEF ConfigTypes, Mirrored, Off, AnyConfigs
  <2>3. RealSet(Mirrored)
    BY <1>a DEF Real, RealSet, Mirrored, ConfigTypes, AnyConfigs, Off
  <2>4. QED
    BY <1>5, <2>1, <2>2, <2>3
<1>8. CASE Answered
  <2>1. /\ jobs = <<>> /\ UNCHANGED <<conf, at, jobs, turn, ssdp, running>> /\ pc' = "beat"
        /\ \/ pc = "wait" /\ UNCHANGED <<loop, snap>>
           \/ pc = "wait_off" /\ loop' = FALSE /\ snap' = AllOff
    BY <1>8 DEF Answered
  <2>2. Handled'
    BY <1>2, <2>1
  <2>3. Real'
    <3>1. RealSet(running') /\ RealSet(snap')
      BY <1>a, <2>1, RealAllOff DEF Real, RealSet
    <3>2. QED
      BY <1>a, <2>1, <3>1 DEF Real, RealSet
  <2>4. LoopUp'
    BY <1>a, <2>1 DEF LoopUp, OffLast
  <2>5. InTurn'
    BY <1>a, <2>1 DEF InTurn, Wanted
  <2>6. QED
    BY <2>2, <2>3, <2>4, <2>5 DEF RInv
<1>9. CASE StopAll \/ BeginFails
  <2>1. /\ jobs # <<>> /\ turn = 0 /\ turn' = 0 /\ jobs' = Tail(jobs) /\ UNCHANGED <<conf, at, pc, loop>>
        /\ \/ running' = AllOff /\ snap' = AllOff
           \/ UNCHANGED <<running, snap, ssdp>>
    BY <1>9 DEF StopAll, BeginFails, beatVars
  <2>2. Real'
    <3>1. RealSet(running') /\ RealSet(snap')
      BY <1>a, <2>1, RealAllOff DEF Real, RealSet
    <3>2. QED
      BY <1>a, <2>1, <3>1, RealTake
  <2>3. LoopUp' /\ InTurn'
    BY <1>a, <2>1 DEF LoopUp, InTurn
  <2>4. QED
    BY <1>2, <2>1, <2>2, <2>3 DEF RInv
<1>10. CASE Begin
  <2>1. /\ jobs # <<>> /\ ssdp' = TRUE /\ UNCHANGED <<conf, at, pc, loop, jobs, snap>>
        /\ running' = [m \in Models |-> IF Wanted[m] = Off THEN Off ELSE running[m]]
    BY <1>10 DEF Begin, beatVars
  <2>2. Real'
    BY <1>a, <2>1 DEF Real, RealSet
  <2>3. LoopUp' /\ InTurn'
    BY <1>a, <2>1 DEF LoopUp, InTurn, Wanted
  <2>4. QED
    BY <1>2, <2>1, <2>2, <2>3 DEF RInv
<1>11. CASE NotWanted \/ StartOrApply
  <2>1. /\ turn \in Models /\ turn' = turn + 1 /\ jobs # <<>> /\ Wanted \in AnyConfigs
        /\ \A m \in Models : m # turn => running'[m] = running[m]
        /\ \/ Wanted[turn] = Off /\ running'[turn] = running[turn]
           \/ running'[turn] = Off
           \/ running'[turn] = Wanted[turn]
        /\ UNCHANGED <<conf, at, pc, loop, jobs, ssdp, snap>>
    BY <1>a, <1>11, TurnDoes DEF beatVars
  <2>2. turn # 0 /\ Wanted' = Wanted
    BY <2>1 DEF Models, Wanted
  <2>3. RealSet(Wanted)
    BY <1>a, <2>1, WantedReal
  <2>4. Real'
    BY <1>a, <2>1, <2>3 DEF Real, RealSet
  <2>5. InTurn'
    BY <1>a, <2>1, <2>2 DEF InTurn
  <2>6. LoopUp'
    BY <1>a, <2>1, <2>2 DEF LoopUp
  <2>7. QED
    BY <1>2, <2>1, <2>4, <2>5, <2>6 DEF RInv
<1>12. CASE Finish
  <2>1. /\ jobs # <<>> /\ turn' = 0 /\ jobs' = Tail(jobs) /\ snap' = running
        /\ UNCHANGED <<conf, at, pc, loop, running, ssdp>>
    BY <1>a, <1>12 DEF Finish, beatVars, Begun
  <2>2. Real'
    BY <1>a, <2>1, RealTake DEF Real, RealSet
  <2>3. LoopUp' /\ InTurn'
    BY <1>a, <2>1 DEF LoopUp, InTurn
  <2>4. QED
    BY <1>2, <2>1, <2>2, <2>3 DEF RInv
<1>13. CASE Crash
  <2>1. /\ running' = AllOff /\ snap' = AllOff /\ jobs' = <<>> /\ turn' = 0 /\ at' = N + 1 /\ pc' = "beat"
    BY <1>13 DEF Crash
  <2>2. QED
    BY <2>1, RealAllOff DEF RInv, Real, RealSet, Handled, LoopUp, InTurn, Allocating
<1>14. CASE UNCHANGED vars \/ Idle
  <2>1. UNCHANGED loopVars /\ UNCHANGED <<conf, at, pc>>
    BY <1>14 DEF vars, Idle, beatVars
  <2>2. QED
    BY <1>1, <1>2, <2>1 DEF RInv
<1>15. QED
  BY <1>3, <1>4, <1>6, <1>7, <1>8, <1>9, <1>10, <1>11, <1>12, <1>13, <1>14, NextCases DEF AddressStep

-------------------------------------------------------------------------------
(* Running on real addresses.  A virtual printer whose address has just been taken away
   is on its way off it: the entry that moves it is still to be submitted, or a
   reconciliation that moves it is in the queue.  That is so whatever else is in the
   queue, reconciliations that outlived their time-outs included.  *)

\* A reconciliation to come has m on another address, or down.
Replaced(m) == \E i \in 1 .. Len(jobs) : jobs[i][m].ip # running[m].ip /\ (i > 1 \/ turn <= m)

\* The pull that is being worked on has not come to m, or has m elsewhere.
Unsettled(m) == Allocating /\ ~(m < at /\ conf[m] = running[m].ip)

Grounded ==
  \A m \in Models : running[m] # Off => running[m].ip \in iface \cup torn \/ Replaced(m) \/ Unsettled(m)

\* What is handled is bound, so that moving another model off the address is told.
HandledBound == Allocating => \A m \in Models : m < at /\ conf[m] \in Ips => bindings[m] = conf[m]

\* A fresh address is on the interface before it is saved.
Claimed == pc = "bind" => conf[at] \in iface

GInv == Grounded /\ HandledBound /\ Claimed

\* What the steps of one entry do to it, and to the others.
LEMMA AddressDoes ==
  ASSUME IInv, Claimed, AddressStep, ~Pull
  PROVE  /\ at \in Models /\ at' \in {at, at + 1} /\ Allocating
         /\ \A m \in Models \ {at} : conf'[m] = conf[m] /\ bindings'[m] = bindings[m]
         /\ at' = at + 1 /\ conf'[at] \in Ips => conf'[at] \in iface' /\ bindings'[at] = conf'[at]
         /\ \A m \in Models \ {at} : bindings[m] \in iface \cup torn => bindings[m] \in iface' \cup torn'
         /\ pc' = "bind" => conf'[at] \in iface' /\ at' = at
<1>1. at \in Models /\ at' \in {at, at + 1} /\ Allocating /\ at + 1 # at
  BY DEF AddressStep, EnsureSave, EnsureClaim, AllocateSave, NoSuchEntry, EnsureClaimed, Reclaim, Allocate,
         Allocating, IInv, EntryUnderWay, Models
<1>2. \A m \in Models \ {at} : conf'[m] = conf[m] /\ bindings'[m] = bindings[m]
  BY DEF AddressStep, EnsureSave, EnsureClaim, AllocateSave, NoSuchEntry, EnsureClaimed, Reclaim, Allocate,
         IInv, AddressTypes, addrVars
<1>3. ASSUME at' = at + 1, conf'[at] \in Ips PROVE conf'[at] \in iface' /\ bindings'[at] = conf'[at]
  <2>1. CASE NoSuchEntry(at)
    BY <1>3, <2>1 DEF NoSuchEntry
  <2>2. CASE EnsureClaim
    BY <1>1, <1>3, <2>2 DEF EnsureClaim, Claim, IInv, AddressTypes, BoundFirst
  <2>3. CASE AllocateSave
    BY <1>1, <1>3, <2>3 DEF AllocateSave, Claimed, IInv, AddressTypes
  <2>4. CASE Reclaim(at)
    BY <1>1, <1>3, <2>4 DEF Reclaim, Claim, IInv, AddressTypes
  <2>5. CASE Allocate(at)
    BY <1>1, <1>3, <2>5 DEF Allocate, IInv, AddressTypes
  <2>6. CASE EnsureSave \/ EnsureClaimed(at)
    BY <1>1, <1>3, <2>6 DEF EnsureSave, EnsureClaimed
  <2>7. QED
    BY <2>1, <2>2, <2>3, <2>4, <2>5, <2>6 DEF AddressStep
<1>4. ASSUME NEW m \in Models \ {at}, bindings[m] \in iface \cup torn PROVE bindings[m] \in iface' \cup torn'
  <2>1. CASE NoSuchEntry(at) \/ EnsureSave \/ AllocateSave
    BY <1>4, <2>1 DEF NoSuchEntry, EnsureSave, AllocateSave, addrVars
  <2>2. ASSUME NEW a, Claim(a) PROVE bindings[m] \in iface' \cup torn'
    BY <1>4, <2>2 DEF Claim
  <2>3. CASE EnsureClaim \/ Reclaim(at) \/ Allocate(at)
    BY <1>4, <2>2, <2>3 DEF EnsureClaim, Reclaim, Allocate
  <2>4. CASE EnsureClaimed(at)
    BY <1>4, <2>4 DEF EnsureClaimed, Release
  <2>5. QED
    BY <2>1, <2>3, <2>4 DEF AddressStep
<1>5. pc' = "bind" => conf'[at] \in iface' /\ at' = at
  <2>1. CASE Allocate(at)
    BY <1>1, <2>1 DEF Allocate, Claim, IInv, AddressTypes
  <2>2. CASE ~Allocate(at)
    BY <2>2 DEF AddressStep, EnsureSave, EnsureClaim, AllocateSave, NoSuchEntry, EnsureClaimed, Reclaim
  <2>3. QED
    BY <2>1, <2>2
<1>6. QED
  BY <1>1, <1>2, <1>3, <1>4, <1>5

\* Handling one entry.
LEMMA AddressGrounded ==
  ASSUME IInv, RInv, GInv, AddressStep PROVE GInv'
<1>1. UNCHANGED loopVars /\ Allocating' /\ at' \in 1 .. N + 1
  BY AddressStepHandled DEF RInv, Handled
<1>2. \A m \in Models : Replaced(m)' = Replaced(m)
  BY <1>1 DEF Replaced, loopVars
<1>3. CASE Pull
  <2>1. at' = 1 /\ pc' = "alloc" /\ \A m \in Models : ~(m < 1)
    BY <1>3 DEF Pull, Models
  <2>2. QED
    BY <1>1, <2>1 DEF GInv, Grounded, Unsettled, HandledBound, Claimed
<1>4. CASE ~Pull
  <2>1. /\ at \in Models /\ at' \in {at, at + 1} /\ Allocating
        /\ \A m \in Models \ {at} : conf'[m] = conf[m] /\ bindings'[m] = bindings[m]
        /\ at' = at + 1 /\ conf'[at] \in Ips => conf'[at] \in iface' /\ bindings'[at] = conf'[at]
        /\ \A m \in Models \ {at} : bindings[m] \in iface \cup torn => bindings[m] \in iface' \cup torn'
        /\ pc' = "bind" => conf'[at] \in iface' /\ at' = at
    BY <1>4, AddressDoes DEF GInv
  <2>2. \A m \in Models : m < at' => m < at \/ (m = at /\ at' = at + 1)
    BY <2>1 DEF Models
  <2>3. HandledBound'
    <3>1. SUFFICES ASSUME NEW m \in Models, m < at', conf'[m] \in Ips PROVE bindings'[m] = conf'[m]
      BY DEF HandledBound
    <3>2. CASE m = at /\ at' = at + 1
      BY <2>1, <3>1, <3>2
    <3>3. CASE m < at
      <4>1. m \in Models \ {at}
        BY <2>1, <3>3 DEF Models
      <4>2. QED
        BY <2>1, <3>1, <3>3, <4>1 DEF GInv, HandledBound
    <3>4. QED
      BY <2>2, <3>1, <3>2, <3>3
  <2>4. Claimed'
    BY <2>1 DEF Claimed
  <2>5. Grounded'
    <3>1. SUFFICES ASSUME NEW m \in Models, running'[m] # Off, ~Replaced(m)', ~Unsettled(m)'
                   PROVE  running'[m].ip \in iface' \cup torn'
      BY DEF Grounded
    <3>2. running[m] # Off /\ running' = running /\ ~Replaced(m)
      BY <1>1, <1>2, <3>1 DEF loopVars
    <3>3. m < at' /\ conf'[m] = running[m].ip /\ running[m].ip \in Ips
      BY <1>1, <3>1, <3>2 DEF Unsettled, RInv, Real, RealSet
    <3>4. CASE m = at /\ at' = at + 1
      BY <2>1, <3>2, <3>3, <3>4
    <3>5. CASE m < at
      <4>1. m \in Models \ {at}
        BY <2>1, <3>5 DEF Models
      <4>2. conf[m] = running[m].ip /\ bindings[m] = conf[m]
        BY <2>1, <3>3, <3>5, <4>1 DEF GInv, HandledBound
      <4>3. running[m].ip \in iface \cup torn
        BY <3>2, <3>5, <4>2 DEF GInv, Grounded, Unsettled
      <4>4. QED
        BY <2>1, <3>2, <4>1, <4>2, <4>3
    <3>6. QED
      BY <2>2, <3>3, <3>4, <3>5
  <2>6. QED
    BY <2>3, <2>4, <2>5 DEF GInv
<1>5. QED
  BY <1>3, <1>4

\* Putting a reconciliation on the queue.
LEMMA SubmitGrounded ==
  ASSUME SInv, GInv, NEW w \in AnyConfigs, Submit(w), UNCHANGED <<running, turn, iface, torn>>,
         \A m \in Models : running[m] # Off /\ Unsettled(m) => w[m].ip # running[m].ip
  PROVE  GInv'
<1>1. jobs \in Seq(AnyConfigs) /\ jobs' = Append(jobs, w) /\ pc' \in {"wait", "wait_off"}
  BY DEF Submit, SInv, ConfigTypes
<1>2. /\ Len(jobs) \in Nat /\ Len(jobs') = Len(jobs) + 1 /\ jobs'[Len(jobs) + 1] = w
      /\ \A i \in 1 .. Len(jobs) : jobs'[i] = jobs[i]
  BY <1>1, QueuePutAt
<1>3. \A i \in 1 .. Len(jobs) : i \in 1 .. Len(jobs')
  BY <1>2
<1>4. Len(jobs) + 1 \in 1 .. Len(jobs') /\ (Len(jobs) + 1 > 1 \/ jobs = <<>>)
  BY <1>1, <1>2, EmptySeq
<1>5. jobs = <<>> => \A m \in Models : turn <= m
  BY DEF SInv, Begun, Models
<1>6. Grounded'
  <2>1. SUFFICES ASSUME NEW m \in Models, running[m] # Off, running[m].ip \notin iface \cup torn
                 PROVE  Replaced(m)'
    BY DEF Grounded
  <2>2. CASE Replaced(m)
    BY <1>2, <1>3, <2>2 DEF Replaced
  <2>3. CASE Unsettled(m)
    BY <1>2, <1>4, <1>5, <2>1, <2>3 DEF Replaced
  <2>4. QED
    BY <2>1, <2>2, <2>3 DEF GInv, Grounded
<1>7. QED
  BY <1>1, <1>6 DEF GInv, HandledBound, Claimed, Allocating

\* One model's turn.
LEMMA TurnGrounded ==
  ASSUME SInv, RInv, GInv, NotWanted \/ StartOrApply PROVE GInv'
<1>1. /\ turn \in Models /\ turn' = turn + 1 /\ jobs # <<>>
      /\ \A m \in Models : m # turn => running'[m] = running[m]
      /\ \/ Wanted[turn] = Off /\ running'[turn] = running[turn]
         \/ running'[turn] = Off
         \/ /\ running'[turn] = Wanted[turn]
            /\ running[turn].ip = Wanted[turn].ip \/ Wanted[turn].ip \in iface
      /\ UNCHANGED <<conf, at, pc, jobs, iface, torn, bindings>>
  BY TurnDoes DEF SInv, beatVars, addrVars
<1>2. turn # 0
  BY <1>1 DEF Models
<1>3. jobs[1] = Wanted
  BY <1>1, QueueTakeAt DEF SInv, ConfigTypes, Wanted
<1>4. HandledBound' /\ Claimed'
  BY <1>1 DEF GInv, HandledBound, Claimed, Allocating
<1>5. Grounded'
  <2>1. SUFFICES ASSUME NEW m \in Models, running'[m] # Off, running'[m].ip \notin iface \cup torn
                 PROVE  Replaced(m)' \/ Unsettled(m)'
    BY <1>1 DEF Grounded
  <2>2. ASSUME running[m] # Off, running'[m].ip = running[m].ip, m # turn \/ Wanted[m].ip = running[m].ip
        PROVE  Replaced(m)' \/ Unsettled(m)'
    <3>1. CASE Unsettled(m)
      BY <1>1, <2>2, <3>1 DEF Unsettled, Allocating
    <3>2. CASE Replaced(m)
      <4>1. PICK i \in 1 .. Len(jobs) : jobs[i][m].ip # running[m].ip /\ (i > 1 \/ turn <= m)
        BY <3>2 DEF Replaced
      <4>2. i > 1 \/ turn + 1 <= m
        <5>1. i # 1 => i > 1
          OBVIOUS
        <5>2. turn <= m /\ m # turn => turn + 1 <= m
          BY <1>1 DEF Models
        <5>3. QED
          BY <1>3, <2>2, <4>1, <5>1, <5>2
      <4>3. QED
        BY <1>1, <2>2, <4>1, <4>2 DEF Replaced
    <3>3. QED
      BY <1>1, <2>1, <2>2, <3>1, <3>2 DEF GInv, Grounded
  <2>3. CASE m # turn
    BY <1>1, <2>1, <2>2, <2>3
  <2>4. CASE m = turn
    <3>1. CASE Wanted[turn] = Off /\ running'[turn] = running[turn]
      BY <1>2, <2>1, <2>4, <3>1 DEF RInv, InTurn
    <3>2. CASE running'[turn] = Wanted[turn] /\ running[turn].ip = Wanted[turn].ip
      <4>1. Wanted[turn].ip \in Ips
        BY <1>1, <2>1, <2>4, <3>2, WantedReal DEF SInv, RInv, RealSet
      <4>2. running[turn] # Off
        BY <3>2, <4>1 DEF Off
      <4>3. QED
        BY <2>2, <2>4, <3>2, <4>2
    <3>3. QED
      BY <1>1, <2>1, <2>4, <3>1, <3>2
  <2>5. QED
    BY <2>3, <2>4
<1>6. QED
  BY <1>4, <1>5 DEF GInv

\* Every step keeps virtual printers on real addresses, or on their way off.
LEMMA StepGInv == IInv /\ SInv /\ RInv /\ GInv /\ [Next]_vars => GInv'
<1> SUFFICES ASSUME IInv, SInv, RInv, GInv, [Next]_vars PROVE GInv'
  OBVIOUS
<1>1. ASSUME UNCHANGED <<conf, at, bindings, iface, torn, running, jobs, turn, pc>> PROVE GInv'
  BY <1>1 DEF GInv, Grounded, Replaced, Unsettled, HandledBound, Claimed, Allocating
<1>2. ASSUME \A m \in Models : running'[m] = Off, pc' = pc \/ pc' \in {"beat", "wait", "wait_off"},
             UNCHANGED <<conf, at, bindings, iface>>
      PROVE  GInv'
  <2>1. Grounded'
    BY <1>2 DEF Grounded
  <2>2. HandledBound' /\ Claimed'
    BY <1>2 DEF GInv, HandledBound, Claimed, Allocating
  <2>3. QED
    BY <2>1, <2>2 DEF GInv
<1>3. CASE AddressStep
  BY <1>3, AddressGrounded
<1>4. CASE Post \/ (\E m \in Models, a \in Ips \cup {Nil, Absent} : CloudChange(m, a)) \/ UNCHANGED vars \/ Idle
  <2>1. UNCHANGED <<conf, at, bindings, iface, torn, running, jobs, turn, pc>>
    BY <1>4 DEF Post, CloudChange, Idle, vars, addrVars, beatVars, loopVars
  <2>2. QED
    BY <1>1, <2>1
<1>5. CASE Answered \/ TimesOut
  <2>1. /\ pc \in {"wait", "wait_off"} /\ pc' = "beat"
        /\ UNCHANGED <<conf, at, bindings, iface, torn, running, jobs, turn>>
    BY <1>5 DEF Answered, TimesOut, addrVars, loopVars
  <2>2. QED
    BY <2>1 DEF GInv, Grounded, Replaced, Unsettled, HandledBound, Claimed, Allocating
<1>6. CASE Reconcile
  <2>1. UNCHANGED <<running, turn, iface, torn, bindings, conf, at>> /\ at = N + 1
    BY <1>6 DEF Reconcile, addrVars
  <2>2. CASE conf = NoEntry /\ ~loop /\ pc' = "beat"
    <3>1. \A m \in Models : running'[m] = Off
      BY <2>1, <2>2, RealAllOff DEF RInv, LoopUp
    <3>2. QED
      BY <1>2, <2>1, <2>2, <3>1
  <2>3. CASE Submit(Parsed)
    <3>1. Parsed \in AnyConfigs
      BY DEF IInv, AddressTypes, Parsed, Off, AnyConfigs
    <3>2. ASSUME NEW m \in Models, running[m] # Off, Unsettled(m) PROVE Parsed[m].ip # running[m].ip
      <4>1. m < at
        BY <2>1 DEF Models
      <4>2. conf[m] # running[m].ip /\ running[m].ip \in Ips
        BY <3>2, <4>1 DEF Unsettled, RInv, Real, RealSet
      <4>3. QED
        BY <4>2 DEF Parsed, Off
    <3>3. QED
      BY <2>1, <2>3, <3>1, <3>2, SubmitGrounded
  <2>4. QED
    BY <1>6, <2>2, <2>3 DEF Reconcile
<1>7. CASE Mirror
  <2>1. UNCHANGED <<running, turn, iface, torn>> /\ pc = "beat" /\ Submit(Mirrored)
    BY <1>7 DEF Mirror, addrVars
  <2>2. Mirrored \in AnyConfigs
    BY DEF SInv, ConfigTypes, Mirrored, Off, AnyConfigs
  <2>3. \A m \in Models : ~Unsettled(m)
    BY <2>1 DEF Unsettled, Allocating
  <2>4. QED
    BY <2>1, <2>2, <2>3, SubmitGrounded
<1>8. CASE StopAll \/ BeginFails \/ Crash
  <2>1. running' = AllOff
    BY <1>8 DEF StopAll, BeginFails, Crash, RInv, LoopUp
  <2>2. CASE StopAll \/ BeginFails
    <3>1. pc' = pc /\ UNCHANGED <<conf, at, bindings, iface>>
      BY <2>2 DEF StopAll, BeginFails, beatVars, addrVars
    <3>2. QED
      BY <1>2, <2>1, <3>1, RealAllOff
  <2>3. CASE Crash
    <3>1. pc' = "beat"
      BY <2>3 DEF Crash
    <3>2. QED
      BY <2>1, <3>1, RealAllOff DEF GInv, Grounded, HandledBound, Claimed, Allocating
  <2>4. QED
    BY <1>8, <2>2, <2>3
<1>9. CASE Begin
  <2>1. /\ turn = 0 /\ turn' = 1 /\ UNCHANGED <<conf, at, bindings, iface, torn, jobs, pc>>
        /\ \A m \in Models : running'[m] \in {Off, running[m]}
    BY <1>9 DEF Begin, addrVars, beatVars
  <2>2. \A m \in Models : 1 <= m
    BY DEF Models
  <2>3. ASSUME NEW m \in Models, running'[m] = running[m] PROVE (Replaced(m) => Replaced(m)') /\ (Unsettled(m) => Unsettled(m)')
    BY <2>1, <2>2, <2>3 DEF Replaced, Unsettled, Allocating
  <2>4. Grounded'
    BY <2>1, <2>3 DEF GInv, Grounded
  <2>5. QED
    BY <2>1, <2>4 DEF GInv, HandledBound, Claimed, Allocating
<1>10. CASE NotWanted \/ StartOrApply
  BY <1>10, TurnGrounded
<1>11. CASE Finish
  <2>1. /\ turn = N + 1 /\ turn' = 0 /\ jobs' = Tail(jobs) /\ jobs # <<>>
        /\ UNCHANGED <<conf, at, bindings, iface, torn, running, pc>>
    BY <1>11 DEF Finish, addrVars, beatVars, SInv, Begun
  <2>2. Len(jobs) \in Nat \ {0} /\ Len(jobs') = Len(jobs) - 1 /\ \A i \in 1 .. Len(jobs) - 1 : jobs'[i] = jobs[i + 1]
    BY <2>1, QueueTakeAt DEF SInv, ConfigTypes
  <2>3. ASSUME NEW m \in Models, Replaced(m) PROVE Replaced(m)'
    <3>1. PICK i \in 1 .. Len(jobs) : jobs[i][m].ip # running[m].ip /\ (i > 1 \/ turn <= m)
      BY <2>3 DEF Replaced
    <3>2. i > 1
      BY <2>1, <3>1 DEF Models
    <3>3. i - 1 \in 1 .. Len(jobs) - 1 /\ (i - 1) + 1 = i
      BY <2>2, <3>1, <3>2
    <3>4. jobs'[i - 1][m].ip # running'[m].ip
      BY <2>1, <2>2, <3>1, <3>3
    <3>5. turn' <= m
      BY <2>1 DEF Models
    <3>6. QED
      BY <2>2, <3>3, <3>4, <3>5 DEF Replaced
  <2>4. \A m \in Models : Unsettled(m)' = Unsettled(m)
    BY <2>1 DEF Unsettled, Allocating
  <2>5. Grounded'
    BY <2>1, <2>3, <2>4 DEF GInv, Grounded
  <2>6. QED
    BY <2>1, <2>5 DEF GInv, HandledBound, Claimed, Allocating
<1>12. QED
  BY <1>3, <1>4, <1>5, <1>6, <1>7, <1>8, <1>9, <1>10, <1>11, NextCases DEF AddressStep

\* GInv holds initially.
LEMMA InitGInv == Init => GInv
<1> SUFFICES ASSUME Init PROVE GInv
  OBVIOUS
<1>1. pc = "beat" /\ running = AllOff
  BY DEF Init
<1>2. QED
  BY <1>1, RealAllOff DEF GInv, Grounded, HandledBound, Claimed, Allocating

\* "so the address actually EXISTS on an interface before the per-VP servers bind it":
\* when nothing is under way, every virtual printer that runs is on an address the host
\* has, unless moving another model off it took it away, whatever fails and however
\* many reconciliations outlived their time-outs (_allocate_vp_bind_ips, reconcile).
THEOREM RealAddresses == Spec => []OnRealAddress
<1>1. GInv => OnRealAddress
  <2> SUFFICES ASSUME GInv, AtRest, NEW m \in Models, running[m] # Off PROVE running[m].ip \in iface \cup torn
    BY DEF OnRealAddress
  <2>1. pc = "beat" /\ jobs = <<>> /\ Len(jobs) = 0
    BY DEF AtRest
  <2>2. ~Unsettled(m) /\ ~Replaced(m)
    BY <2>1 DEF Unsettled, Replaced, Allocating
  <2>3. QED
    BY <2>2 DEF GInv, Grounded
<1>2. QED
  BY <1>1, InitIInv, NextIInv, InitSInv, NextSInv, InitRInv, StepRInv, InitGInv, StepGInv, PTL DEF Spec

-------------------------------------------------------------------------------
(* The last configuration.  As long as no reconciliation outlives its time-out, the
   heartbeat waits for each one, so the queue holds one at most. *)

Fits(w) == \A m \in Models : w[m] # Off => w[m].ip = conf[m]

InTime ==
  late = 0 =>
    /\ pc \notin {"wait", "wait_off"} => jobs = <<>>
    /\ jobs # <<>> => Tail(jobs) = <<>> /\ Fits(Wanted)
    /\ turn # 0 => \A m \in Models : m < turn /\ running[m] # Off => running[m].ip = Wanted[m].ip
    /\ ~Allocating /\ jobs = <<>> => Fits(running)

TInv == late \in Nat /\ InTime

\* A lone reconciliation.
LEMMA PutAlone ==
  ASSUME NEW w \in AnyConfigs
  PROVE  LET q == Append(<<>>, w) IN q # <<>> /\ Tail(q) = <<>> /\ Head(q) = w
OBVIOUS

\* A reconciliation is submitted when there is none.
LEMMA SubmitInTime ==
  ASSUME SInv, late = 0, jobs = <<>>, NEW w \in AnyConfigs, Submit(w), Fits(w), UNCHANGED <<running, turn, conf>>
  PROVE  InTime'
<1>1. jobs' = Append(<<>>, w) /\ pc' \in {"wait", "wait_off"}
  BY DEF Submit
<1>2. jobs' # <<>> /\ Tail(jobs') = <<>> /\ Wanted' = w
  BY <1>1, PutAlone DEF Wanted
<1>3. turn' = 0
  BY DEF SInv, Begun
<1>4. Fits(w)'
  BY DEF Fits
<1>5. QED
  BY <1>1, <1>2, <1>3, <1>4 DEF InTime, Fits

\* No virtual printer wanted fits any claims.
LEMMA FitsAllOff == Fits(AllOff)
BY RealAllOff DEF Fits

\* Every step keeps to the configuration, or to the reconciliation on its way to it.
LEMMA StepTInv == IInv /\ SInv /\ RInv /\ TInv /\ [Next]_vars => TInv'
<1> SUFFICES ASSUME IInv, SInv, RInv, TInv, [Next]_vars PROVE TInv'
  OBVIOUS
<1>1. late' \in Nat /\ (late' = 0 => late = 0 /\ ~TimesOut)
  <2>1. CASE TimesOut
    BY <2>1 DEF TimesOut, TInv
  <2>2. CASE ~TimesOut
    <3>1. UNCHANGED late
      BY <2>2, NextCases DEF Pull, Post, Idle, EnsureSave, EnsureClaim, AllocateSave, NoSuchEntry, EnsureClaimed,
         Reclaim, Allocate, Reconcile, Mirror, Answered, StopAll, Begin, BeginFails, NotWanted, StartOrApply, Finish,
         Crash, CloudChange, vars
    <3>2. QED
      BY <2>2, <3>1 DEF TInv
  <2>3. QED
    BY <2>1, <2>2
<1> SUFFICES ASSUME late' = 0, late = 0, ~TimesOut PROVE InTime'
  BY <1>1 DEF TInv, InTime
<1>a. /\ pc \notin {"wait", "wait_off"} => jobs = <<>>
      /\ jobs # <<>> => Tail(jobs) = <<>> /\ Fits(Wanted)
      /\ turn # 0 => \A m \in Models : m < turn /\ running[m] # Off => running[m].ip = Wanted[m].ip
      /\ ~Allocating /\ jobs = <<>> => Fits(running)
      /\ jobs = <<>> => turn = 0
  BY DEF TInv, InTime, SInv, Begun
<1>2. CASE AddressStep
  <2>1. UNCHANGED <<jobs, turn>> /\ Allocating'
    BY <1>2, AddressStepHandled DEF RInv, loopVars
  <2>2. pc \notin {"wait", "wait_off"}
    BY <1>2 DEF AddressStep, Pull, EnsureSave, EnsureClaim, AllocateSave, NoSuchEntry, EnsureClaimed, Reclaim, Allocate
  <2>3. jobs' = <<>> /\ turn' = 0
    BY <1>a, <2>1, <2>2
  <2>4. QED
    BY <2>1, <2>3 DEF InTime
<1>3. CASE Post \/ (\E m \in Models, a \in Ips \cup {Nil, Absent} : CloudChange(m, a)) \/ UNCHANGED vars \/ Idle
  <2>1. UNCHANGED <<conf, running, jobs, turn, pc>>
    BY <1>3 DEF Post, CloudChange, Idle, vars, beatVars, loopVars
  <2>2. QED
    BY <1>a, <2>1 DEF InTime, Fits, Wanted, Allocating
<1>4. CASE Reconcile
  <2>1. UNCHANGED <<running, turn, conf>> /\ pc = "alloc" /\ jobs = <<>> /\ turn = 0
    BY <1>4, <1>a DEF Reconcile
  <2>2. CASE ~loop /\ pc' = "beat" /\ UNCHANGED jobs
    <3>1. running' = AllOff
      BY <2>1, <2>2 DEF RInv, LoopUp
    <3>2. Fits(running)'
      BY <3>1, RealAllOff DEF Fits
    <3>3. QED
      BY <2>1, <2>2, <3>2 DEF InTime
  <2>3. CASE Submit(Parsed)
    <3>1. Parsed \in AnyConfigs
      BY DEF IInv, AddressTypes, Parsed, Off, AnyConfigs
    <3>2. Fits(Parsed)
      BY DEF Fits, Parsed
    <3>3. QED
      BY <2>1, <2>3, <3>1, <3>2, SubmitInTime
  <2>4. QED
    BY <1>4, <2>2, <2>3 DEF Reconcile
<1>5. CASE Mirror
  <2>1. UNCHANGED <<running, turn, conf>> /\ pc = "beat" /\ jobs = <<>> /\ turn = 0 /\ Submit(Mirrored)
    BY <1>5, <1>a DEF Mirror
  <2>2. Mirrored \in AnyConfigs
    BY DEF SInv, ConfigTypes, Mirrored, Off, AnyConfigs
  <2>3. Fits(snap)
    BY <1>a, <2>1 DEF Allocating, SInv, SnapshotHonest
  <2>4. Fits(Mirrored)
    BY <2>3 DEF Fits, Mirrored, SInv, ConfigTypes, AnyConfigs
  <2>5. QED
    BY <2>1, <2>2, <2>4, SubmitInTime
<1>6. CASE Answered
  <2>1. jobs = <<>> /\ pc \in {"wait", "wait_off"} /\ pc' = "beat" /\ UNCHANGED <<conf, running, jobs, turn>>
    BY <1>6 DEF Answered
  <2>2. QED
    BY <1>a, <2>1 DEF InTime, Fits, Allocating
<1>7. CASE StopAll \/ BeginFails
  <2>1. /\ jobs # <<>> /\ turn' = 0 /\ jobs' = Tail(jobs) /\ running' = AllOff
    BY <1>7 DEF StopAll, BeginFails, RInv, LoopUp
  <2>2. jobs' = <<>> /\ Fits(running)'
    BY <1>a, <2>1, RealAllOff DEF Fits
  <2>3. QED
    BY <2>1, <2>2 DEF InTime
<1>8. CASE Begin
  <2>1. jobs # <<>> /\ turn' = 1 /\ UNCHANGED <<conf, jobs, pc>> /\ \A m \in Models : ~(m < 1)
    BY <1>8 DEF Begin, beatVars, Models
  <2>2. QED
    BY <1>a, <2>1 DEF InTime, Fits, Wanted
<1>9. CASE NotWanted \/ StartOrApply
  <2>1. /\ turn \in Models /\ turn' = turn + 1 /\ jobs # <<>>
        /\ \A m \in Models : m # turn => running'[m] = running[m]
        /\ \/ Wanted[turn] = Off /\ running'[turn] = running[turn]
           \/ running'[turn] = Off
           \/ running'[turn] = Wanted[turn]
        /\ UNCHANGED <<conf, pc, jobs>>
    BY <1>9, TurnDoes DEF SInv, beatVars
  <2>2. turn # 0 /\ Wanted' = Wanted /\ \A m \in Models : m < turn + 1 => m = turn \/ (m < turn /\ m # turn)
    BY <2>1 DEF Models, Wanted
  <2>3. running'[turn] # Off => running'[turn].ip = Wanted[turn].ip
    BY <2>1, <2>2 DEF RInv, InTurn
  <2>4. \A m \in Models : m < turn' /\ running'[m] # Off => running'[m].ip = Wanted'[m].ip
    BY <1>a, <2>1, <2>2, <2>3
  <2>5. QED
    BY <1>a, <2>1, <2>2, <2>4 DEF InTime, Fits
<1>10. CASE Finish
  <2>1. /\ turn = N + 1 /\ turn # 0 /\ turn' = 0 /\ jobs' = Tail(jobs) /\ jobs # <<>> /\ UNCHANGED <<conf, running, pc>>
    BY <1>10 DEF Finish, beatVars, SInv, Begun
  <2>2. jobs' = <<>>
    BY <1>a, <2>1
  <2>3. ASSUME NEW m \in Models, running[m] # Off PROVE running[m].ip = conf[m]
    <3>1. m < turn
      BY <2>1 DEF Models
    <3>2. running[m].ip = Wanted[m].ip /\ Wanted[m] # Off
      BY <1>a, <2>1, <2>3, <3>1 DEF RInv, InTurn
    <3>3. QED
      BY <1>a, <2>1, <3>2 DEF Fits
  <2>4. Fits(running)'
    BY <2>1, <2>3 DEF Fits
  <2>5. QED
    BY <2>1, <2>2, <2>4 DEF InTime
<1>11. CASE Crash
  <2>1. running' = AllOff /\ jobs' = <<>> /\ turn' = 0
    BY <1>11 DEF Crash
  <2>2. Fits(running)'
    BY <2>1, RealAllOff DEF Fits
  <2>3. QED
    BY <2>1, <2>2 DEF InTime
<1>12. QED
  BY <1>2, <1>3, <1>4, <1>5, <1>6, <1>7, <1>8, <1>9, <1>10, <1>11, NextCases DEF AddressStep

\* TInv holds initially.
LEMMA InitTInv == Init => TInv
<1> SUFFICES ASSUME Init PROVE TInv
  OBVIOUS
<1>1. late = 0 /\ jobs = <<>> /\ turn = 0 /\ running = AllOff
  BY DEF Init
<1>2. QED
  BY <1>1, FitsAllOff DEF TInv, InTime

\* When nothing is under way, no virtual printer runs that the last configuration does
\* not have, or on another address, whatever commands and servers failed and whenever the
\* process died, as long as no reconciliation outlived its time-out (reconcile_sync).
THEOREM NoOldConfig == Spec => []LatestConfigRuns
<1>1. TInv => LatestConfigRuns
  BY DEF TInv, InTime, LatestConfigRuns, AtRest, Allocating, Fits
<1>2. QED
  BY <1>1, InitIInv, NextIInv, InitSInv, NextSInv, InitRInv, StepRInv, InitTInv, StepTInv, PTL DEF Spec

-------------------------------------------------------------------------------
(* What the cloud is told.  Between a pull and the next change the cloud's configuration
   is the pulled one; an address that it left open is in the heartbeat's reports, until
   the heartbeat that carries it. *)

\* An entry that is not handled yet is the cloud's.
Pulled == Allocating => current /\ \A m \in Models : m > at \/ (m = at /\ pc # "bind") => conf[m] = cloud[m]

\* An address the hub chose for an entry that is handled.
Told ==
  current =>
    \A m \in Models :
      cloud[m] = Nil /\ conf[m] \in Ips /\ (Allocating => m < at)
      => reports[m] = conf[m] \/ \E k \in Models : cloud[k] = conf[m]

CInv == Pulled /\ Told

\* What the steps of one entry tell.
LEMMA AddressTells ==
  ASSUME IInv, Pulled, AddressStep, ~Pull
  PROVE  /\ UNCHANGED <<cloud, current>>
         /\ at' = at + 1 /\ cloud[at] = Nil /\ conf'[at] \in Ips => reports'[at] = conf'[at]
         /\ \A m \in Models \ {at} : reports'[m] = reports[m]
         /\ at' = at => conf'[at] = conf[at] \/ pc' = "bind"
         /\ at' = at /\ pc = "bind" => pc' = "bind"
<1>1. at \in Models /\ Allocating /\ at + 1 # at
  BY DEF AddressStep, EnsureSave, EnsureClaim, AllocateSave, NoSuchEntry, EnsureClaimed, Reclaim, Allocate,
         Allocating, IInv, EntryUnderWay, Models
<1>2. UNCHANGED <<cloud, current>>
  BY DEF AddressStep, EnsureSave, EnsureClaim, AllocateSave, NoSuchEntry, EnsureClaimed, Reclaim, Allocate, cloudVars
<1>3. \A m \in Models \ {at} : reports'[m] = reports[m]
  BY DEF AddressStep, EnsureSave, EnsureClaim, AllocateSave, NoSuchEntry, EnsureClaimed, Reclaim, Allocate,
         IInv, AddressTypes
<1>4. ASSUME at' = at + 1, cloud[at] = Nil, conf'[at] \in Ips PROVE reports'[at] = conf'[at]
  <2>1. CASE NoSuchEntry(at)
    BY <1>4, <2>1 DEF NoSuchEntry
  <2>2. CASE EnsureClaim
    <3>1. conf[at] = Nil
      BY <1>1, <1>4, <2>2 DEF Pulled, EnsureClaim
    <3>2. QED
      BY <2>2, <3>1 DEF EnsureClaim, IInv, EntryUnderWay
  <2>3. CASE AllocateSave
    BY <1>1, <2>3 DEF AllocateSave, IInv, AddressTypes
  <2>4. CASE Reclaim(at)
    BY <1>1, <1>4, <2>4 DEF Reclaim, IInv, AddressTypes
  <2>5. CASE Allocate(at)
    BY <1>1, <1>4, <2>5 DEF Allocate, IInv, AddressTypes
  <2>6. CASE EnsureSave \/ EnsureClaimed(at)
    BY <1>1, <1>4, <2>6 DEF EnsureSave, EnsureClaimed
  <2>7. QED
    BY <2>1, <2>2, <2>3, <2>4, <2>5, <2>6 DEF AddressStep
<1>5. at' = at => conf'[at] = conf[at] \/ pc' = "bind"
  BY <1>1 DEF AddressStep, EnsureSave, EnsureClaim, AllocateSave, NoSuchEntry, EnsureClaimed, Reclaim, Allocate
<1>6. at' = at /\ pc = "bind" => pc' = "bind"
  BY <1>1 DEF AddressStep, EnsureSave, EnsureClaim, AllocateSave, NoSuchEntry, EnsureClaimed, Reclaim, Allocate
<1>7. QED
  BY <1>2, <1>3, <1>4, <1>5, <1>6

\* Handling one entry.
LEMMA AddressCInv ==
  ASSUME IInv, RInv, GInv, CInv, AddressStep PROVE CInv'
<1>1. Allocating' /\ at' \in 1 .. N + 1
  BY AddressStepHandled DEF RInv, Handled
<1>2. CASE Pull
  <2>1. at' = 1 /\ pc' = "alloc" /\ conf' = cloud /\ cloud' = cloud /\ current' = TRUE
    BY <1>2 DEF Pull
  <2>2. \A m \in Models : ~(m < 1)
    BY DEF Models
  <2>3. QED
    BY <1>1, <2>1, <2>2 DEF CInv, Pulled, Told
<1>3. CASE ~Pull
  <2>1. /\ at \in Models /\ at' \in {at, at + 1} /\ Allocating
        /\ \A m \in Models \ {at} : conf'[m] = conf[m]
    BY <1>3, AddressDoes DEF GInv
  <2>2. /\ UNCHANGED <<cloud, current>>
        /\ at' = at + 1 /\ cloud[at] = Nil /\ conf'[at] \in Ips => reports'[at] = conf'[at]
        /\ \A m \in Models \ {at} : reports'[m] = reports[m]
        /\ at' = at => conf'[at] = conf[at] \/ pc' = "bind"
        /\ at' = at /\ pc = "bind" => pc' = "bind"
    BY <1>3, AddressTells DEF CInv
  <2>3. current /\ \A m \in Models : m > at \/ (m = at /\ pc # "bind") => conf[m] = cloud[m]
    BY <2>1 DEF CInv, Pulled
  <2>4. Pulled'
    <3>1. SUFFICES ASSUME NEW m \in Models, m > at' \/ (m = at' /\ pc' # "bind") PROVE conf'[m] = cloud[m]
      BY <2>2, <2>3 DEF Pulled
    <3>2. CASE m = at
      <4>1. at' = at /\ pc' # "bind"
        BY <2>1, <3>1, <3>2 DEF Models
      <4>2. QED
        BY <2>2, <2>3, <3>2, <4>1
    <3>3. CASE m # at
      <4>1. m > at /\ m \in Models \ {at}
        BY <2>1, <3>1, <3>3 DEF Models
      <4>2. QED
        BY <2>1, <2>3, <4>1
    <3>4. QED
      BY <3>2, <3>3
  <2>5. Told'
    <3>1. SUFFICES ASSUME NEW m \in Models, cloud[m] = Nil, conf'[m] \in Ips, m < at'
                   PROVE  reports'[m] = conf'[m] \/ \E k \in Models : cloud[k] = conf'[m]
      BY <1>1, <2>2 DEF Told
    <3>2. CASE m = at
      <4>1. at' = at + 1
        BY <2>1, <3>1, <3>2 DEF Models
      <4>2. QED
        BY <2>2, <3>1, <3>2, <4>1
    <3>3. CASE m # at
      <4>1. m < at /\ m \in Models \ {at}
        BY <2>1, <3>1, <3>3 DEF Models
      <4>2. QED
        BY <2>1, <2>2, <2>3, <3>1, <4>1 DEF CInv, Told
    <3>4. QED
      BY <3>2, <3>3
  <2>6. QED
    BY <2>4, <2>5 DEF CInv
<1>4. QED
  BY <1>2, <1>3

\* Every step keeps the cloud informed.
LEMMA StepCInv == IInv /\ RInv /\ GInv /\ CInv /\ [Next]_vars => CInv'
<1> SUFFICES ASSUME IInv, RInv, GInv, CInv, [Next]_vars PROVE CInv'
  OBVIOUS
<1>1. CASE AddressStep
  BY <1>1, AddressCInv
<1>2. CASE TimesOut \/ Mirror \/ Answered \/ StopAll \/ Begin \/ BeginFails \/ NotWanted \/ StartOrApply \/ Finish
           \/ UNCHANGED vars \/ Idle
  <2>1. UNCHANGED <<cloud, current, conf, at, reports>> /\ (pc' = pc \/ (~Allocating /\ ~Allocating'))
    BY <1>2 DEF TimesOut, Mirror, Submit, Answered, StopAll, Begin, BeginFails, NotWanted, StartOrApply, Finish, Idle,
       vars, cloudVars, beatVars, Allocating
  <2>2. QED
    BY <2>1 DEF CInv, Pulled, Told, Allocating
<1>3. CASE Reconcile
  <2>1. /\ UNCHANGED <<cloud, current, conf, at, reports>> /\ at = N + 1 /\ Allocating /\ ~Allocating'
    BY <1>3 DEF Reconcile, Submit, cloudVars, Allocating
  <2>2. \A m \in Models : m < at
    BY <2>1 DEF Models
  <2>3. QED
    BY <2>1, <2>2 DEF CInv, Pulled, Told
<1>4. CASE \E m \in Models, a \in Ips \cup {Nil, Absent} : CloudChange(m, a)
  <2>1. current' = FALSE /\ ~Allocating'
    BY <1>4 DEF CloudChange, beatVars, Allocating
  <2>2. QED
    BY <2>1 DEF CInv, Pulled, Told
<1>5. CASE Post
  <2>1. /\ pc = "beat" /\ ~Allocating /\ ~Allocating' /\ UNCHANGED conf
        /\ cloud' = [m \in Models |->
             IF cloud[m] = Nil /\ \A k \in Models : cloud[k] # reports[m] THEN reports[m] ELSE cloud[m]]
        /\ current' => current /\ cloud' = cloud
    BY <1>5 DEF Post, Allocating
  <2>2. SUFFICES ASSUME current', NEW m \in Models, cloud'[m] = Nil, conf[m] \in Ips
                 PROVE  \E k \in Models : cloud'[k] = conf[m]
    BY <2>1 DEF CInv, Pulled, Told
  <2>3. cloud' = cloud /\ cloud[m] = Nil /\ (reports[m] = conf[m] \/ \E k \in Models : cloud[k] = conf[m])
    BY <2>1, <2>2 DEF CInv, Told
  <2>4. reports[m] = conf[m] => \E k \in Models : cloud[k] = reports[m]
    BY <2>1, <2>2, <2>3
  <2>5. QED
    BY <2>3, <2>4
<1>6. CASE Crash
  <2>1. current' = FALSE /\ ~Allocating'
    BY <1>6 DEF Crash, Allocating
  <2>2. QED
    BY <2>1 DEF CInv, Pulled, Told
<1>7. QED
  BY <1>1, <1>2, <1>3, <1>4, <1>5, <1>6, NextCases DEF AddressStep

\* CInv holds initially.
LEMMA InitCInv == Init => CInv
BY DEF Init, CInv, Pulled, Told, Allocating

\* A virtual printer the hub chose the address for is known to the cloud or on its way
\* there, restarts included, unless the cloud has that address down for another model
\* (pending_vp_bindings, vpBindings of the heartbeat), as long as no reconciliation
\* outlived its time-out.
THEOREM CloudIsTold == Spec => []CloudLearns
<1>1. RInv /\ TInv /\ CInv => CloudLearns
  <2> SUFFICES ASSUME RInv, TInv, CInv, AtRest, current, late = 0,
                      NEW m \in Models, running[m] # Off, cloud[m] = Nil
               PROVE  running[m].ip = reports[m] \/ \E k \in Models : running[m].ip = cloud[k]
    BY DEF CloudLearns
  <2>1. ~Allocating /\ running[m].ip = conf[m]
    BY DEF AtRest, Allocating, TInv, InTime, Fits
  <2>2. conf[m] \in Ips
    BY <2>1 DEF RInv, Real, RealSet
  <2>3. QED
    BY <2>1, <2>2 DEF CInv, Told
<1>2. QED
  BY <1>1, InitIInv, NextIInv, InitSInv, NextSInv, InitRInv, StepRInv, InitGInv, StepGInv, InitTInv, StepTInv,
     InitCInv, StepCInv, PTL DEF Spec

-------------------------------------------------------------------------------
(* The types, and that no two virtual printers share an address. *)

\* No other virtual printer runs on, or is left with, the address of one that runs.
Alone == \A m, k \in Models : running[m] # Off /\ running[m].ip = running[k].ip => m = k

\* What the types need beyond the other invariants.
Limits ==
  /\ pc \in {"beat", "wait", "wait_off"} \cup {"alloc", "save", "claim", "bind"}
  /\ pc \in {"beat", "wait", "wait_off"} => at = N + 1
  /\ leaked \subseteq iface /\ torn \subseteq Ips
  /\ Alone

\* A turn starts nothing on the address of another one.
LEMMA TurnAlone == ASSUME SInv, RInv, Alone, NotWanted \/ StartOrApply PROVE Alone'
<1>1. /\ turn \in Models /\ jobs # <<>> /\ Wanted \in AnyConfigs
      /\ \A m \in Models : m # turn => running'[m] = running[m]
  BY TurnDoes DEF SInv
<1>2. \/ running'[turn] = running[turn]
      \/ running'[turn] = Off
      \/ /\ Wanted[turn] # Off /\ running'[turn] = Wanted[turn]
         /\ running[turn].ip = Wanted[turn].ip \/ CanStart(turn)
  BY <1>1 DEF NotWanted, StartOrApply, SInv, ConfigTypes, AnyConfigs
<1>3. Wanted[turn] # Off => Wanted[turn].ip \in Ips
  BY <1>1, WantedReal DEF SInv, RInv, RealSet
<1>4. \A m \in Models : running[m] # Off => running[m].ip # Off.ip
  BY DEF RInv, Real, RealSet, Off
<1>5. CASE running'[turn] = running[turn]
  BY <1>1, <1>5 DEF Alone
<1>6. CASE running'[turn] = Off
  BY <1>1, <1>4, <1>6 DEF Alone
<1>7. CASE /\ Wanted[turn] # Off /\ running'[turn] = Wanted[turn]
           /\ running[turn].ip = Wanted[turn].ip \/ CanStart(turn)
  <2>1. \A k \in Models \ {turn} : running[k].ip # Wanted[turn].ip
    <3>1. CASE CanStart(turn)
      BY <3>1 DEF CanStart
    <3>2. CASE running[turn].ip = Wanted[turn].ip
      <4>1. running[turn] # Off
        BY <1>3, <1>7, <3>2 DEF Off
      <4>2. QED
        BY <1>1, <3>2, <4>1 DEF Alone
    <3>3. QED
      BY <1>7, <3>1, <3>2
  <2>2. QED
    BY <1>1, <1>7, <2>1 DEF Alone
<1>8. QED
  BY <1>2, <1>5, <1>6, <1>7

\* Every step keeps them.
LEMMA NextLimits == IInv /\ SInv /\ RInv /\ GInv /\ Limits /\ [Next]_vars => Limits'
<1> SUFFICES ASSUME IInv, SInv, RInv, GInv, Limits, [Next]_vars PROVE Limits'
  OBVIOUS
<1>a. iface \subseteq Ips /\ \A m \in Models : bindings[m] \in Ips \cup {Nil}
  BY DEF IInv, AddressTypes
<1>1. ASSUME UNCHANGED running PROVE Alone'
  BY <1>1 DEF Limits, Alone
<1>2. ASSUME UNCHANGED addrVars PROVE leaked' \subseteq iface' /\ torn' \subseteq Ips
  BY <1>2 DEF addrVars, Limits
<1>3. CASE AddressStep
  <2>1. UNCHANGED running /\ pc' \in {"alloc", "save", "claim", "bind"}
    BY <1>3 DEF AddressStep, Pull, EnsureSave, EnsureClaim, AllocateSave, NoSuchEntry, EnsureClaimed, Reclaim,
                Allocate, loopVars
  <2>2. leaked' \subseteq iface' /\ torn' \subseteq Ips
    <3>1. CASE Pull \/ EnsureSave \/ AllocateSave \/ NoSuchEntry(at)
      BY <3>1 DEF Pull, EnsureSave, AllocateSave, NoSuchEntry, addrVars, Limits
    <3>2. CASE EnsureClaim \/ Reclaim(at) \/ Allocate(at)
      BY <3>2 DEF EnsureClaim, Reclaim, Allocate, Claim, Limits
    <3>3. CASE at \in Models /\ EnsureClaimed(at)
      BY <1>a, <3>3 DEF EnsureClaimed, Release, Limits
    <3>4. QED
      BY <1>3, <3>1, <3>2, <3>3 DEF AddressStep
  <2>3. QED
    BY <1>1, <2>1, <2>2 DEF Limits
<1>4. CASE Post \/ TimesOut \/ (\E m \in Models, a \in Ips \cup {Nil, Absent} : CloudChange(m, a))
  <2>1. UNCHANGED <<addrVars, running, at>> /\ pc' \in {pc, "beat"} /\ pc \in {"beat", "wait", "wait_off"}
    BY <1>4 DEF Post, TimesOut, CloudChange, beatVars, loopVars
  <2>2. QED
    BY <1>1, <1>2, <2>1 DEF Limits
<1>5. CASE Reconcile \/ Mirror \/ Answered
  <2>1. /\ UNCHANGED <<addrVars, running, at>> /\ pc' \in {"beat", "wait", "wait_off"}
        /\ pc \in {"beat", "wait", "wait_off"} \/ at = N + 1
    BY <1>5 DEF Reconcile, Mirror, Answered, Submit
  <2>2. QED
    BY <1>1, <1>2, <2>1 DEF Limits
<1>6. CASE StopAll \/ Begin \/ BeginFails \/ NotWanted \/ StartOrApply \/ Finish
  <2>1. UNCHANGED <<addrVars, at, pc>>
    BY <1>6 DEF StopAll, Begin, BeginFails, NotWanted, StartOrApply, Finish, beatVars
  <2>2. Alone'
    <3>1. CASE StopAll
      BY <3>1, RealAllOff DEF StopAll, Alone
    <3>2. CASE Begin
      <4>1. \A m \in Models : running'[m] \in {Off, running[m]}
        BY <3>2 DEF Begin
      <4>2. \A m \in Models : running[m] # Off => running[m].ip # Off.ip
        BY DEF RInv, Real, RealSet, Off
      <4>3. QED
        BY <4>1, <4>2 DEF Limits, Alone
    <3>3. CASE NotWanted \/ StartOrApply
      BY <3>3, TurnAlone DEF Limits
    <3>4. CASE BeginFails \/ Finish
      BY <1>1, <3>4 DEF BeginFails, Finish
    <3>5. QED
      BY <1>6, <3>1, <3>2, <3>3, <3>4
  <2>3. QED
    BY <1>2, <2>1, <2>2 DEF Limits
<1>7. CASE Crash
  <2>1. pc' = "beat" /\ at' = N + 1 /\ torn' = {} /\ running' = AllOff
    BY <1>7 DEF Crash
  <2>2. leaked' \subseteq iface'
    BY <1>7 DEF Crash, Limits, GInv, Claimed
  <2>3. QED
    BY <2>1, <2>2, RealAllOff DEF Limits, Alone
<1>8. CASE UNCHANGED vars \/ Idle
  <2>1. UNCHANGED <<addrVars, running, at, pc>>
    BY <1>8 DEF vars, Idle, beatVars, loopVars
  <2>2. QED
    BY <1>1, <1>2, <2>1 DEF Limits
<1>9. QED
  BY <1>3, <1>4, <1>5, <1>6, <1>7, <1>8, NextCases DEF AddressStep

\* The types of VpHost: runtimes exist only while the loop thread and the SSDP listener do
\* and never share an address, whatever is late, fails or dies: a start on an address another
\* one listens on fails, and a hot apply stays on its own (_start_fresh_locked, apply_hot).
THEOREM TypesHold == Spec => []TypeOK
<1>1. Init => Limits
  BY RealAllOff DEF Init, Limits, Alone
<1>2. ASSUME NEW w \in AnyConfigs, RealSet(w) PROVE w \in [Models -> Configs]
  BY <1>2 DEF AnyConfigs, RealSet, Configs, Off
<1>3. IInv /\ SInv /\ RInv /\ Limits => TypeOK
  <2> SUFFICES ASSUME IInv, SInv, RInv, Limits PROVE TypeOK
    OBVIOUS
  <2>1. running \in [Models -> Configs] /\ snap \in [Models -> Configs]
    BY <1>2 DEF SInv, ConfigTypes, RInv, Real
  <2>2. jobs \in Seq([Models -> Configs])
    <3>1. jobs \in Seq(AnyConfigs)
      BY DEF SInv, ConfigTypes
    <3>2. \A i \in 1 .. Len(jobs) : jobs[i] \in AnyConfigs
      BY <3>1
    <3>3. \A i \in 1 .. Len(jobs) : jobs[i] \in [Models -> Configs]
      BY <1>2, <3>2 DEF RInv, Real
    <3>4. QED
      BY <3>1, <3>3, SeqDef
  <2>3. /\ pc \in {"save", "claim", "bind"} => at \in Models
        /\ at \in 1 .. N + 1 /\ turn \in 0 .. N + 1 /\ (turn # 0 => jobs # <<>>)
        /\ running # AllOff => loop /\ ssdp
    BY DEF IInv, EntryUnderWay, SInv, ConfigTypes, Begun, RInv, Handled, LoopUp
  <2>4. \A m, k \in Models : running[m].ip = running[k].ip /\ running[m] # Off => m = k
    BY DEF Limits, Alone
  <2>5. QED
    BY <2>1, <2>2, <2>3, <2>4 DEF IInv, AddressTypes, Limits, TypeOK
<1>4. QED
  BY <1>1, <1>3, InitIInv, NextIInv, InitSInv, NextSInv, InitRInv, StepRInv, InitGInv, StepGInv, NextLimits,
     PTL DEF Spec
===============================================================================
