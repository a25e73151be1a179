-------------------------------- MODULE VpHost --------------------------------
(***************************************************************************)
(* The virtual printers of a hub: the heartbeat thread pulls the cloud's   *)
(* configuration and puts an address on the interface for every virtual    *)
(* printer (agent.py, vprinter/ip_allocator.py), then has the supervisor   *)
(* on the virtual printers' loop thread bring the running ones in line     *)
(* (vprinter/manager.py).  It waits for that, but only so long.            *)
(*                                                                         *)
(* A virtual printer is its model: the cloud has one serial per model.  Of *)
(* a configuration two things matter: the address (the identity, whose     *)
(* change needs a restart) and the displayed pool (hot-applied).  An       *)
(* address stands for the pair of IP address and interface.                *)
(***************************************************************************)
EXTENDS Integers, Sequences

CONSTANTS
  N,            \* number of models
  Ips,          \* addresses
  Nil,          \* no address yet
  Absent,       \* not in the configuration
  Faults,       \* what may go wrong, see FaultKinds
  MaxChanges,   \* bound: changes of the configuration in the cloud
  MaxMishaps    \* bound: process deaths and reconciliations that outlive their time-out

\* "claim", "release": the privileged command fails; "start": servers or the SSDP
\* listener do not start.
FaultKinds == {"claim", "release", "start"}

ASSUME VpHostAssumption ==
  /\ N \in Nat \ {0}
  /\ Nil \notin Ips /\ Absent \notin Ips /\ Nil # Absent
  /\ Faults \subseteq FaultKinds
  /\ MaxChanges \in Nat /\ MaxMishaps \in Nat

Models == 1 .. N

VARIABLES
  cloud,     \* the cloud's virtualPrinters: per model its address, Nil or Absent
  current,   \* manager.config_version is the cloud's
  pc,        \* where the heartbeat thread stands
  conf,      \* the entries of the last pull, addresses filled in; Absent when left out
  at,        \* the model whose entry is being handled, N + 1 at the end
  bindings,  \* IpAllocator._bindings
  file,      \* vp-bindings.json
  iface,     \* addresses on the host's interfaces
  reports,   \* pending_vp_bindings: addresses to be reported
  loop,      \* the loop thread runs
  jobs,      \* reconciliations submitted to it, in the order of its lock
  turn,      \* 0: none begun; otherwise the model whose turn it is, N + 1 at the end
  ssdp,      \* the shared SSDP listener is up
  running,   \* supervisor.runtimes: per model its configuration, or Off
  snap,      \* the facade's current_configs and current_identities
  leaked,    \* history: addresses left on the interface with nothing to remember them
  torn,      \* history: addresses taken from the interface although bound to another model
  changes, crashes, late   \* counters of the bounded environment

cloudVars == <<cloud, current, changes>>
addrVars == <<bindings, file, iface, leaked, torn>>
beatVars == <<pc, conf, at, reports>>
loopVars == <<loop, jobs, turn, ssdp, running, snap>>
vars == <<cloudVars, addrVars, beatVars, loopVars, crashes, late>>

Off == [ip |-> Nil, pool |-> "cloud"]
AllOff == [m \in Models |-> Off]
NoIps == [m \in Models |-> Nil]
NoEntry == [m \in Models |-> Absent]

Distinct(c) == \A m, k \in Models : c[m] = c[k] /\ c[m] \in Ips => m = k

Init ==
  /\ cloud \in {c \in [Models -> Ips \cup {Nil, Absent}] : Distinct(c)}
  /\ current = FALSE
  /\ pc = "beat" /\ conf = NoEntry /\ at = N + 1 /\ reports = NoIps
  /\ bindings = NoIps /\ file = NoIps /\ iface = {} /\ leaked = {} /\ torn = {}
  /\ loop = FALSE /\ jobs = <<>> /\ turn = 0 /\ ssdp = FALSE
  /\ running = AllOff /\ snap = AllOff
  /\ changes = 0 /\ crashes = 0 /\ late = 0

-------------------------------------------------------------------------------
(* The cloud. *)

\* An admin adds, removes or moves a virtual printer.  The hub only looks between
\* its own activities, so a change in their midst is as good as one after them.
CloudChange(m, a) ==
  /\ pc = "beat"
  /\ changes < MaxChanges
  /\ cloud' = [cloud EXCEPT ![m] = a] /\ cloud' # cloud /\ Distinct(cloud')
  /\ changes' = changes + 1
  /\ current' = FALSE
  /\ UNCHANGED <<addrVars, beatVars, loopVars, crashes, late>>

\* A heartbeat is answered 200: the cloud stores the addresses it was told, if
\* still open and not another model's, and its configuration is another one.
Post ==
  /\ pc = "beat" /\ reports # NoIps
  /\ cloud' = [m \in Models |->
       IF cloud[m] = Nil /\ \A k \in Models : cloud[k] # reports[m] THEN reports[m] ELSE cloud[m]]
  /\ current' = (current /\ cloud' = cloud)
  /\ reports' = NoIps
  /\ UNCHANGED <<changes, addrVars, pc, conf, at, loopVars, crashes, late>>

-------------------------------------------------------------------------------
(* _pull_config and _allocate_vp_bind_ips on the heartbeat thread. *)

Pull ==
  /\ pc = "beat" /\ ~current
  /\ current' = TRUE
  /\ conf' = cloud /\ at' = 1
  /\ pc' = "alloc"
  /\ UNCHANGED <<cloud, changes, addrVars, reports, loopVars, crashes, late>>

\* The configuration has no entry for the model.
NoSuchEntry(m) ==
  /\ pc = "alloc" /\ conf[m] = Absent
  /\ at' = at + 1
  /\ UNCHANGED <<cloudVars, addrVars, pc, conf, reports, loopVars, crashes, late>>

\* _release_ip of what was bound to m.  It may be bound to another model as well.
Release(m, a) ==
  \/ /\ iface' = iface \ {a} /\ leaked' = leaked \ {a}
     /\ torn' = torn \cup {i \in {a} : \E k \in Models \ {m} : bindings[k] = i}
  \/ /\ "release" \in Faults
     /\ leaked' = leaked \cup ({a} \cap iface)
     /\ UNCHANGED <<iface, torn>>

\* Mutant: a changed binding does not release the old claim.
EnsureClaimedKeeping(m) ==
  /\ pc = "alloc" /\ conf[m] \in Ips
  /\ bindings' = [bindings EXCEPT ![m] = conf[m]]
  /\ pc' = "save"
  /\ UNCHANGED <<cloudVars, file, iface, leaked, torn, conf, at, reports, loopVars, crashes, late>>

\* ensure_claimed: the entry names its address.  A changed binding is released
\* first, then the new one is persisted, then claimed.
EnsureClaimed(m) ==
  /\ pc = "alloc" /\ conf[m] \in Ips
  /\ \/ bindings[m] \in {Nil, conf[m]} /\ UNCHANGED <<iface, leaked, torn>>
     \/ bindings[m] \notin {Nil, conf[m]} /\ Release(m, bindings[m])
  /\ bindings' = [bindings EXCEPT ![m] = conf[m]]
  /\ pc' = "save"
  /\ UNCHANGED <<cloudVars, file, conf, at, reports, loopVars, crashes, late>>

EnsureSave ==
  /\ pc = "save"
  /\ file' = bindings
  /\ pc' = "claim"
  /\ UNCHANGED <<cloudVars, bindings, iface, leaked, torn, conf, at, reports, loopVars, crashes, late>>

\* _claim_ip: the address is on the interface, were it already there or not.
Claim(a) ==
  /\ iface' = iface \cup {a}
  /\ leaked' = leaked \ {a} /\ torn' = torn \ {a}

\* An entry whose claim failed is left out of this configuration.
EnsureClaim ==
  /\ pc = "claim"
  /\ \/ Claim(conf[at]) /\ UNCHANGED conf
     \/ "claim" \in Faults /\ conf' = [conf EXCEPT ![at] = Absent] /\ UNCHANGED <<iface, leaked, torn>>
  /\ at' = at + 1
  /\ pc' = "alloc"
  /\ UNCHANGED <<cloudVars, bindings, file, reports, loopVars, crashes, late>>

\* Mutant: only fresh allocations are reported.
ReclaimUnreported(m) ==
  /\ pc = "alloc" /\ conf[m] = Nil /\ bindings[m] # Nil
  /\ Claim(bindings[m])
  /\ conf' = [conf EXCEPT ![m] = bindings[m]]
  /\ at' = at + 1
  /\ UNCHANGED <<cloudVars, bindings, file, pc, reports, loopVars, crashes, late>>

\* allocate_for, the model has a binding: it is claimed again and reported, or, if
\* that fails, forgotten, and the entry is handled afresh.
Reclaim(m) ==
  /\ pc = "alloc" /\ conf[m] = Nil /\ bindings[m] # Nil
  /\ \/ /\ Claim(bindings[m])
        /\ conf' = [conf EXCEPT ![m] = bindings[m]]
        /\ reports' = [reports EXCEPT ![m] = bindings[m]]
        /\ at' = at + 1
        /\ UNCHANGED <<bindings, file>>
     \/ /\ "claim" \in Faults
        /\ bindings' = [bindings EXCEPT ![m] = Nil] /\ file' = bindings'
        /\ leaked' = leaked \cup {a \in iface : a = bindings[m] /\ \A k \in Models : bindings'[k] # a}
        /\ UNCHANGED <<iface, torn, conf, reports, at>>
  /\ UNCHANGED <<cloudVars, pc, loopVars, crashes, late>>

\* The candidates: any address no model is bound to may be found silent on the LAN.
Candidates == {a \in Ips : \A m \in Models : bindings[m] # a}

\* allocate_for, fresh: a candidate nobody answers for is claimed; or there is none.
Allocate(m) ==
  /\ pc = "alloc" /\ conf[m] = Nil /\ bindings[m] = Nil
  /\ \/ \E a \in Candidates :
          /\ Claim(a)
          /\ conf' = [conf EXCEPT ![m] = a]
          /\ pc' = "bind"
          /\ UNCHANGED at
     \/ /\ conf' = [conf EXCEPT ![m] = Absent]
        /\ at' = at + 1
        /\ UNCHANGED <<iface, leaked, torn, pc>>
  /\ UNCHANGED <<cloudVars, bindings, file, reports, loopVars, crashes, late>>

\* Only then is it remembered, and reported.
AllocateSave ==
  /\ pc = "bind"
  /\ bindings' = [bindings EXCEPT ![at] = conf[at]] /\ file' = bindings'
  /\ reports' = [reports EXCEPT ![at] = conf[at]]
  /\ at' = at + 1
  /\ pc' = "alloc"
  /\ UNCHANGED <<cloudVars, iface, leaked, torn, conf, loopVars, crashes, late>>

-------------------------------------------------------------------------------
(* VirtualPrinterManager.reconcile_sync. *)

Submit(want) ==
  /\ jobs' = Append(jobs, want) /\ loop' = TRUE
  /\ pc' = IF want = AllOff THEN "wait_off" ELSE "wait"

\* An entry without an address is ignored.
Parsed == [m \in Models |-> IF conf[m] = Absent THEN Off ELSE [ip |-> conf[m], pool |-> "cloud"]]

\* All entries are handled: the ones with an address are to run, or none.
Reconcile ==
  /\ pc = "alloc" /\ at = N + 1
  /\ \/ /\ conf = NoEntry /\ ~loop
        /\ pc' = "beat" /\ UNCHANGED <<jobs, loop>>
     \/ /\ conf # NoEntry \/ loop
        /\ Submit(Parsed)
  /\ UNCHANGED <<cloudVars, addrVars, conf, at, reports, turn, ssdp, running, snap, crashes, late>>

\* The configurations in the snapshot with the pools the printers have loaded.
Mirrored == [m \in Models |-> IF snap[m] = Off THEN Off ELSE [snap[m] EXCEPT !.pool = "live"]]

\* The live mirror reconciles to them if a pool has changed.
Mirror ==
  /\ pc = "beat" /\ Mirrored # snap
  /\ Submit(Mirrored)
  /\ UNCHANGED <<cloudVars, addrVars, conf, at, reports, turn, ssdp, running, snap, crashes, late>>

\* The future is done, with a result or an exception; without virtual printers
\* the loop thread is stopped.
Answered ==
  /\ pc \in {"wait", "wait_off"} /\ jobs = <<>>
  /\ pc' = "beat"
  /\ \/ pc = "wait" /\ UNCHANGED <<loop, snap>>
     \/ pc = "wait_off" /\ loop' = FALSE /\ snap' = AllOff
  /\ UNCHANGED <<cloudVars, addrVars, conf, at, reports, jobs, turn, ssdp, running, crashes, late>>

\* It is not done in 20 s: the heartbeat goes on, and so does the reconciliation.
TimesOut ==
  /\ pc \in {"wait", "wait_off"} /\ jobs # <<>>
  /\ crashes + late < MaxMishaps
  /\ late' = late + 1
  /\ pc' = "beat"
  /\ UNCHANGED <<cloudVars, addrVars, conf, at, reports, loopVars, crashes>>

-------------------------------------------------------------------------------
(* _AsyncMultiVirtualPrinterSupervisor, on the loop thread. *)

Wanted == Head(jobs)

StopAll ==
  /\ jobs # <<>> /\ turn = 0 /\ Wanted = AllOff
  /\ running' = AllOff /\ snap' = AllOff /\ ssdp' = FALSE
  /\ jobs' = Tail(jobs)
  /\ UNCHANGED <<cloudVars, addrVars, beatVars, loop, turn, crashes, late>>

\* Mutant: what is no longer wanted goes on.
BeginKeeping ==
  /\ jobs # <<>> /\ turn = 0 /\ Wanted # AllOff
  /\ ssdp' = TRUE
  /\ turn' = 1
  /\ UNCHANGED <<cloudVars, addrVars, beatVars, loop, jobs, running, snap, crashes, late>>

\* The SSDP listener is started if need be; what is no longer wanted is stopped.
Begin ==
  /\ jobs # <<>> /\ turn = 0 /\ Wanted # AllOff
  /\ ssdp' = TRUE
  /\ running' = [m \in Models |-> IF Wanted[m] = Off THEN Off ELSE running[m]]
  /\ turn' = 1
  /\ UNCHANGED <<cloudVars, addrVars, beatVars, loop, jobs, snap, crashes, late>>

\* The listener does not start: the whole reconciliation fails.
BeginFails ==
  /\ jobs # <<>> /\ turn = 0 /\ Wanted # AllOff
  /\ "start" \in Faults /\ ~ssdp
  /\ jobs' = Tail(jobs)
  /\ UNCHANGED <<cloudVars, addrVars, beatVars, loop, turn, ssdp, running, snap, crashes, late>>

\* Nothing to do for a model that is not to run.
NotWanted ==
  /\ turn \in Models /\ Wanted[turn] = Off
  /\ turn' = turn + 1
  /\ UNCHANGED <<cloudVars, addrVars, beatVars, loop, jobs, ssdp, running, snap, crashes, late>>

\* Servers start on an address the host has and no other runtime listens on.
CanStart(m) ==
  /\ Wanted[m].ip \in iface
  /\ \A k \in Models \ {m} : running[k].ip # Wanted[m].ip

\* Mutant: a changed identity is hot-applied.
StartOrApplyHot ==
  /\ turn \in Models /\ Wanted[turn] # Off
  /\ \/ /\ running[turn] # Off
        /\ running' = [running EXCEPT ![turn].pool = Wanted[turn].pool]
     \/ /\ running[turn] = Off /\ CanStart(turn)
        /\ running' = [running EXCEPT ![turn] = Wanted[turn]]
     \/ /\ running[turn] = Off /\ ("start" \in Faults \/ ~CanStart(turn))
        /\ UNCHANGED running
  /\ turn' = turn + 1
  /\ UNCHANGED <<cloudVars, addrVars, beatVars, loop, jobs, ssdp, snap, crashes, late>>

\* The same identity is hot-applied, even if the push to the slicer fails then;
\* another one is stopped and started afresh, and stays down if it does not start.
StartOrApply ==
  /\ turn \in Models /\ Wanted[turn] # Off
  /\ \/ /\ running[turn].ip = Wanted[turn].ip
        /\ running' = [running EXCEPT ![turn] = Wanted[turn]]
     \/ /\ running[turn].ip # Wanted[turn].ip /\ CanStart(turn)
        /\ running' = [running EXCEPT ![turn] = Wanted[turn]]
     \/ /\ running[turn].ip # Wanted[turn].ip /\ ("start" \in Faults \/ ~CanStart(turn))
        /\ running' = [running EXCEPT ![turn] = Off]
  /\ turn' = turn + 1
  /\ UNCHANGED <<cloudVars, addrVars, beatVars, loop, jobs, ssdp, snap, crashes, late>>

\* Mutant: the snapshot is what was asked for.
FinishAsked ==
  /\ turn = N + 1
  /\ snap' = Wanted
  /\ jobs' = Tail(jobs) /\ turn' = 0
  /\ UNCHANGED <<cloudVars, addrVars, beatVars, loop, ssdp, running, crashes, late>>

\* The snapshots for other threads are written.
Finish ==
  /\ turn = N + 1
  /\ snap' = running
  /\ jobs' = Tail(jobs) /\ turn' = 0
  /\ UNCHANGED <<cloudVars, addrVars, beatVars, loop, ssdp, running, crashes, late>>

-------------------------------------------------------------------------------
\* The process dies and is restarted; after a reboot the interfaces are bare.
Crash ==
  /\ crashes + late < MaxMishaps
  /\ crashes' = crashes + 1
  /\ iface' \in {iface, {}}
  /\ leaked' = IF iface' = {} THEN {} ELSE IF pc = "bind" THEN leaked \cup {conf[at]} ELSE leaked
  /\ bindings' = file
  /\ current' = FALSE
  /\ pc' = "beat" /\ conf' = NoEntry /\ at' = N + 1 /\ reports' = NoIps
  /\ loop' = FALSE /\ jobs' = <<>> /\ turn' = 0 /\ ssdp' = FALSE
  /\ running' = AllOff /\ snap' = AllOff
  /\ torn' = {}
  /\ UNCHANGED <<cloud, changes, file, late>>

\* A heartbeat that finds nothing new.
Idle == pc = "beat" /\ current /\ reports = NoIps /\ UNCHANGED vars

Heartbeat ==
  \/ Pull \/ Post \/ Idle
  \/ EnsureSave \/ EnsureClaim \/ AllocateSave
  \/ at \in Models /\ (NoSuchEntry(at) \/ EnsureClaimed(at) \/ Reclaim(at) \/ Allocate(at))
  \/ Reconcile \/ Mirror \/ Answered

Loop == StopAll \/ Begin \/ BeginFails \/ NotWanted \/ StartOrApply \/ Finish

Next ==
  \/ Heartbeat \/ Loop
  \/ TimesOut \/ Crash
  \/ \E m \in Models, a \in Ips \cup {Nil, Absent} : CloudChange(m, a)

Spec == Init /\ [][Next]_vars

-------------------------------------------------------------------------------
(* Properties. *)

Configs == [ip : Ips \cup {Nil}, pool : {"cloud", "live"}]

\* Types, and that runtimes exist only while the loop thread and the SSDP listener
\* do and never share an address.
TypeOK ==
  /\ cloud \in [Models -> Ips \cup {Nil, Absent}] /\ conf \in [Models -> Ips \cup {Nil, Absent}]
  /\ pc \in {"beat", "alloc", "save", "claim", "bind", "wait", "wait_off"}
  /\ at \in 1 .. N + 1 /\ (pc \in {"save", "claim", "bind"} => at \in Models)
  /\ pc \in {"beat", "wait", "wait_off"} => at = N + 1
  /\ bindings \in [Models -> Ips \cup {Nil}] /\ file \in [Models -> Ips \cup {Nil}]
  /\ reports \in [Models -> Ips \cup {Nil}]
  /\ iface \subseteq Ips /\ leaked \subseteq iface /\ torn \subseteq Ips
  /\ jobs \in Seq([Models -> Configs]) /\ turn \in 0 .. N + 1 /\ (turn # 0 => jobs # <<>>)
  /\ running \in [Models -> Configs] /\ snap \in [Models -> Configs]
  /\ running # AllOff => loop /\ ssdp
  /\ \A m, k \in Models : running[m].ip = running[k].ip /\ running[m] # Off => m = k

AtRest == pc = "beat" /\ jobs = <<>>

\* "the next start re-claims the same IP rather than leaking it": an address on
\* the interface is in the bindings file, so that a restarted process still knows
\* it, except the one being allocated; it is lost when the process dies just then,
\* when `ip addr del` failed, or when an address could not be claimed again.
NoLeak ==
  \A a \in iface : (\E m \in Models : file[m] = a) \/ a \in leaked \/ (pc = "bind" /\ a = conf[at])

\* "so the address actually EXISTS on an interface before the per-VP servers bind
\* it": a virtual printer that runs, when nothing is under way, is on an address
\* the host has, unless moving another model off it took it away.
OnRealAddress ==
  AtRest => \A m \in Models : running[m] # Off => running[m].ip \in iface \cup torn

\* When nothing is under way, no virtual printer runs that the last configuration
\* does not have, or on another address, whatever failed, unless a reconciliation
\* outlived its time-out: the mirror may then have put the old set back.
LatestConfigRuns ==
  AtRest /\ late = 0 => \A m \in Models : running[m] # Off => running[m].ip = conf[m]

\* "never serve a stale snapshot": between reconciliations the snapshot other
\* threads read is what runs, failed starts and failed reconciliations included.
SnapshotHonest == turn = 0 => snap = running

\* A virtual printer the hub chose the address for is known to the cloud or on its
\* way there, restarts included (vpBindings of the heartbeat), unless the cloud has
\* that address down for another model.
CloudLearns ==
  AtRest /\ current /\ late = 0 =>
    \A m \in Models :
      running[m] # Off /\ cloud[m] = Nil =>
        running[m].ip = reports[m] \/ \E k \in Models : running[m].ip = cloud[k]
===============================================================================
