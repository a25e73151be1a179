-------------------------------- MODULE Billing --------------------------------
(***************************************************************************)
(* The job records of one Bambu printer, the places they may be at, and    *)
(* what the agent promises of them to the cloud, which bills prints by     *)
(* them (printers/jobs.py).  PrintJobs is the machinery.                   *)
(*                                                                         *)
(* A print is its number.  A record carries, besides what the code puts in *)
(* it, the print it was opened on and the print on the printer when it was *)
(* closed (ghosts: no guard reads them).                                   *)
(***************************************************************************)
EXTENDS Integers, Sequences, SequencesExt

CONSTANTS
  MaxPending,   \* MAX_PENDING, the tracker's buffer cap
  PayloadMax,   \* the cap on jobs[] in heartbeat_payload
  MaxPrints     \* bound: prints in a behaviour

ASSUME BillingAssumption ==
  MaxPending \in Nat \ {0} /\ PayloadMax \in Nat \ {0} /\ MaxPrints \in Nat

VARIABLES
  prints,    \* the prints so far: [name, id (it has a task id), fate]
  tracker,   \* the adapter's JobTracker: [active, pending, last]
  orphans,   \* PrinterManager._orphan_jobs
  received,  \* job records the cloud has been sent, in order
  emitted,   \* history: records the tracker buffered
  lost,      \* history: records dropped by overflow, teardown or death
  ends       \* history: prints whose end an adapter saw

Keys == ({"task"} \X (1 .. MaxPrints)) \cup ({"fp"} \X Nat)
Records == [key : Keys, status : {"done", "failed", "cancelled"}, opened : 1 .. MaxPrints, ended : 1 .. MaxPrints]

\* "pending terminal jobs stay buffered until the agent confirms a heartbeat 200":
\* a record the tracker buffered has been sent, or is in the adapter's buffer or
\* among the orphans, unless the buffer overflowed, the process died, or it came
\* after the rescue from an adapter being torn down.
RecordsKept ==
  \A r \in emitted :
    \E s \in ToSet(received) \cup ToSet(orphans) \cup ToSet(tracker.pending) \cup lost :
      s.key = r.key /\ s.status = r.status

\* The cloud's rows: the first record it got under each job key.
Rows == {received[i] : i \in {k \in DOMAIN received : \A h \in 1 .. k - 1 : received[h].key # received[k].key}}

\* A row says "done" only of a print that finished, and no print has two such
\* rows, whatever restarts and rebuilds fell into it (_emit_recovered relies on
\* the task id being the same key before and after).  Rows that mix two prints
\* are those NoSilentMerge admits.
BilledOnce ==
  \A r \in Rows : r.status = "done" /\ r.opened = r.ended =>
    /\ prints[r.opened].fate = "FINISH"
    /\ \A s \in Rows : s.status = "done" /\ s.opened = r.opened /\ s.ended = r.ended => s.key = r.key

\* "We bias toward duplicates over silent merges": a record tells of one print
\* only, and two prints never share a job key, unless the hub saw nothing of the
\* first one's end.
NoSilentMerge ==
  /\ \A r \in emitted : r.status # "cancelled" /\ r.opened # r.ended => r.opened \notin ends
  /\ \A r, s \in emitted : r.key = s.key /\ r.opened < s.opened => r.opened \notin ends
===============================================================================
