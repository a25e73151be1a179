----------------------------- MODULE CaptureLedger -----------------------------
(***************************************************************************)
(* What the submission pipeline promises about jobs it has put on disk: an *)
(* entry is entered once its record is durable, may be closed (the cloud   *)
(* has the job, or the hub has refused it for good) at any time and for    *)
(* ever, and is struck out only when closed.  A crash changes nothing.     *)
(***************************************************************************)
CONSTANT Uids

VARIABLES
  entered,   \* jobs with a durable record
  closed     \* jobs whose fate is known

ledgerVars == <<entered, closed>>

Init == entered = {} /\ closed = {}

Enter(u) == entered' = entered \cup {u} /\ UNCHANGED closed

Close(u) == closed' = closed \cup {u} /\ UNCHANGED entered

\* The hub may learn that a job is refused and strike it out in one step.
StrikeOut(u) ==
  /\ entered' = entered \ {u}
  /\ closed' \in {closed, closed \cup {u}}
  /\ u \in closed'

Next == \E u \in Uids : Enter(u) \/ Close(u) \/ StrikeOut(u)

Spec == Init /\ [][Next]_ledgerVars
===============================================================================
