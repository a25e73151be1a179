------------------------------ MODULE MCVpSubmit ------------------------------
(* Instances of VpSubmit for TLC. *)
EXTENDS VpSubmit, TLC

CONSTANTS j1, j2

MCUids == {j1, j2}

UidSymmetry == Permutations(MCUids)
===============================================================================
