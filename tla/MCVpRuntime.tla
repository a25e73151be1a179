------------------------------ MODULE MCVpRuntime ------------------------------
(* Instances of VpRuntime for TLC. *)
EXTENDS VpRuntime

CONSTANTS s1, s2, c1, c2, k1, k2

MCSends == {s1, s2}
MCConns == {c1, c2}
MCKeys == {k1, k2}

RuntimeSymmetry == Permutations(MCSends) \cup Permutations(MCConns) \cup Permutations(MCKeys)
===============================================================================
