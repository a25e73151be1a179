------------------------------- MODULE MCVpHost -------------------------------
(* Instances of VpHost for TLC. *)
EXTENDS VpHost, TLC

CONSTANTS i1, i2, i3

MCIps == {i1, i2, i3}

IpSymmetry == Permutations(MCIps)
===============================================================================
