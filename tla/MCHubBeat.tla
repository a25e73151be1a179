------------------------------- MODULE MCHubBeat -------------------------------
(* HubBeat for TLC: two commands and a probe, one of which does not fit into an answer. *)
EXTENDS HubBeat

MCProbes == <<"p1">>
MCCommands == <<"c1", "c2">>
===============================================================================
