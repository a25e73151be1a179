------------------------------- MODULE MCCameras -------------------------------
(* Instances of Cameras for TLC. *)
EXTENDS Cameras

MCTargets == <<"p1", "p2", "p3">>
MCSource == [p1 |-> "bambu-rtsp", p2 |-> "bambu-lan", p3 |-> "http-snapshot"]
===============================================================================
