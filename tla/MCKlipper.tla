------------------------------- MODULE MCKlipper -------------------------------
(* Instances of Klipper for TLC. *)
EXTENDS Klipper
===============================================================================
