------------------------------ MODULE MCPrintJobs ------------------------------
(* Instances of PrintJobs for TLC. *)
EXTENDS PrintJobs
===============================================================================
