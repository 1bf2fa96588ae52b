---------------------------- MODULE MCHealthMonitor ----------------------------
(***************************************************************************)
(* Instances of HealthMonitor.                                             *)
(***************************************************************************)
EXTENDS HealthMonitor
=============================================================================
