-------------------------- MODULE MCSignalGeneration --------------------------
(***************************************************************************)
(* Instances of SignalGeneration.                                          *)
(***************************************************************************)
EXTENDS SignalGeneration
=============================================================================
