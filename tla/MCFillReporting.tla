---------------------------- MODULE MCFillReporting ----------------------------
(***************************************************************************)
(* Instances of FillReporting: every constant is a small set or a number,  *)
(* given in the .cfg files.                                                *)
(***************************************************************************)
EXTENDS FillReporting
=============================================================================
