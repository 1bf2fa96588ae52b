------------------------------ MODULE MCStopMoves ------------------------------
(***************************************************************************)
(* Instances of StopMoves.  Two levels to a pip; the opening stop a pip    *)
(* behind the entry.                                                       *)
(***************************************************************************)
EXTENDS StopMoves

NoAsks == [m \in Messages |-> 0]

\* Providers asking for break-even, and for more room than the opening stop.
ToEntry  == [m \in Messages |-> 0]
MoreRoom == [m \in Messages |-> Floor]
=============================================================================
