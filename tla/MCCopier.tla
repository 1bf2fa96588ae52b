-------------------------------- MODULE MCCopier --------------------------------
(***************************************************************************)
(* Instances of Copier.                                                    *)
(***************************************************************************)
EXTENDS Copier

NoOverride == [s \in Signals |-> 0]

\* Once two have sized from one reading CapHolds says nothing, and once an answer is lost
\* OneOrder says nothing: after both there is nothing left to check.
Claimed == ~raced \/ lost = 0
=============================================================================
