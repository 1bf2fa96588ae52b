----------------------------- MODULE CommandMandate -----------------------------
(***************************************************************************)
(* What the command queue promises, whatever is lost, late or concurrent:  *)
(* an instruction goes out to a terminal only against a request made since *)
(* it last went out.  A request is a mandate for one hand-over; asking     *)
(* again while one is owed adds nothing, and a mandate can be withdrawn    *)
(* (by expiring, or by a late result) without any hand-over.               *)
(***************************************************************************)
EXTENDS Naturals

CONSTANT Keys

VARIABLES
    owed,    \* [Keys -> BOOLEAN]: a hand-over is owed
    handed   \* [Keys -> Nat]: hand-overs so far

mandate == <<owed, handed>>

Init == owed = [k \in Keys |-> FALSE] /\ handed = [k \in Keys |-> 0]

Ask(k) == owed' = [owed EXCEPT ![k] = TRUE] /\ UNCHANGED handed

Withdraw(batch) ==
    /\ owed' = [k \in Keys |-> owed[k] /\ k \notin batch]
    /\ UNCHANGED handed

HandOver(batch) ==
    /\ \A k \in batch : owed[k]
    /\ owed' = [k \in Keys |-> owed[k] /\ k \notin batch]
    /\ handed' = [k \in Keys |-> IF k \in batch THEN handed[k] + 1 ELSE handed[k]]

Next ==
    \/ \E k \in Keys : Ask(k)
    \/ \E batch \in SUBSET Keys : Withdraw(batch) \/ HandOver(batch)

Spec == Init /\ [][Next]_mandate
=============================================================================
