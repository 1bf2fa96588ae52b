------------------------------- MODULE DealLedger -------------------------------
(***************************************************************************)
(* What the book promises about closing deals, however often and in        *)
(* whatever order they are reported: what is known of a deal is never      *)
(* forgotten, and the figure shown for a position is the sum over the      *)
(* deals known to belong to it, each counted once.                         *)
(***************************************************************************)
EXTENDS Integers, Functions

CONSTANTS
    Tickets, Deals,
    TicketOf,   \* [Deals -> Tickets]
    Worth       \* [Deals -> Int], the pips of a deal

VARIABLES
    heard,      \* deals the ledger holds
    priced,     \* those whose pips it knows
    named,      \* those whose reason it knows
    shown       \* [Tickets -> Int]

ledger == <<heard, priced, named, shown>>

Total(h, p, t) ==
    SumFunction([d \in {e \in h : TicketOf[e] = t} |-> IF d \in p THEN Worth[d] ELSE 0])

Init == heard = {} /\ priced = {} /\ named = {} /\ shown = [t \in Tickets |-> 0]

\* Something is learned of deal d: that it exists, perhaps its pips, perhaps its reason.
Learn(d) ==
    /\ heard' = heard \union {d}
    /\ priced' \in {priced, priced \union {d}}
    /\ named' \in {named, named \union {d}}
    /\ shown' = [shown EXCEPT ![TicketOf[d]] = Total(heard', priced', TicketOf[d])]

Next == \E d \in Deals : Learn(d)

Spec == Init /\ [][Next]_ledger
=============================================================================
