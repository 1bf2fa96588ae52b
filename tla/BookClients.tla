------------------------------ MODULE BookClients ------------------------------
(***************************************************************************)
(* The book under any clients at all: every report a terminal could send   *)
(* about the deals below, in any order, any number of times, live or as a  *)
(* replay, and every snapshot.  What holds here needs nothing of the       *)
(* terminal but that it tells one story about each deal.                   *)
(***************************************************************************)
EXTENDS TradeBook

CONSTANTS
    TicketOf,   \* [Deals -> Tickets]: the position a deal closed lots of
    LotsIn,     \* [Deals -> Nat]: how many
    Worth,      \* [Deals -> Int]: its pips, never 0
    VolumeOf,   \* [Tickets -> Nat]: what a position was opened with
    MaxVolume,  \* the largest of them
    Reasons     \* the reasons the reports name besides "manual"

ASSUME DealsAssumption ==
    /\ TicketOf \in [Deals -> Tickets]
    /\ LotsIn \in [Deals -> Nat \ {0}]
    /\ Worth \in [Deals -> Int \ {0}]
    /\ Reasons \subseteq CloseReasons \union {Foreign}
    /\ MaxVolume \in Nat
    /\ VolumeOf \in [Tickets -> 1..MaxVolume]

Openings ==
    {[event |-> "opened", ticket |-> t, origin |-> o, lots |-> VolumeOf[t], final |-> f] :
        t \in Tickets, o \in {"bot", "ai"}, f \in BOOLEAN}

\* A report prices the deal or sends 0, and names any reason or "manual".
Closings ==
    {[event |-> "closed", ticket |-> TicketOf[d], deal |-> d, lots |-> LotsIn[d],
      pips |-> IF known THEN Worth[d] ELSE 0, reason |-> why, replay |-> again] :
        d \in Deals, known \in BOOLEAN, why \in Reasons \union {"manual"}, again \in BOOLEAN}

\* Any tickets, each with no more than it was opened with.
Snapshots ==
    UNION {{held \in [S -> 1..MaxVolume] : \A t \in S : held[t] <= VolumeOf[t]} : S \in SUBSET Tickets}

ClientsNext ==
    \/ \E r \in Openings : Record(r)
    \/ \E r \in Closings : Record(r)
    \/ \E held \in Snapshots : Reconcile(held)

ClientsSpec == BookInit /\ [][ClientsNext]_book
-----------------------------------------------------------------------------
(* Properties *)

\* Deals reported again and again, with less each time: nothing known of a deal is
\* forgotten and no figure is counted twice.
Ledger == INSTANCE DealLedger WITH
    heard  <- DOMAIN partial,
    priced <- {d \in DOMAIN partial : partial[d].pips # 0},
    named  <- {d \in DOMAIN partial : partial[d].reason # "manual"},
    shown  <- [t \in Tickets |-> trade[t].pips]

LedgerKept == Ledger!Spec
=============================================================================
