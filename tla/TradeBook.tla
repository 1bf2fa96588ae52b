------------------------------- MODULE TradeBook -------------------------------
(***************************************************************************)
(* The dashboard's record of what the account holds: the trades and        *)
(* trade_partials tables, and the two endpoints the terminal writes them   *)
(* through.  POST /fills records one open or one closing deal; it may be   *)
(* repeated, and a repeat can know less than the report it lands on.       *)
(* POST /positions is a snapshot of what the terminal holds.               *)
(*                                                                         *)
(* One account and one magic number: every row is inside every snapshot's  *)
(* scope.  The user has a strategy and the token an account, so no open is *)
(* refused with a 422.  Lots are whole numbers.  `partial` and `closed`    *)
(* are one event here, as they are to recordClose().  Prices, levels and   *)
(* commissions are left out; of the money columns only where the gross     *)
(* figure came from is kept, because two writers disagree about it.  The   *)
(* links recordOpen() writes from the command and its signal to the trade  *)
(* are left out too: nothing here reads them.                              *)
(***************************************************************************)
EXTENDS Integers, FiniteSets, Functions

CONSTANTS
    Tickets,   \* mt5_ticket of a position
    Deals,     \* mt5_deal_ticket of a closing deal
    Foreign    \* a close reason that is not in the close_reason enum

ASSUME ForeignAssumption ==
    Foreign \notin {"tp1", "tp2", "tp3", "sl", "reversal_exit", "time_exit", "manual"}

VARIABLES
    trade,     \* [Tickets -> row of trades]
    partial    \* function on the deals that have a row in trade_partials

book == <<trade, partial>>

\* CLOSE_REASONS: what trade_partials.close_reason can hold.
CloseReasons == {"tp1", "tp2", "tp3", "sl", "reversal_exit", "time_exit", "manual"}

Live     == {"open", "partially_closed"}
Statuses == Live \union {"absent", "fully_closed", "stopped_out"}
Closures == CloseReasons \union {Foreign, "reconciled_closed", "none"}

\* final: tp3_price is set.  pips: gross_pnl_pips.  money: whether gross_pnl_money is
\* the default, the sum of the recorded deals, or the terminal's floating figure.
\* ended: closed_at is set.  closure: closure_reason.
Trade ==
    [status : Statuses, origin : {"bot", "ai", "adopted"}, initial : Nat, remaining : Nat,
     final : BOOLEAN, pips : Int, money : {"none", "sum", "floating"},
     ended : BOOLEAN, closure : Closures]

NoTrade ==
    [status |-> "absent", origin |-> "bot", initial |-> 0, remaining |-> 0, final |-> FALSE,
     pips |-> 0, money |-> "none", ended |-> FALSE, closure |-> "none"]

Partial == [ticket : Tickets, lots : Nat, pips : Int, reason : CloseReasons]

BookTypeOK ==
    /\ trade \in [Tickets -> Trade]
    /\ DOMAIN partial \subseteq Deals
    /\ partial \in [DOMAIN partial -> Partial]

BookInit ==
    /\ trade = [t \in Tickets |-> NoTrade]
    /\ partial = [d \in {} |-> NoTrade]

-----------------------------------------------------------------------------
\* POST /fills with event "opened"

\* Mutant: a row that exists keeps its origin.
OpenedSameOrigin(r) ==
    [trade[r.ticket] EXCEPT !.status = "open", !.initial = r.lots, !.remaining = r.lots,
                            !.final = r.final,
                            !.origin = IF trade[r.ticket].status = "absent" THEN r.origin ELSE @]

Opened(r) ==
    [trade[r.ticket] EXCEPT !.status = "open", !.origin = r.origin, !.initial = r.lots,
                            !.remaining = r.lots, !.final = r.final]

\* recordOpen: updateOrCreate on the ticket.  The columns it does not name keep what they
\* held: the pips, the money, and how and when the trade ended.
RecordOpen(r) ==
    /\ trade' = [trade EXCEPT ![r.ticket] = Opened(r)]
    /\ UNCHANGED partial

-----------------------------------------------------------------------------
\* POST /fills with a closing deal

\* normaliseReason, then the "tp3" of a trade without a third target, which is its tp2.
Normal(reason) == IF reason \in CloseReasons THEN reason ELSE "manual"

Filed(r) ==
    IF Normal(r.reason) = "tp3" /\ ~trade[r.ticket].final THEN "tp2" ELSE Normal(r.reason)

Fresh(r) == [ticket |-> r.ticket, lots |-> r.lots, pips |-> r.pips, reason |-> Filed(r)]

\* Mutant: a repeat replaces the row.
KeptOverwritten(r) == Fresh(r)

\* keepingWhatIsKnown: 0 pips and "manual" are the terminal's "cannot tell".
Kept(r) ==
    IF r.deal \notin DOMAIN partial THEN Fresh(r)
    ELSE [Fresh(r) EXCEPT
             !.pips   = IF @ = 0 THEN partial[r.deal].pips ELSE @,
             !.reason = IF @ = "manual" THEN partial[r.deal].reason ELSE @]

Recorded(r) ==
    [d \in DOMAIN partial \union {r.deal} |-> IF d = r.deal THEN Kept(r) ELSE partial[d]]

Legs(p, t)     == {d \in DOMAIN p : p[d].ticket = t}
LotsOf(p, t)   == SumFunction([d \in Legs(p, t) |-> p[d].lots])
PipsOf(p, t)   == SumFunction([d \in Legs(p, t) |-> p[d].pips])

\* Mutant: what is left is counted down report by report.
SummedByReport(r, p) ==
    [trade[r.ticket] EXCEPT !.remaining = @ - r.lots, !.pips = PipsOf(p, r.ticket), !.money = "sum"]

\* The totals, derived from the stored deals and never accumulated.
Summed(r, p) ==
    LET left == trade[r.ticket].initial - LotsOf(p, r.ticket)
    IN  [trade[r.ticket] EXCEPT !.remaining = IF left > 0 THEN left ELSE 0,
                                !.pips = PipsOf(p, r.ticket), !.money = "sum"]

\* What the trade page shows as the reason: the note, which repeats the reason as it was
\* sent, unless it is the replay describing itself.
Note(r) == IF r.replay THEN Filed(r) ELSE r.reason

\* How the trade ended is decided by the first report that finds nothing left of it.
Ended(r, row) ==
    CASE row.remaining > 0              -> [row EXCEPT !.status = "partially_closed"]
      [] row.remaining = 0 /\ row.ended -> row
      [] OTHER -> [row EXCEPT !.status  = IF Filed(r) = "sl" THEN "stopped_out" ELSE "fully_closed",
                              !.closure = Note(r), !.ended = TRUE]

\* Mutant: a trade that has ended is left as it is.
RecordCloseOnce(r) ==
    IF trade[r.ticket].status = "absent" THEN UNCHANGED book
    ELSE /\ partial' = Recorded(r)
         /\ trade' = IF trade[r.ticket].ended THEN trade
                     ELSE [trade EXCEPT ![r.ticket] = Ended(r, Summed(r, partial'))]

\* recordClose: a ticket without a row is a 404 and changes nothing.
RecordClose(r) ==
    IF trade[r.ticket].status = "absent" THEN UNCHANGED book
    ELSE /\ partial' = Recorded(r)
         /\ trade' = [trade EXCEPT ![r.ticket] = Ended(r, Summed(r, partial'))]

Record(r) == IF r.event = "opened" THEN RecordOpen(r) ELSE RecordClose(r)

-----------------------------------------------------------------------------
\* POST /positions: held is a function from the tickets in the snapshot to their lots.

Adopted(lots) ==
    [NoTrade EXCEPT !.status = "open", !.origin = "adopted", !.initial = lots,
                    !.remaining = lots, !.money = "floating"]

\* Less open than the row says means that something closed part of it unreported.
Refreshed(row, lots) ==
    [row EXCEPT !.remaining = lots,
                !.status = IF lots # row.remaining /\ lots < row.initial
                           THEN "partially_closed" ELSE @,
                !.money = "floating"]

Vanished(row) ==
    [row EXCEPT !.status = "fully_closed", !.remaining = 0,
                !.closure = "reconciled_closed", !.ended = TRUE]

\* Mutants: an empty snapshot is taken to say nothing; volumes are not refreshed.
ReconciledUnlessEmpty(held) ==
    [t \in Tickets |->
        CASE t \in DOMAIN held /\ trade[t].status = "absent" -> Adopted(held[t])
          [] t \in DOMAIN held /\ trade[t].status # "absent" -> Refreshed(trade[t], held[t])
          [] t \notin DOMAIN held /\ trade[t].status \in Live /\ DOMAIN held # {} -> Vanished(trade[t])
          [] OTHER -> trade[t]]
ReconciledNoRefresh(held) ==
    [t \in Tickets |->
        CASE t \in DOMAIN held /\ trade[t].status = "absent" -> Adopted(held[t])
          [] t \notin DOMAIN held /\ trade[t].status \in Live -> Vanished(trade[t])
          [] OTHER -> trade[t]]

\* reconcile: adopt the unknown, refresh the known, close the live rows that are gone.
Reconciled(held) ==
    [t \in Tickets |->
        CASE t \in DOMAIN held /\ trade[t].status = "absent" -> Adopted(held[t])
          [] t \in DOMAIN held /\ trade[t].status # "absent" -> Refreshed(trade[t], held[t])
          [] t \notin DOMAIN held /\ trade[t].status \in Live -> Vanished(trade[t])
          [] OTHER -> trade[t]]

Reconcile(held) ==
    /\ trade' = Reconciled(held)
    /\ UNCHANGED partial
=============================================================================
