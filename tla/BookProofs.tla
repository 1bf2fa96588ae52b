------------------------------- MODULE BookProofs -------------------------------
(***************************************************************************)
(* What is proved of the trade book and of the reports that fill it.       *)
(*                                                                         *)
(* First, of BookClients: the book implements the deal ledger for any      *)
(* positions, deals, reports and snapshots.  That rests on what a row of   *)
(* trade_partials can hold (the deal's own ticket, its pips or 0) and on   *)
(* no ticket having pips before it has a row.  What SumFunction computes   *)
(* is not used there: the book and the ledger sum equal functions.         *)
(*                                                                         *)
(* Then, of FillReporting: its type invariant and its safety properties,   *)
(* for any number of positions, lots and faults.  TypeInv is the inductive *)
(* form of TypeOK, ShowInv that of what the book shows of a position, and  *)
(* LostInv that of NoCloseLost; FitInv bounds what can be waiting.         *)
(***************************************************************************)
EXTENDS FillReporting, BookClients, SumLemmas, SequenceTheorems, TLAPS

-----------------------------------------------------------------------------
(* The book under any clients *)

Columns == {"status", "origin", "initial", "remaining", "final", "pips", "money", "ended",
            "closure"}

\* A row of trade_partials, given that the terminal tells one story about each deal.
PartialFits(row, d) ==
    /\ row.ticket = TicketOf[d]
    /\ row.pips \in {0, Worth[d]}

LedgerInv ==
    /\ DOMAIN partial \subseteq Deals
    /\ \A d \in DOMAIN partial : PartialFits(partial[d], d)
    /\ DOMAIN trade = Tickets
    /\ \A t \in Tickets : DOMAIN trade[t] = Columns
    /\ \A t \in Tickets : trade[t].status = "absent" => trade[t].pips = 0

-----------------------------------------------------------------------------
(* What the writers of a trade do to its columns *)

LEMMA OpenedRow ==
    ASSUME NEW r \in Openings, DOMAIN trade[r.ticket] = Columns
    PROVE  /\ DOMAIN Opened(r) = Columns
           /\ Opened(r).pips = trade[r.ticket].pips
           /\ Opened(r).status = "open"
BY DEF Opened, Columns

LEMMA AdoptedRow ==
    ASSUME NEW n
    PROVE  DOMAIN Adopted(n) = Columns /\ Adopted(n).pips = 0 /\ Adopted(n).status = "open"
BY DEF Adopted, NoTrade, Columns

LEMMA RefreshedRow ==
    ASSUME NEW row, DOMAIN row = Columns, NEW n
    PROVE  /\ DOMAIN Refreshed(row, n) = Columns
           /\ Refreshed(row, n).pips = row.pips
           /\ Refreshed(row, n).status \in {row.status, "partially_closed"}
BY DEF Refreshed, Columns

LEMMA VanishedRow ==
    ASSUME NEW row, DOMAIN row = Columns
    PROVE  /\ DOMAIN Vanished(row) = Columns
           /\ Vanished(row).pips = row.pips
           /\ Vanished(row).status = "fully_closed"
BY DEF Vanished, Columns

LEMMA SummedRow ==
    ASSUME NEW r \in Closings, NEW p, DOMAIN trade[r.ticket] = Columns
    PROVE  /\ DOMAIN Summed(r, p) = Columns
           /\ Summed(r, p).pips = PipsOf(p, r.ticket)
           /\ Summed(r, p).status = trade[r.ticket].status
BY DEF Summed, Columns

LEMMA EndedRow ==
    ASSUME NEW r, NEW row, DOMAIN row = Columns
    PROVE  /\ DOMAIN Ended(r, row) = Columns
           /\ Ended(r, row).pips = row.pips
           /\ Ended(r, row).status \in {row.status, "partially_closed", "stopped_out", "fully_closed"}
BY DEF Ended, Columns

\* A closing report names its deal's own ticket, and its pips or 0.
LEMMA ClosingFits ==
    ASSUME NEW r \in Closings
    PROVE  /\ r.deal \in Deals /\ r.ticket = TicketOf[r.deal] /\ r.ticket \in Tickets
           /\ r.pips \in {0, Worth[r.deal]}
BY DealsAssumption DEF Closings

-----------------------------------------------------------------------------
(* The table of deals after a closing report *)

LEMMA KeptRow ==
    ASSUME LedgerInv, NEW r \in Closings
    PROVE  /\ PartialFits(Kept(r), r.deal)
           /\ r.deal \in DOMAIN partial =>
                 /\ partial[r.deal].pips # 0 => Kept(r).pips # 0
                 /\ partial[r.deal].reason # "manual" => Kept(r).reason # "manual"
<1>1. r.ticket = TicketOf[r.deal] /\ r.pips \in {0, Worth[r.deal]}
  BY ClosingFits
<1>2. CASE r.deal \notin DOMAIN partial
  BY <1>1, <1>2 DEF Kept, Fresh, PartialFits
<1>3. CASE r.deal \in DOMAIN partial
  <2>1. PartialFits(partial[r.deal], r.deal)
    BY <1>3 DEF LedgerInv
  <2>2. /\ Kept(r).ticket = r.ticket
        /\ Kept(r).pips = IF r.pips = 0 THEN partial[r.deal].pips ELSE r.pips
        /\ Kept(r).reason = IF Filed(r) = "manual" THEN partial[r.deal].reason ELSE Filed(r)
    BY <1>3 DEF Kept, Fresh
  <2> QED
    BY <1>1, <2>1, <2>2 DEF PartialFits
<1> QED
  BY <1>2, <1>3

LEMMA RecordedRows ==
    ASSUME NEW r
    PROVE  /\ DOMAIN Recorded(r) = DOMAIN partial \union {r.deal}
           /\ Recorded(r)[r.deal] = Kept(r)
           /\ \A d \in DOMAIN partial \ {r.deal} : Recorded(r)[d] = partial[d]
BY DEF Recorded

\* The book and the ledger sum with the same operator.
LEMMA SameSum ==
    ASSUME NEW f
    PROVE  SumFunction(f) = Ledger!SumFunction(f)
BY DEF SumFunction, Ledger!SumFunction, SumFunctionOnSet, Ledger!SumFunctionOnSet,
       FoldFunctionOnSet, Ledger!FoldFunctionOnSet, MapThenFoldSet, Ledger!MapThenFoldSet

\* The pips of a trade are the ledger's total for it.
LEMMA SameTotal ==
    ASSUME NEW p, DOMAIN p \subseteq Deals, NEW t \in Tickets,
           \A d \in DOMAIN p : PartialFits(p[d], d)
    PROVE  PipsOf(p, t) = Ledger!Total(DOMAIN p, {d \in DOMAIN p : p[d].pips # 0}, t)
<1> DEFINE known == {d \in DOMAIN p : p[d].pips # 0}
           mine  == {e \in DOMAIN p : TicketOf[e] = t}
           figures == [d \in Legs(p, t) |-> p[d].pips]
<1>1. Legs(p, t) = mine
  BY DEF Legs, PartialFits
<1>2. \A d \in mine : p[d].pips = IF d \in known THEN Worth[d] ELSE 0
  BY DEF PartialFits
<1>3. figures = [d \in mine |-> IF d \in known THEN Worth[d] ELSE 0]
  BY <1>1, <1>2
<1>4. SumFunction(figures) = Ledger!SumFunction(figures)
  BY SameSum
<1> QED
  BY <1>3, <1>4 DEF PipsOf, Ledger!Total
-----------------------------------------------------------------------------
(* Every step of the book is a step of the ledger, or a stutter *)

LEMMA Start == BookInit => LedgerInv /\ Ledger!Init
<1> SUFFICES ASSUME BookInit PROVE LedgerInv /\ Ledger!Init
  OBVIOUS
<1>1. DOMAIN partial = {} /\ trade = [t \in Tickets |-> NoTrade]
  BY DEF BookInit
<1>2. DOMAIN NoTrade = Columns /\ NoTrade.pips = 0
  BY DEF NoTrade, Columns
<1>3. LedgerInv
  BY <1>1, <1>2 DEF LedgerInv
<1>4. [t \in Tickets |-> trade[t].pips] = [t \in Tickets |-> 0]
  BY <1>1, <1>2
<1> QED
  BY <1>1, <1>3, <1>4 DEF Ledger!Init

\* A step that leaves the deals and every trade's pips alone is a stutter.
LEMMA SamePips ==
    ASSUME partial' = partial, \A t \in Tickets : trade'[t].pips = trade[t].pips
    PROVE  UNCHANGED Ledger!ledger
<1>1. [t \in Tickets |-> trade[t].pips]' = [t \in Tickets |-> trade[t].pips]
  OBVIOUS
<1> QED
  BY <1>1 DEF Ledger!ledger

LEMMA OpenStep ==
    ASSUME LedgerInv, NEW r \in Openings, RecordOpen(r)
    PROVE  LedgerInv' /\ UNCHANGED Ledger!ledger
<1>1. r.ticket \in Tickets
  BY DEF Openings
<1>2. /\ DOMAIN Opened(r) = Columns
      /\ Opened(r).pips = trade[r.ticket].pips
      /\ Opened(r).status = "open"
  BY <1>1, OpenedRow DEF LedgerInv
<1>3. trade' = [trade EXCEPT ![r.ticket] = Opened(r)] /\ partial' = partial
  BY DEF RecordOpen
<1>4. DOMAIN trade' = Tickets
      /\ \A t \in Tickets : trade'[t] = IF t = r.ticket THEN Opened(r) ELSE trade[t]
  BY <1>1, <1>3 DEF LedgerInv
<1>5. LedgerInv'
  BY <1>2, <1>3, <1>4 DEF LedgerInv, PartialFits
<1>6. \A t \in Tickets : trade'[t].pips = trade[t].pips
  BY <1>2, <1>4
<1> QED
  BY <1>3, <1>5, <1>6, SamePips

LEMMA ReconcileStep ==
    ASSUME LedgerInv, NEW held, Reconcile(held)
    PROVE  LedgerInv' /\ UNCHANGED Ledger!ledger
<1>1. trade' = Reconciled(held) /\ partial' = partial
  BY DEF Reconcile
<1>2. ASSUME NEW t \in Tickets
      PROVE  /\ DOMAIN trade'[t] = Columns
             /\ trade'[t].pips = trade[t].pips
             /\ trade'[t].status = "absent" => trade[t].status = "absent"
  <2>1. DOMAIN trade[t] = Columns /\ (trade[t].status = "absent" => trade[t].pips = 0)
    BY DEF LedgerInv
  <2>2. \/ trade'[t] = Adopted(held[t]) /\ trade[t].status = "absent"
        \/ trade'[t] = Refreshed(trade[t], held[t])
        \/ trade'[t] = Vanished(trade[t])
        \/ trade'[t] = trade[t]
    BY <1>1 DEF Reconciled
  <2>3. CASE trade'[t] = Adopted(held[t]) /\ trade[t].status = "absent"
    BY <2>1, <2>3, AdoptedRow
  <2>4. CASE trade'[t] = Refreshed(trade[t], held[t])
    BY <2>1, <2>4, RefreshedRow
  <2>5. CASE trade'[t] = Vanished(trade[t])
    BY <2>1, <2>5, VanishedRow
  <2>6. CASE trade'[t] = trade[t]
    BY <2>1, <2>6
  <2> QED
    BY <2>2, <2>3, <2>4, <2>5, <2>6
<1>3. DOMAIN trade' = Tickets
  BY <1>1 DEF Reconciled
<1>4. LedgerInv'
  BY <1>1, <1>2, <1>3 DEF LedgerInv, PartialFits
<1> QED
  BY <1>1, <1>2, <1>4, SamePips

\* A closing report about a position the book knows: the ledger learns of its deal.
LEMMA CloseStep ==
    ASSUME LedgerInv, NEW r \in Closings, RecordClose(r), trade[r.ticket].status # "absent"
    PROVE  LedgerInv' /\ Ledger!Next
<1> DEFINE d == r.deal
           row == Ended(r, Summed(r, partial'))
           priced == {e \in DOMAIN partial : partial[e].pips # 0}
           named == {e \in DOMAIN partial : partial[e].reason # "manual"}
           figure == [t \in Tickets |-> trade[t].pips]
<1>1. d \in Deals /\ r.ticket = TicketOf[d] /\ r.ticket \in Tickets
  BY ClosingFits
<1>2. partial' = Recorded(r) /\ trade' = [trade EXCEPT ![r.ticket] = row]
  BY DEF RecordClose
<1>3. /\ DOMAIN partial' = DOMAIN partial \union {d}
      /\ partial'[d] = Kept(r)
      /\ \A e \in DOMAIN partial \ {d} : partial'[e] = partial[e]
  BY <1>2, RecordedRows
<1>4. /\ PartialFits(Kept(r), d)
      /\ d \in DOMAIN partial =>
            /\ partial[d].pips # 0 => Kept(r).pips # 0
            /\ partial[d].reason # "manual" => Kept(r).reason # "manual"
  BY KeptRow
<1>5. /\ DOMAIN partial' \subseteq Deals
      /\ \A e \in DOMAIN partial' : PartialFits(partial'[e], e)
  BY <1>1, <1>3, <1>4 DEF LedgerInv
<1>6. /\ DOMAIN row = Columns
      /\ row.pips = PipsOf(partial', r.ticket)
      /\ row.status # "absent"
  <2>1. DOMAIN trade[r.ticket] = Columns
    BY <1>1 DEF LedgerInv
  <2>2. /\ DOMAIN Summed(r, partial') = Columns
        /\ Summed(r, partial').pips = PipsOf(partial', r.ticket)
        /\ Summed(r, partial').status = trade[r.ticket].status
    BY <2>1, SummedRow
  <2> QED
    BY <2>2, EndedRow
<1>7. /\ DOMAIN trade' = Tickets
      /\ \A t \in Tickets : trade'[t] = IF t = r.ticket THEN row ELSE trade[t]
  BY <1>1, <1>2 DEF LedgerInv
<1>8. LedgerInv'
  BY <1>5, <1>6, <1>7 DEF LedgerInv
<1>9. priced' \in {priced, priced \union {d}}
  <2>1. \A e \in DOMAIN partial : partial[e].pips # 0 => partial'[e].pips # 0
    BY <1>3, <1>4
  <2>2. \A e \in DOMAIN partial' : e # d => e \in DOMAIN partial /\ partial'[e] = partial[e]
    BY <1>3
  <2>3. priced \subseteq priced' /\ priced' \subseteq priced \union {d}
    BY <1>3, <2>1, <2>2
  <2> QED
    BY <2>3
<1>10. named' \in {named, named \union {d}}
  <2>1. \A e \in DOMAIN partial : partial[e].reason # "manual" => partial'[e].reason # "manual"
    BY <1>3, <1>4
  <2>2. \A e \in DOMAIN partial' : e # d => e \in DOMAIN partial /\ partial'[e] = partial[e]
    BY <1>3
  <2>3. named \subseteq named' /\ named' \subseteq named \union {d}
    BY <1>3, <2>1, <2>2
  <2> QED
    BY <2>3
<1>11. figure' = [figure EXCEPT ![TicketOf[d]] = Ledger!Total(DOMAIN partial', priced', TicketOf[d])]
  <2>1. PipsOf(partial', r.ticket) = Ledger!Total(DOMAIN partial', priced', r.ticket)
    BY <1>1, <1>5, SameTotal
  <2>2. row.pips = Ledger!Total(DOMAIN partial', priced', TicketOf[d])
    BY <1>1, <1>6, <2>1
  <2> HIDE DEF row, priced
  <2> QED
    BY <1>1, <1>7, <2>2
<1>12. Ledger!Learn(d)
  BY <1>3, <1>9, <1>10, <1>11 DEF Ledger!Learn
<1> QED
  BY <1>1, <1>8, <1>12 DEF Ledger!Next

LEMMA BookStep == LedgerInv /\ [ClientsNext]_book => LedgerInv' /\ [Ledger!Next]_Ledger!ledger
<1> SUFFICES ASSUME LedgerInv, [ClientsNext]_book
             PROVE  LedgerInv' /\ [Ledger!Next]_Ledger!ledger
  OBVIOUS
<1>1. ASSUME UNCHANGED book PROVE LedgerInv' /\ UNCHANGED Ledger!ledger
  BY <1>1, SamePips DEF book, LedgerInv, PartialFits
<1>2. ASSUME NEW r \in Openings, Record(r) PROVE LedgerInv' /\ UNCHANGED Ledger!ledger
  BY <1>2, OpenStep DEF Record, Openings
<1>3. ASSUME NEW r \in Closings, Record(r)
      PROVE  LedgerInv' /\ [Ledger!Next]_Ledger!ledger
  <2>1. RecordClose(r)
    BY <1>3 DEF Record, Closings
  <2>2. CASE trade[r.ticket].status = "absent"
    BY <1>1, <2>1, <2>2 DEF RecordClose
  <2>3. CASE trade[r.ticket].status # "absent"
    BY <2>1, <2>3, CloseStep
  <2> QED
    BY <2>2, <2>3
<1>4. ASSUME NEW held \in Snapshots, Reconcile(held)
      PROVE  LedgerInv' /\ UNCHANGED Ledger!ledger
  BY <1>4, ReconcileStep
<1> QED
  BY <1>1, <1>2, <1>3, <1>4 DEF ClientsNext

-----------------------------------------------------------------------------
\* Whatever is reported of a position, however often and in whatever order, live or by
\* replay, with snapshots in between: recordClose, keepingWhatIsKnown and reconcile forget
\* nothing known of a deal, and the pips of a trade are the sum over its deals, each once.
THEOREM BookImplementsLedger == ClientsSpec => LedgerKept
<1>1. BookInit => LedgerInv /\ Ledger!Init
  BY Start
<1>2. LedgerInv /\ [ClientsNext]_book => LedgerInv' /\ [Ledger!Next]_Ledger!ledger
  BY BookStep
<1> QED
  BY <1>1, <1>2, PTL DEF ClientsSpec, LedgerKept, Ledger!Spec

-----------------------------------------------------------------------------
(* Buffers: what a sequence holds *)

\* Adding to the end of a sequence, and taking from its front.
LEMMA RangeAppend ==
    ASSUME NEW S, NEW s \in Seq(S), NEW e \in S
    PROVE  /\ Append(s, e) \in Seq(S) /\ Len(Append(s, e)) = Len(s) + 1
           /\ Range(Append(s, e)) = Range(s) \union {e}
<1>1. /\ Append(s, e) \in Seq(S) /\ Len(Append(s, e)) = Len(s) + 1
      /\ \A i \in 1..Len(s) : Append(s, e)[i] = s[i]
      /\ Append(s, e)[Len(s) + 1] = e
  BY AppendProperties
<1>2. /\ Len(s) \in Nat /\ DOMAIN s = 1..Len(s)
      /\ DOMAIN Append(s, e) = 1..(Len(s) + 1)
  BY <1>1, LenProperties
<1> QED
  BY <1>1, <1>2 DEF Range

LEMMA RangeTail ==
    ASSUME NEW S, NEW s \in Seq(S), s # <<>>
    PROVE  /\ Head(s) \in S /\ Tail(s) \in Seq(S) /\ Len(Tail(s)) = Len(s) - 1
           /\ Head(s) \in Range(s)
           /\ Range(s) = {Head(s)} \union Range(Tail(s))
<1>1. /\ Head(s) \in S /\ Tail(s) \in Seq(S) /\ Len(Tail(s)) = Len(s) - 1
      /\ \A i \in 1..Len(Tail(s)) : Tail(s)[i] = s[i + 1]
  BY HeadTailProperties
<1>2. /\ Len(s) \in Nat \ {0} /\ DOMAIN s = 1..Len(s)
      /\ DOMAIN Tail(s) = 1..Len(Tail(s)) /\ Head(s) = s[1]
  BY <1>1, LenProperties, EmptySeq
<1>3. \A i \in 1..Len(s) : i = 1 \/ (i - 1 \in 1..Len(Tail(s)) /\ s[i] = Tail(s)[i - 1])
  BY <1>1, <1>2
<1>4. Head(s) \in Range(s)
  BY <1>2 DEF Range
<1>5. Range(Tail(s)) \subseteq Range(s)
  <2>1. \A i \in 1..Len(Tail(s)) : i + 1 \in 1..Len(s) /\ Tail(s)[i] = s[i + 1]
    BY <1>1, <1>2
  <2> QED
    BY <1>2, <2>1 DEF Range
<1>6. Range(s) \subseteq {Head(s)} \union Range(Tail(s))
  <2> SUFFICES ASSUME NEW i \in 1..Len(s) PROVE s[i] \in {Head(s)} \union Range(Tail(s))
    BY <1>2 DEF Range
  <2>1. CASE i = 1
    BY <1>2, <2>1
  <2>2. CASE i # 1
    <3>1. i - 1 \in 1..Len(Tail(s)) /\ s[i] = Tail(s)[i - 1]
      BY <1>3, <2>2
    <3>2. Tail(s)[i - 1] \in Range(Tail(s))
      BY <1>2, <3>1 DEF Range
    <3> QED
      BY <3>1, <3>2
  <2> QED
    BY <2>1, <2>2
<1> QED
  BY <1>1, <1>4, <1>5, <1>6

\* FXSQueueReport keeps the buffer within its bound.
LEMMA QueuedBuffer ==
    ASSUME NEW S, NEW s \in Seq(S), NEW r \in S
    PROVE  /\ Queued(s, r) \in Seq(S)
           /\ Range(Queued(s, r)) \subseteq Range(s) \union {r}
           /\ r \in Range(Queued(s, r))
           /\ Len(s) <= MaxPending => Len(Queued(s, r)) <= MaxPending
           /\ Len(s) < MaxPending => Queued(s, r) = Append(s, r)
<1>1. Len(s) \in Nat /\ MaxPending \in Nat \ {0}
  BY LenProperties, ReportingAssumption
<1>2. CASE Len(s) < MaxPending
  <2>1. Queued(s, r) = Append(s, r)
    BY <1>2 DEF Queued
  <2> QED
    BY <1>1, <1>2, <2>1, RangeAppend
<1>3. CASE ~(Len(s) < MaxPending)
  <2> DEFINE rest == Tail(s)
  <2>1. Queued(s, r) = Append(rest, r)
    BY <1>3 DEF Queued
  <2>2. s # <<>>
    BY <1>1, <1>3, EmptySeq
  <2>3. rest \in Seq(S) /\ Len(rest) = Len(s) - 1 /\ Range(rest) \subseteq Range(s)
    BY <2>2, RangeTail
  <2> HIDE DEF rest
  <2>4. /\ Append(rest, r) \in Seq(S) /\ Len(Append(rest, r)) = Len(rest) + 1
        /\ Range(Append(rest, r)) = Range(rest) \union {r}
    BY <2>3, RangeAppend
  <2> QED
    BY <1>1, <1>3, <2>1, <2>3, <2>4
<1> QED
  BY <1>2, <1>3

LEMMA RangeEmpty == Range(<<>>) = {}
  BY DEF Range

-----------------------------------------------------------------------------
(* Every variable keeps its shape *)

Whys    == {"sl", "tp", "hand", "expert"}
Own     == {d \in DOMAIN deals : deals[d].ours}
ADeal   == [ticket : Tickets, lots : 1..Volume, why : Whys, ours : BOOLEAN]
AnEvent == [kind : {"out"}, of : Nat] \union [kind : {"in", "retired"}, of : Tickets]
AReport ==
    [event : {"opened"}, ticket : Tickets, origin : {"bot"}, lots : {Volume}, final : BOOLEAN]
    \union [event : {"closed"}, ticket : Tickets, deal : Nat, lots : 1..Volume, pips : Nat,
            reason : CloseReasons, replay : BOOLEAN]

\* What a position may still be closed by, one lot a deal.
Room == [t \in Tickets |-> IF stage[t] \in {"wanted", "resting"} THEN Volume ELSE lots[t]]

RoomLeft == Len(deals) + SumOver(Room, Tickets) <= Cardinality(Tickets) * Volume

\* The broker: lots are held of filled positions only, and every deal has used up a lot of
\* what there was to close, so that deal numbers stay within Deals.
BrokerInv ==
    /\ stage \in [Tickets -> {"wanted", "resting", "unfilled", "filled"}]
    /\ lots \in [Tickets -> 0..Volume]
    /\ \A t \in Tickets : lots[t] > 0 => stage[t] = "filled"
    /\ deals \in Seq(ADeal)
    /\ RoomLeft

\* The terminal: it reports and hears of its own deals only, and a flush holds no more than
\* the buffer did.
EventInv ==
    /\ events \in Seq(AnEvent)
    /\ \A e \in Range(events) : e.kind = "out" => e.of \in Own
    /\ \A e \in Range(events) : e.kind = "in" => stage[e.of] = "filled"

BufferInv ==
    /\ pending \in Seq(AReport) /\ kept \in Seq(AReport)
    /\ Range(pending) \union Range(kept) \subseteq Reports
    /\ Len(pending) + Len(kept) <= MaxPending
    /\ ~Flushing => kept = <<>>

\* What the server has still to do.
WireInv ==
    \A m \in wire :
        \/ m \in Reports
        \/ /\ m.event = "snapshot" /\ DOMAIN m.held \subseteq Tickets
           /\ \A t \in DOMAIN m.held : m.held[t] \in 1..Volume

BookInv ==
    /\ BookTypeOK
    /\ DOMAIN partial \subseteq DOMAIN deals

OtherInv ==
    /\ handler \in Handlers
    /\ reasons \in [Tickets -> Exits \union {"none"}]
    /\ placed \subseteq Resting /\ discarded \subseteq Tickets
    /\ DOMAIN sent \subseteq Tickets /\ \A t \in DOMAIN sent : sent[t] \in 1..Volume
    /\ asked \subseteq Closes /\ taken \subseteq Closes /\ asked \cap taken = {}
    /\ faults \in Nat /\ crashes \in Nat /\ detaches \in Nat

TypeInv == BrokerInv /\ EventInv /\ BufferInv /\ WireInv /\ BookInv /\ OtherInv

\* Deals are only ever added, and what has filled stays filled.
Grows ==
    /\ DOMAIN deals \subseteq DOMAIN deals' /\ Len(deals) <= Len(deals')
    /\ \A d \in DOMAIN deals : deals'[d] = deals[d]
    /\ \A t \in Tickets : stage[t] = "filled" => stage'[t] = "filled"

\* The numbers of the broker's deals are numbers the table of deals can hold.
LEMMA DealNumbers ==
    ASSUME BrokerInv
    PROVE  /\ DOMAIN deals = 1..Len(deals) /\ Len(deals) \in Nat /\ IsFiniteSet(DOMAIN deals)
           /\ DOMAIN deals \subseteq Deals
<1>1. DOMAIN deals = 1..Len(deals) /\ Len(deals) \in Nat
  BY LenProperties DEF BrokerInv
<1>2. \A t \in Tickets : Room[t] \in Nat
  BY ReportingAssumption DEF BrokerInv, Room
<1>3. SumOver(Room, Tickets) \in Nat
  <2> HIDE DEF Room
  <2> QED
    BY <1>2, SumOverNat, TicketsAssumption
<1>4. Cardinality(Tickets) \in Nat /\ Volume \in Nat
  BY ReportingAssumption, TicketsAssumption, FS_CardinalityType
<1>5. Len(deals) <= Cardinality(Tickets) * Volume
  <2> DEFINE all == Cardinality(Tickets) * Volume
             rest == SumOver(Room, Tickets)
  <2>1. all \in Int
    BY <1>4
  <2>2. Len(deals) + rest <= all /\ rest \in Nat
    BY <1>3 DEF BrokerInv, RoomLeft
  <2> HIDE DEF all, rest
  <2>3. Len(deals) <= all
    BY <1>1, <2>1, <2>2
  <2> QED
    BY <2>3 DEF all
<1>6. DOMAIN deals \subseteq 1..(Cardinality(Tickets) * Volume)
  <2> DEFINE all == Cardinality(Tickets) * Volume
  <2>1. all \in Int /\ Len(deals) <= all
    BY <1>4, <1>5
  <2> HIDE DEF all
  <2>2. DOMAIN deals \subseteq 1..all
    BY <1>1, <2>1
  <2> QED
    BY <2>2 DEF all
<1>7. IsFiniteSet(DOMAIN deals)
  BY <1>1, FS_Interval
<1> QED
  BY <1>1, <1>6, <1>7, TicketsAssumption

\* A deal's report and an opening's are reports of the book's interface.
LEMMA ReportShape ==
    ASSUME BrokerInv
    PROVE  /\ \A t \in Tickets : Opening(t) \in AReport
           /\ \A d \in DOMAIN deals, p \in Nat, w \in CloseReasons, a \in BOOLEAN :
                 Closing(d, p, w, a) \in AReport
           /\ \A r \in Reports : r \in AReport
           /\ \A r \in Reports :
                 \/ r.event = "opened" /\ r = Opening(r.ticket) /\ stage[r.ticket] = "filled"
                 \/ /\ r.event = "closed" /\ r.deal \in Own
                    /\ r.ticket = deals[r.deal].ticket /\ r.lots = deals[r.deal].lots
<1>1. \A t \in Tickets : Opening(t) \in AReport /\ Opening(t).event = "opened"
                         /\ Opening(t).ticket = t
  BY ReportingAssumption DEF Opening, AReport
<1>2. DOMAIN deals \subseteq Nat /\ \A d \in DOMAIN deals : deals[d] \in ADeal
  BY DealNumbers, ElementOfSeq DEF BrokerInv
<1>3. \A d \in DOMAIN deals, p \in Nat, w \in CloseReasons, a \in BOOLEAN :
         /\ Closing(d, p, w, a) \in AReport
         /\ Closing(d, p, w, a).event = "closed" /\ Closing(d, p, w, a).deal = d
         /\ Closing(d, p, w, a).ticket = deals[d].ticket
         /\ Closing(d, p, w, a).lots = deals[d].lots
  <2> SUFFICES ASSUME NEW d \in DOMAIN deals, NEW q \in Nat, NEW w \in CloseReasons,
                      NEW a \in BOOLEAN
               PROVE  /\ Closing(d, q, w, a) \in AReport
                      /\ Closing(d, q, w, a).event = "closed" /\ Closing(d, q, w, a).deal = d
                      /\ Closing(d, q, w, a).ticket = deals[d].ticket
                      /\ Closing(d, q, w, a).lots = deals[d].lots
    OBVIOUS
  <2>1. d \in Nat /\ deals[d].ticket \in Tickets /\ deals[d].lots \in 1..Volume
    BY <1>2 DEF ADeal
  <2>2. Closing(d, q, w, a) \in AReport
    BY <2>1 DEF Closing, AReport
  <2> QED
    BY <2>2 DEF Closing
<1>4. \A r \in Reports :
         \/ \E t \in Tickets : stage[t] = "filled" /\ r = Opening(t)
         \/ \E d \in Own, p \in Nat, w \in CloseReasons, a \in BOOLEAN : r = Closing(d, p, w, a)
  BY DEF Reports, Own
<1>5. Own \subseteq DOMAIN deals
  BY DEF Own
<1> QED
  BY <1>1, <1>3, <1>4, <1>5

LEMMA TheirReports ==
    /\ \A t \in Tickets : stage[t] = "filled" => Opening(t) \in Reports
    /\ \A d \in Own, p \in 0..Len(deals), w \in CloseReasons, a \in BOOLEAN :
          Closing(d, p, w, a) \in Reports
BY DEF Reports, Own

LEMMA ReportsGrow ==
    ASSUME Grows
    PROVE  Reports \subseteq Reports' /\ Own \subseteq Own'
<1>1. Own \subseteq Own'
  BY DEF Own, Grows
<1>2. \A t \in Tickets : Opening(t)' = Opening(t)
  BY DEF Opening
<1>3. \A d \in DOMAIN deals : \A p, w, a : Closing(d, p, w, a)' = Closing(d, p, w, a)
  BY DEF Closing, Grows
<1>4. 0..Len(deals) \subseteq 0..Len(deals')
  BY DEF Grows
<1> QED
  BY <1>1, <1>2, <1>3, <1>4 DEF Reports, Own, Grows

-----------------------------------------------------------------------------
(* What the broker does *)

\* What is left to close goes up in no step, and down by a lot at least with every deal.
LEMMA RoomTyped ==
    ASSUME BrokerInv
    PROVE  /\ \A t \in Tickets : Room[t] \in Nat
           /\ SumOver(Room, Tickets) \in Nat
           /\ Cardinality(Tickets) * Volume \in Nat
<1>1. \A t \in Tickets : Room[t] \in Nat
  BY ReportingAssumption DEF BrokerInv, Room
<1>2. SumOver(Room, Tickets) \in Nat
  <2> HIDE DEF Room
  <2> QED
    BY <1>1, SumOverNat, TicketsAssumption
<1>3. Cardinality(Tickets) * Volume \in Nat
  BY ReportingAssumption, TicketsAssumption, FS_CardinalityType
<1> QED
  BY <1>1, <1>2, <1>3

\* What the broker raised it raised of a position of ours.
LEMMA EventTickets ==
    ASSUME events \in Seq(AnEvent)
    PROVE  \A e \in Range(events) : e \in AnEvent /\ (e.kind = "in" => e.of \in Tickets)
<1>1. \A e \in Range(events) : e \in AnEvent
  BY ElementOfSeq, LenProperties DEF Range
<1> QED
  BY <1>1 DEF AnEvent

\* Lots of a position are closed.
LEMMA DealStep ==
    ASSUME BrokerInv, EventInv, NEW t \in Tickets, NEW n, NEW why \in Whys,
           NEW ours \in BOOLEAN, Deal(t, n, why, ours)
    PROVE  BrokerInv' /\ EventInv' /\ Grows /\ Len(deals') = Len(deals) + 1
           /\ deals'[Len(deals) + 1] =
                 [ticket |-> t, lots |-> n, why |-> why, ours |-> ours]
<1> DEFINE d == [ticket |-> t, lots |-> n, why |-> why, ours |-> ours]
<1> HIDE DEF d
<1>0. /\ lots \in [Tickets -> 0..Volume] /\ Volume \in Nat /\ lots[t] \in 0..Volume
      /\ stage \in [Tickets -> {"wanted", "resting", "unfilled", "filled"}]
      /\ \A u \in Tickets : lots[u] > 0 => stage[u] = "filled"
      /\ deals \in Seq(ADeal)
  BY ReportingAssumption DEF BrokerInv
<1>0a. /\ n \in 1..lots[t] /\ stage' = stage
       /\ lots' = [lots EXCEPT ![t] = @ - n]
       /\ deals' = Append(deals, d)
  BY DEF Deal, d
<1>0b. n \in Int /\ 1 <= n /\ n <= lots[t] /\ n \in 1..Volume /\ stage[t] = "filled"
  BY <1>0, <1>0a
<1>1. /\ lots \in [Tickets -> 0..Volume] /\ lots[t] \in 0..Volume /\ Volume \in Nat
      /\ n \in Int /\ 1 <= n /\ n <= lots[t] /\ n \in 1..Volume /\ stage[t] = "filled"
      /\ lots' = [lots EXCEPT ![t] = @ - n] /\ stage' = stage
  BY <1>0, <1>0a, <1>0b
<1>2. d \in ADeal
  BY <1>1 DEF ADeal, d
<1>3. /\ deals' \in Seq(ADeal) /\ Len(deals') = Len(deals) + 1
      /\ \A i \in 1..Len(deals) : deals'[i] = deals[i]
      /\ deals'[Len(deals) + 1] = d
  BY <1>0, <1>0a, <1>2, AppendProperties
<1>4. /\ DOMAIN deals = 1..Len(deals) /\ Len(deals) \in Nat
      /\ DOMAIN deals' = 1..Len(deals')
  BY <1>3, DealNumbers, LenProperties
<1>5. Grows
  BY <1>1, <1>3, <1>4 DEF Grows
<1>6. /\ \A u \in Tickets : Room'[u] \in Int /\ Room[u] \in Int
      /\ \A u \in Tickets : u # t => Room'[u] = Room[u]
      /\ Room[t] = lots[t] /\ Room'[t] = lots[t] - n
  BY <1>1 DEF Room, BrokerInv
<1>7. SumOver(Room', Tickets) = SumOver(Room, Tickets) - n
  <2> DEFINE before == Room
             after == Room'
  <2>1. /\ \A u \in Tickets : after[u] \in Int /\ before[u] \in Int
        /\ \A u \in Tickets : u # t => after[u] = before[u]
        /\ before[t] = lots[t] /\ after[t] = lots[t] - n
    BY <1>6
  <2>2. SumOver(before, Tickets) \in Nat
    BY RoomTyped
  <2> HIDE DEF before, after
  <2>3. SumOver(after, Tickets) = SumOver(before, Tickets) - before[t] + after[t]
    BY <2>1, SumOverChanged, TicketsAssumption
  <2>4. SumOver(after, Tickets) = SumOver(before, Tickets) - n
    BY <1>1, <2>1, <2>2, <2>3
  <2> QED
    BY <2>4 DEF before, after
<1>8. RoomLeft'
  <2> DEFINE rest == SumOver(Room, Tickets)
             all == Cardinality(Tickets) * Volume
  <2>1. rest \in Nat /\ all \in Nat /\ Len(deals) + rest <= all
    BY RoomTyped DEF BrokerInv, RoomLeft
  <2> HIDE DEF rest, all
  <2>2. Len(deals) + 1 + (rest - n) <= all
    BY <1>1, <1>4, <2>1
  <2> QED
    BY <1>3, <1>7, <2>2 DEF rest, all, RoomLeft
<1>9. BrokerInv'
  <2>1. lots' \in [Tickets -> 0..Volume] /\ \A u \in Tickets : lots'[u] > 0 => lots[u] > 0
    BY <1>1
  <2> QED
    BY <1>1, <1>3, <1>8, <2>1 DEF BrokerInv
<1>11. \A e \in Range(events) : e.kind = "in" => stage'[e.of] = "filled"
  BY <1>1 DEF EventInv
<1>10. EventInv'
  <2>1. Own \subseteq Own'
    BY <1>5, ReportsGrow
  <2>2. CASE events' = events
    BY <1>11, <2>1, <2>2 DEF EventInv
  <2>3. CASE events' # events
    <3> DEFINE e == [kind |-> "out", of |-> Len(deals) + 1]
    <3>1. events' = Append(events, e) /\ ours
      BY <2>3 DEF Deal, Raised
    <3>2. e \in AnEvent /\ e.of \in Own'
      <4>1. Len(deals) + 1 \in DOMAIN deals' /\ deals'[Len(deals) + 1].ours
        BY <1>3, <1>4, <3>1 DEF d
      <4> QED
        BY <1>4, <4>1 DEF AnEvent, Own
    <3>4. e.kind # "in"
      OBVIOUS
    <3> HIDE DEF e
    <3>3. events' \in Seq(AnEvent) /\ Range(events') = Range(events) \union {e}
      BY <3>1, <3>2, RangeAppend DEF EventInv
    <3> QED
      BY <1>11, <2>1, <3>2, <3>3, <3>4 DEF EventInv
  <2> QED
    BY <2>2, <2>3
<1> QED
  BY <1>3, <1>5, <1>9, <1>10 DEF d

\* A position wanted or resting comes to hold its lots, or rests, or is given up.
LEMMA StageStep ==
    ASSUME BrokerInv, NEW t \in Tickets, stage[t] \in {"wanted", "resting"},
           NEW s \in {"resting", "unfilled", "filled"}, stage' = [stage EXCEPT ![t] = s],
           lots' = IF s = "filled" THEN [lots EXCEPT ![t] = Volume] ELSE lots,
           deals' = deals
    PROVE  BrokerInv' /\ Grows /\ stage'[t] = s
<1>1. /\ lots \in [Tickets -> 0..Volume] /\ Volume \in Nat \ {0} /\ lots[t] \in 0..Volume
      /\ stage \in [Tickets -> {"wanted", "resting", "unfilled", "filled"}]
      /\ lots[t] = 0
  BY ReportingAssumption DEF BrokerInv
<1>2. /\ \A u \in Tickets : u # t => stage'[u] = stage[u] /\ lots'[u] = lots[u]
      /\ stage'[t] = s /\ lots'[t] = IF s = "filled" THEN Volume ELSE 0
  BY <1>1
<1>3. /\ stage' \in [Tickets -> {"wanted", "resting", "unfilled", "filled"}]
      /\ lots' \in [Tickets -> 0..Volume]
  BY <1>1
<1>4. Grows
  BY <1>2 DEF Grows
<1>5. \A u \in Tickets : Room'[u] \in Int /\ Room[u] \in Int /\ Room'[u] <= Room[u]
  BY <1>1, <1>2, <1>3 DEF Room
<1>6. SumOver(Room', Tickets) <= SumOver(Room, Tickets)
  <2> DEFINE before == Room
             after == Room'
  <2>1. \A u \in Tickets : after[u] \in Int /\ before[u] \in Int /\ after[u] <= before[u]
    BY <1>5
  <2> HIDE DEF before, after
  <2>2. SumOver(after, Tickets) <= SumOver(before, Tickets)
    BY <2>1, SumOverMonotone, TicketsAssumption
  <2> QED
    BY <2>2 DEF before, after
<1>7. RoomLeft'
  <2> DEFINE rest == SumOver(Room, Tickets)
             left == SumOver(Room', Tickets)
             all == Cardinality(Tickets) * Volume
  <2>1. rest \in Nat /\ all \in Nat /\ Len(deals) + rest <= all /\ Len(deals) \in Nat
    BY RoomTyped, DealNumbers DEF BrokerInv, RoomLeft
  <2>2. left \in Int
    <3> DEFINE after == Room'
    <3>1. \A u \in Tickets : after[u] \in Int
      BY <1>5
    <3> HIDE DEF after
    <3>2. SumOver(after, Tickets) \in Int
      BY <3>1, SumOverInt, TicketsAssumption
    <3> QED
      BY <3>2 DEF after
  <2>3. left <= rest
    BY <1>6
  <2> HIDE DEF rest, left, all
  <2>4. Len(deals) + left <= all
    BY <2>1, <2>2, <2>3
  <2> QED
    BY <2>4 DEF left, all, RoomLeft
<1>8. BrokerInv'
  BY <1>1, <1>2, <1>3, <1>7 DEF BrokerInv
<1> QED
  BY <1>2, <1>4, <1>8

LEMMA BrokerSame ==
    ASSUME UNCHANGED broker
    PROVE  Grows /\ (BrokerInv => BrokerInv')
<1>1. Grows
  BY DEF broker, Grows
<1>2. Room' = Room
  BY DEF broker, Room
<1> QED
  BY <1>1, <1>2 DEF broker, BrokerInv, RoomLeft

\* An event raised by the broker joins the queue.
LEMMA RaisedStep ==
    ASSUME BrokerInv, EventInv, Grows, NEW t \in Tickets, NEW kind \in {"in", "retired"},
           events' = Raised(kind, t), kind = "in" => stage'[t] = "filled"
    PROVE  EventInv'
<1> DEFINE e == [kind |-> kind, of |-> t]
<1>1. Own \subseteq Own'
  BY ReportsGrow
<1>2. e \in AnEvent /\ e.kind # "out" /\ (e.kind = "in" => stage'[e.of] = "filled")
  BY DEF AnEvent
<1>3. events' = events \/ events' = Append(events, e)
  BY DEF Raised
<1> HIDE DEF e
<1>6. \A x \in Range(events) : x.kind = "in" => stage'[x.of] = "filled"
  BY EventTickets DEF EventInv, Grows
<1>4. CASE events' = events
  BY <1>1, <1>4, <1>6 DEF EventInv
<1>5. CASE events' = Append(events, e)
  <2>1. events' \in Seq(AnEvent) /\ Range(events') = Range(events) \union {e}
    BY <1>2, <1>5, RangeAppend DEF EventInv
  <2> QED
    BY <1>1, <1>2, <1>6, <2>1 DEF EventInv
<1> QED
  BY <1>3, <1>4, <1>5

-----------------------------------------------------------------------------
(* What the server's two endpoints do to the tables *)

\* The sums the book shows are sums over the deals on file.
LEMMA SumsAreOver ==
    ASSUME NEW p, NEW t
    PROVE  /\ LotsOf(p, t) = SumOver([d \in DOMAIN p |-> p[d].lots], Legs(p, t))
           /\ PipsOf(p, t) = SumOver([d \in DOMAIN p |-> p[d].pips], Legs(p, t))
<1>1. Legs(p, t) \subseteq DOMAIN p
  BY DEF Legs
<1>2. /\ [d \in Legs(p, t) |-> p[d].lots]
            = [d \in Legs(p, t) |-> [e \in DOMAIN p |-> p[e].lots][d]]
      /\ [d \in Legs(p, t) |-> p[d].pips]
            = [d \in Legs(p, t) |-> [e \in DOMAIN p |-> p[e].pips][d]]
  BY <1>1
<1> QED
  BY <1>2 DEF LotsOf, PipsOf, SumOver

LEMMA SumsTyped ==
    ASSUME NEW p, IsFiniteSet(DOMAIN p), \A d \in DOMAIN p : p[d].lots \in Nat /\ p[d].pips \in Int,
           NEW t
    PROVE  LotsOf(p, t) \in Int /\ PipsOf(p, t) \in Int
<1> DEFINE f == [d \in DOMAIN p |-> p[d].lots]
           g == [d \in DOMAIN p |-> p[d].pips]
           legs == Legs(p, t)
<1>1. legs \subseteq DOMAIN p /\ IsFiniteSet(legs)
  BY FS_Subset DEF Legs
<1>2. \A d \in legs : f[d] \in Int /\ g[d] \in Int
  BY <1>1
<1>3. LotsOf(p, t) = SumOver(f, legs) /\ PipsOf(p, t) = SumOver(g, legs)
  BY SumsAreOver
<1> HIDE DEF f, g, legs
<1> QED
  BY <1>1, <1>2, <1>3, SumOverInt

\* The tables after a closing report are well formed, and the trade's row is one.
LEMMA FiledTyped ==
    ASSUME NEW r
    PROVE  Filed(r) \in CloseReasons
BY DEF Filed, Normal, CloseReasons

LEMMA RecordedTyped ==
    ASSUME BrokerInv, BookInv, NEW r \in Reports, r.event = "closed"
    PROVE  /\ DOMAIN Recorded(r) = DOMAIN partial \union {r.deal}
           /\ DOMAIN Recorded(r) \subseteq DOMAIN deals
           /\ \A d \in DOMAIN Recorded(r) : Recorded(r)[d] \in Partial
           /\ Recorded(r)[r.deal] = Kept(r)
           /\ \A d \in DOMAIN partial \ {r.deal} : Recorded(r)[d] = partial[d]
<1>1. r.deal \in DOMAIN deals /\ r.ticket \in Tickets /\ r.lots \in Nat /\ r.pips \in Int
  BY ReportShape DEF AReport, Own
<1>2. Fresh(r) \in Partial
  BY <1>1, FiledTyped DEF Fresh, Partial
<1>3. Kept(r) \in Partial
  <2>1. CASE r.deal \notin DOMAIN partial
    BY <1>2, <2>1 DEF Kept
  <2>2. CASE r.deal \in DOMAIN partial
    <3>1. partial[r.deal] \in Partial
      BY <2>2 DEF BookInv, BookTypeOK
    <3>2. \A p \in Int, w \in CloseReasons : [Fresh(r) EXCEPT !.pips = p, !.reason = w] \in Partial
      BY <1>2 DEF Partial
    <3>3. Kept(r) = [Fresh(r) EXCEPT
                        !.pips   = IF @ = 0 THEN partial[r.deal].pips ELSE @,
                        !.reason = IF @ = "manual" THEN partial[r.deal].reason ELSE @]
      BY <2>2 DEF Kept
    <3> QED
      BY <1>2, <3>1, <3>2, <3>3 DEF Partial
  <2> QED
    BY <2>1, <2>2
<1>4. /\ DOMAIN Recorded(r) = DOMAIN partial \union {r.deal}
      /\ Recorded(r)[r.deal] = Kept(r)
      /\ \A d \in DOMAIN partial \ {r.deal} : Recorded(r)[d] = partial[d]
  BY DEF Recorded
<1>5. DOMAIN partial \subseteq DOMAIN deals /\ \A d \in DOMAIN partial : partial[d] \in Partial
  BY DEF BookInv, BookTypeOK
<1> QED
  BY <1>1, <1>3, <1>4, <1>5

\* The row a closing report leaves: its lots, its pips and its end.
LEMMA EndedTyped ==
    ASSUME NEW r, NEW row \in Trade, r.reason \in CloseReasons, r.replay \in BOOLEAN
    PROVE  Ended(r, row) \in Trade
<1>1. Filed(r) \in Closures /\ Note(r) \in Closures
  BY FiledTyped DEF Note, Closures
<1>2. \A s \in Statuses : [row EXCEPT !.status = s] \in Trade
  BY DEF Trade
<1>3. \A s \in Statuses, c \in Closures :
         [row EXCEPT !.status = s, !.closure = c, !.ended = TRUE] \in Trade
  BY DEF Trade
<1>4. {"partially_closed", "stopped_out", "fully_closed"} \subseteq Statuses
  BY DEF Statuses, Live
<1> QED
  BY <1>1, <1>2, <1>3, <1>4 DEF Ended

LEMMA RecordTyped ==
    ASSUME BrokerInv, BookInv, NEW r \in Reports, Record(r)
    PROVE  BookTypeOK' /\ DOMAIN partial' \subseteq DOMAIN deals
<1>1. r \in AReport /\ r.ticket \in Tickets
  BY ReportShape DEF AReport
<1>2. /\ trade \in [Tickets -> Trade] /\ trade[r.ticket] \in Trade
      /\ DOMAIN partial \subseteq DOMAIN deals /\ DOMAIN partial \subseteq Deals
      /\ partial \in [DOMAIN partial -> Partial]
  BY <1>1 DEF BookInv, BookTypeOK
<1>3. CASE r.event = "opened"
  <2>1. r.lots \in Nat /\ r.final \in BOOLEAN /\ r.origin = "bot"
    BY <1>1, <1>3, ReportingAssumption DEF AReport
  <2>2. \A n \in Nat, f \in BOOLEAN :
           [trade[r.ticket] EXCEPT !.status = "open", !.origin = "bot", !.initial = n,
                                   !.remaining = n, !.final = f] \in Trade
    <3>1. "open" \in Statuses
      BY DEF Statuses, Live
    <3> QED
      BY <1>2, <3>1 DEF Trade
  <2>3. Opened(r) \in Trade
    BY <2>1, <2>2 DEF Opened
  <2> QED
    BY <1>1, <1>2, <1>3, <2>3 DEF Record, RecordOpen, BookTypeOK
<1>4. CASE r.event # "opened"
  <2>0. r.event = "closed" /\ RecordClose(r)
    BY <1>4, ReportShape DEF Record
  <2>1. CASE trade[r.ticket].status = "absent"
    BY <1>2, <2>0, <2>1 DEF RecordClose, book, BookTypeOK
  <2>2. CASE trade[r.ticket].status # "absent"
    <3> DEFINE p == Recorded(r)
    <3>1. /\ DOMAIN p \subseteq DOMAIN deals /\ \A d \in DOMAIN p : p[d] \in Partial
      BY <2>0, RecordedTyped
    <3>2. IsFiniteSet(DOMAIN p) /\ DOMAIN p \subseteq Deals
      BY <3>1, DealNumbers, FS_Subset
    <3>3. /\ partial' = p
          /\ trade' = [trade EXCEPT ![r.ticket] = Ended(r, Summed(r, p))]
      BY <2>0, <2>2 DEF RecordClose
    <3>4. p \in [DOMAIN p -> Partial]
      BY <3>1 DEF Recorded
    <3> HIDE DEF p
    <3>5. LotsOf(p, r.ticket) \in Int /\ PipsOf(p, r.ticket) \in Int
      BY <3>1, <3>2, SumsTyped DEF Partial
    <3>6. Summed(r, p) \in Trade
      <4>1. \A n \in Nat, i \in Int :
               [trade[r.ticket] EXCEPT !.remaining = n, !.pips = i, !.money = "sum"] \in Trade
        BY <1>2 DEF Trade
      <4>2. trade[r.ticket].initial \in Nat
        BY <1>2 DEF Trade
      <4>3. (IF trade[r.ticket].initial - LotsOf(p, r.ticket) > 0
             THEN trade[r.ticket].initial - LotsOf(p, r.ticket) ELSE 0) \in Nat
        BY <3>5, <4>2
      <4> QED
        BY <3>5, <4>1, <4>3 DEF Summed
    <3>7. Ended(r, Summed(r, p)) \in Trade
      <4>1. r.reason \in CloseReasons /\ r.replay \in BOOLEAN
        BY <1>1, <2>0 DEF AReport
      <4> QED
        BY <3>6, <4>1, EndedTyped
    <3>8. trade' \in [Tickets -> Trade]
      BY <1>2, <3>3, <3>7
    <3> QED
      BY <3>1, <3>2, <3>3, <3>4, <3>8 DEF BookTypeOK
  <2> QED
    BY <2>1, <2>2
<1> QED
  BY <1>3, <1>4

LEMMA ReconcileTyped ==
    ASSUME BookInv, NEW held, DOMAIN held \subseteq Tickets,
           \A t \in DOMAIN held : held[t] \in 1..Volume, Reconcile(held)
    PROVE  BookTypeOK' /\ partial' = partial
<1>1. trade \in [Tickets -> Trade] /\ partial' = partial /\ trade' = Reconciled(held)
  BY DEF BookInv, BookTypeOK, Reconcile
<1>2. \A t \in DOMAIN held : held[t] \in Nat
  BY ReportingAssumption
<1>3. {"open", "partially_closed", "fully_closed"} \subseteq Statuses
      /\ "reconciled_closed" \in Closures /\ "none" \in Closures
  BY DEF Statuses, Live, Closures
<1>4. ASSUME NEW n \in Nat PROVE Adopted(n) \in Trade
  <2>1. NoTrade \in Trade
    BY <1>3 DEF NoTrade, Trade, Statuses
  <2>2. \A row \in Trade :
           [row EXCEPT !.status = "open", !.origin = "adopted", !.initial = n,
                       !.remaining = n, !.money = "floating"] \in Trade
    BY <1>3 DEF Trade
  <2> HIDE DEF NoTrade
  <2> QED
    BY <2>1, <2>2 DEF Adopted
<1>5. ASSUME NEW n \in Nat, NEW row \in Trade PROVE Refreshed(row, n) \in Trade
  <2>1. \A s \in Statuses :
           [row EXCEPT !.remaining = n, !.status = s, !.money = "floating"] \in Trade
    BY DEF Trade
  <2>2. row.status \in Statuses
    BY DEF Trade
  <2> QED
    BY <1>3, <2>1, <2>2 DEF Refreshed
<1>6. ASSUME NEW row \in Trade PROVE Vanished(row) \in Trade
  BY <1>3 DEF Vanished, Trade
<1>7. trade' \in [Tickets -> Trade]
  <2> SUFFICES ASSUME NEW t \in Tickets PROVE Reconciled(held)[t] \in Trade
    BY <1>1 DEF Reconciled
  <2>1. trade[t] \in Trade
    BY <1>1
  <2>2. \/ t \in DOMAIN held /\ Reconciled(held)[t] = Adopted(held[t])
        \/ t \in DOMAIN held /\ Reconciled(held)[t] = Refreshed(trade[t], held[t])
        \/ Reconciled(held)[t] = Vanished(trade[t])
        \/ Reconciled(held)[t] = trade[t]
    BY DEF Reconciled
  <2> QED
    BY <1>2, <1>4, <1>5, <1>6, <2>1, <2>2
<1> QED
  BY <1>1, <1>7 DEF BookInv, BookTypeOK

-----------------------------------------------------------------------------
(* The whole state, action by action *)

LEMMA TypeInit == Init => TypeInv
<1> SUFFICES ASSUME Init PROVE TypeInv
  OBVIOUS
<1>1. BrokerInv
  <2>1. /\ stage = [t \in Tickets |-> "wanted"] /\ lots = [t \in Tickets |-> 0] /\ deals = <<>>
        /\ Volume \in Nat
    BY ReportingAssumption DEF Init
  <2>2. /\ deals \in Seq(ADeal) /\ Len(deals) = 0
        /\ lots \in [Tickets -> 0..Volume]
        /\ stage \in [Tickets -> {"wanted", "resting", "unfilled", "filled"}]
        /\ \A t \in Tickets : lots[t] = 0
    BY <2>1
  <2>3. SumOver(Room, Tickets) <= Cardinality(Tickets) * Volume
    <3> DEFINE room == Room
    <3>1. \A t \in Tickets : room[t] \in Nat /\ room[t] <= Volume
      BY <2>1 DEF Room
    <3> HIDE DEF room
    <3>2. \A t \in Tickets : room[t] \in Int /\ 1 * room[t] <= Volume
      BY <2>1, <3>1
    <3>3. 1 * SumOver(room, Tickets) <= Cardinality(Tickets) * Volume
      BY <2>1, <3>2, SumOverBounded, TicketsAssumption
    <3>4. SumOver(room, Tickets) \in Nat
      BY <3>1, SumOverNat, TicketsAssumption
    <3> DEFINE all == Cardinality(Tickets) * Volume
               rest == SumOver(room, Tickets)
    <3>5. 1 * rest <= all /\ rest \in Nat
      BY <3>3, <3>4
    <3> HIDE DEF all, rest
    <3>6. rest <= all
      BY <3>5
    <3> QED
      BY <3>6 DEF room, all, rest
  <2>4. RoomLeft
    <3> DEFINE all == Cardinality(Tickets) * Volume
               rest == SumOver(Room, Tickets)
    <3>1. rest <= all /\ rest \in Nat
      <4>1. \A t \in Tickets : Room[t] \in Nat
        BY <2>1 DEF Room
      <4> DEFINE room == Room
      <4> HIDE DEF room
      <4>2. SumOver(room, Tickets) \in Nat
        BY <4>1, SumOverNat, TicketsAssumption DEF room
      <4> QED
        BY <2>3, <4>2 DEF room
    <3> HIDE DEF all, rest
    <3>2. Len(deals) + rest <= all
      BY <2>2, <3>1
    <3> QED
      BY <3>2 DEF RoomLeft, all, rest
  <2> QED
    BY <2>2, <2>4 DEF BrokerInv
<1>2. EventInv
  BY RangeEmpty, EmptySeq DEF Init, EventInv
<1>3. BufferInv
  <2>1. pending = <<>> /\ kept = <<>> /\ MaxPending \in Nat
    BY ReportingAssumption DEF Init
  <2> QED
    BY <2>1, RangeEmpty, EmptySeq DEF BufferInv
<1>4. WireInv
  BY DEF Init, WireInv
<1>5. BookInv
  <2>1. NoTrade \in Trade
    BY DEF NoTrade, Trade, Statuses, Live, Closures
  <2> QED
    BY <2>1 DEF Init, BookInit, BookInv, BookTypeOK
<1>6. OtherInv
  BY DEF Init, OtherInv, Handlers, Nothing
<1> QED
  BY <1>1, <1>2, <1>3, <1>4, <1>5, <1>6 DEF TypeInv

-----------------------------------------------------------------------------
(* What a terminal replays when it is attached *)

\* Induction over the natural numbers, for a set of them.
LEMMA SetOfNumbers ==
    ASSUME NEW F, 0 \in F, \A n \in Nat : n \in F => n + 1 \in F
    PROVE  Nat \subseteq F
<1> SUFFICES ASSUME Nat \ F # {} PROVE FALSE
  OBVIOUS
<1> DEFINE bad == Nat \ F
<1>1. PICK n \in bad : \A m \in bad : ~(<<m, n>> \in OpToRel(<, Nat))
  <2> DEFINE below == OpToRel(<, Nat)
  <2>1. IsWellFoundedOn(below, Nat) /\ bad \subseteq Nat /\ bad # {}
    BY NatLessThanWellFounded
  <2> HIDE DEF bad, below
  <2>2. \E n \in bad : \A m \in bad : ~(<<m, n>> \in below)
    BY <2>1, WFMin
  <2> QED
    BY <2>2 DEF below
<1>2. \A m \in Nat : m < n => m \in F
  BY <1>1 DEF OpToRel
<1>3. n \in Nat /\ n # 0 /\ n \notin F
  BY <1>1
<1>4. n - 1 \in Nat /\ n - 1 < n
  BY <1>3
<1>5. n - 1 + 1 \in F
  BY <1>2, <1>4
<1> QED
  BY <1>3, <1>5

Echo(priced, n) == Closing(n, IF priced THEN n ELSE 0, Broad(n), TRUE)

ReplayStep(priced, f, n) ==
    IF n = 0 THEN <<>>
    ELSE IF deals[n].ours THEN Queued(f[n - 1], Echo(priced, n)) ELSE f[n - 1]

ReplaysTo(priced, f, last) == f = [n \in 0..last |-> ReplayStep(priced, f, n)]

\* There is a replay up to any deal.
LEMMA ReplayExists ==
    ASSUME NEW priced
    PROVE  \A last \in Nat : \E f : ReplaysTo(priced, f, last)
<1> DEFINE F == {last \in Nat : \E f : ReplaysTo(priced, f, last)}
<1>1. 0 \in F
  <2>1. ReplaysTo(priced, [n \in 0..0 |-> <<>>], 0)
    BY DEF ReplaysTo, ReplayStep
  <2> QED
    BY <2>1
<1>2. ASSUME NEW m \in Nat, m \in F PROVE m + 1 \in F
  <2>1. PICK f : ReplaysTo(priced, f, m)
    BY <1>2
  <2> DEFINE g == [n \in 0..(m + 1) |-> IF n = m + 1 THEN ReplayStep(priced, f, n) ELSE f[n]]
  <2>2. ASSUME NEW n \in 0..(m + 1) PROVE g[n] = ReplayStep(priced, g, n)
    <3>1. n # 0 => n - 1 \in 0..m /\ g[n - 1] = f[n - 1]
      OBVIOUS
    <3>2. ReplayStep(priced, g, n) = ReplayStep(priced, f, n)
      <4> HIDE DEF g
      <4> QED
        BY <3>1 DEF ReplayStep
    <3>3. n # m + 1 => n \in 0..m /\ f[n] = ReplayStep(priced, f, n)
      BY <2>1 DEF ReplaysTo
    <3> QED
      BY <3>2, <3>3
  <2>3. g = [n \in 0..(m + 1) |-> ReplayStep(priced, g, n)]
    BY <2>2
  <2>4. ReplaysTo(priced, g, m + 1)
    BY <2>3 DEF ReplaysTo
  <2> QED
    BY <2>4
<1> HIDE DEF F
<1>3. Nat \subseteq F
  BY <1>1, <1>2, SetOfNumbers
<1> QED
  BY <1>3 DEF F

\* A replay fits the buffer and reports our own deals.
LEMMA ReplayTyped ==
    ASSUME BrokerInv, NEW priced \in BOOLEAN
    PROVE  /\ Replayed(priced) \in Seq(AReport)
           /\ Range(Replayed(priced)) \subseteq Reports
           /\ Len(Replayed(priced)) <= MaxPending
<1> DEFINE f == CHOOSE g : ReplaysTo(priced, g, Len(deals))
           Good(s) == /\ s \in Seq(AReport) /\ Range(s) \subseteq Reports
                      /\ Len(s) <= MaxPending
           F == {n \in Nat : n <= Len(deals) => Good(f[n])}
<1>1. Len(deals) \in Nat /\ DOMAIN deals = 1..Len(deals) /\ MaxPending \in Nat
  BY DealNumbers, ReportingAssumption
<1>2. Replayed(priced) = f[Len(deals)]
  BY DEF Replayed, ReplaysTo, ReplayStep, Echo
<1>3. ReplaysTo(priced, f, Len(deals))
  BY <1>1, ReplayExists
<1>4. \A n \in 0..Len(deals) : f[n] = ReplayStep(priced, f, n)
  BY <1>3 DEF ReplaysTo
<1> HIDE DEF f
<1>5. Good(<<>>)
  BY <1>1, RangeEmpty, EmptySeq
<1>6. 0 \in F
  <2>1. f[0] = <<>>
    BY <1>1, <1>4 DEF ReplayStep
  <2> HIDE DEF Good
  <2> QED
    BY <1>5, <2>1
<1>7. ASSUME NEW n \in Nat, n \in F PROVE n + 1 \in F
  <2> SUFFICES ASSUME n + 1 <= Len(deals) PROVE Good(f[n + 1])
    OBVIOUS
  <2>1. Good(f[n]) /\ n + 1 \in DOMAIN deals /\ n + 1 - 1 = n
    BY <1>1, <1>7
  <2>1a. /\ f[n + 1] = ReplayStep(priced, f, n + 1)
         /\ ReplayStep(priced, f, n + 1) =
               IF deals[n + 1].ours THEN Queued(f[n], Echo(priced, n + 1)) ELSE f[n]
    <3>1. n + 1 \in 0..Len(deals) /\ n + 1 # 0
      BY <1>1, <2>1
    <3>2. f[n + 1] = ReplayStep(priced, f, n + 1)
      BY <1>4, <3>1
    <3> HIDE DEF Good
    <3> QED
      BY <2>1, <3>1, <3>2 DEF ReplayStep
  <2>2. CASE deals[n + 1].ours
    <3> DEFINE r == Echo(priced, n + 1)
    <3>1. f[n + 1] = Queued(f[n], r)
      BY <2>1a, <2>2
    <3>2. r \in Reports
      <4>1. Broad(n + 1) \in CloseReasons
        BY DEF Broad, CloseReasons
      <4>2. (IF priced THEN n + 1 ELSE 0) \in 0..Len(deals)
        BY <1>1, <2>1
      <4>3. n + 1 \in Own
        BY <2>1, <2>2 DEF Own
      <4> QED
        BY <4>1, <4>2, <4>3, TheirReports DEF Echo
    <3>3. r \in AReport
      BY <3>2, ReportShape
    <3> HIDE DEF r
    <3> QED
      BY <2>1, <3>1, <3>2, <3>3, QueuedBuffer
  <2>3. CASE ~deals[n + 1].ours
    <3>1. f[n + 1] = f[n]
      BY <2>1a, <2>3
    <3> QED
      BY <2>1, <3>1
  <2> QED
    BY <2>2, <2>3
<1> HIDE DEF F
<1>8. Nat \subseteq F
  BY <1>6, <1>7, SetOfNumbers
<1> QED
  BY <1>1, <1>2, <1>8 DEF F

-----------------------------------------------------------------------------
(* Every action keeps every shape *)

\* What a step that leaves a part alone keeps of it, though the broker moves on.
LEMMA Carried ==
    ASSUME TypeInv, Grows
    PROVE  /\ events' = events => EventInv'
           /\ pending' = pending /\ kept' = kept /\ handler' = handler => BufferInv'
           /\ wire' = wire => WireInv'
           /\ UNCHANGED book => BookInv'
<1>1. Reports \subseteq Reports' /\ Own \subseteq Own' /\ DOMAIN deals \subseteq DOMAIN deals'
  BY ReportsGrow DEF Grows
<1>2. events' = events => EventInv'
  BY <1>1, EventTickets DEF TypeInv, EventInv, Grows
<1>3. pending' = pending /\ kept' = kept /\ handler' = handler => BufferInv'
  BY <1>1 DEF TypeInv, BufferInv, Flushing
<1>4. wire' = wire => WireInv'
  BY <1>1 DEF TypeInv, WireInv
<1>5. UNCHANGED book => BookInv'
  <2> SUFFICES ASSUME UNCHANGED book PROVE BookInv'
    OBVIOUS
  <2>1. trade' = trade /\ partial' = partial
    BY DEF book
  <2> QED
    BY <1>1, <2>1 DEF TypeInv, BookInv, BookTypeOK
<1> QED
  BY <1>2, <1>3, <1>4, <1>5

LEMMA OtherSame ==
    ASSUME OtherInv, handler' \in Handlers,
           UNCHANGED <<reasons, placed, asked, taken, sent, discarded, faults, crashes, detaches>>
    PROVE  OtherInv'
BY DEF OtherInv

LEMMA BrokerActsTyped == TypeInv /\ BrokerActs => TypeInv'
<1> SUFFICES ASSUME TypeInv, NEW t \in Tickets,
                    \/ BrokerClose(t, "sl") \/ BrokerClose(t, "tp") \/ HandClose(t)
                    \/ OrderFills(t) \/ OrderExpires(t)
             PROVE  TypeInv'
  BY DEF BrokerActs
<1>0. BrokerInv /\ EventInv /\ OtherInv /\ handler \in Handlers
  BY DEF TypeInv, OtherInv
<1>1. ASSUME BrokerInv', EventInv', Grows,
             UNCHANGED <<book, handler, pending, kept, sent, reasons, placed, asked, taken, wire,
                         budget>>
      PROVE  TypeInv'
  <2>1. /\ handler' = handler /\ pending' = pending /\ kept' = kept /\ wire' = wire
        /\ UNCHANGED book
        /\ UNCHANGED <<reasons, placed, asked, taken, sent, discarded, faults, crashes, detaches>>
    BY <1>1 DEF budget
  <2>2. OtherInv'
    BY <1>0, <2>1, OtherSame
  <2>3. BufferInv' /\ WireInv' /\ BookInv'
    BY <1>1, <2>1, Carried
  <2> QED
    BY <1>1, <2>2, <2>3 DEF TypeInv
<1>2. ASSUME NEW why \in {"sl", "tp"}, BrokerClose(t, why) PROVE TypeInv'
  <2>1. Deal(t, lots[t], why, TRUE)
    BY <1>2 DEF BrokerClose
  <2>2. BrokerInv' /\ EventInv' /\ Grows
    BY <1>0, <2>1, DealStep DEF Whys
  <2> QED
    BY <1>1, <1>2, <2>2 DEF BrokerClose
<1>3. CASE HandClose(t)
  <2>1. Deal(t, 1, "hand", FALSE)
    BY <1>3 DEF HandClose
  <2>2. BrokerInv' /\ EventInv' /\ Grows
    BY <1>0, <2>1, DealStep DEF Whys
  <2> QED
    BY <1>1, <1>3, <2>2 DEF HandClose
<1>4. CASE OrderFills(t)
  <2>1. BrokerInv' /\ Grows /\ stage'[t] = "filled"
    BY <1>0, <1>4, StageStep DEF OrderFills
  <2>2. EventInv'
    BY <1>0, <1>4, <2>1, RaisedStep DEF OrderFills
  <2> QED
    BY <1>1, <1>4, <2>1, <2>2 DEF OrderFills
<1>5. CASE OrderExpires(t)
  <2>1. BrokerInv' /\ Grows
    BY <1>0, <1>5, StageStep DEF OrderExpires
  <2>2. EventInv'
    BY <1>0, <1>5, <2>1, RaisedStep DEF OrderExpires
  <2> QED
    BY <1>1, <1>5, <2>1, <2>2 DEF OrderExpires
<1> QED
  BY <1>2, <1>3, <1>4, <1>5

LEMMA AskTyped ==
    ASSUME TypeInv, NEW t \in Tickets, NEW r \in Exits, Ask(t, r)
    PROVE  TypeInv'
<1>1. /\ UNCHANGED book /\ UNCHANGED broker /\ events' = events /\ pending' = pending
      /\ kept' = kept /\ handler' = handler /\ wire' = wire
      /\ UNCHANGED <<reasons, placed, taken, sent, discarded, faults, crashes, detaches>>
  BY DEF Ask, terminal, budget
<1>2. Grows /\ BrokerInv'
  BY <1>1, BrokerSame DEF TypeInv
<1>3. EventInv' /\ BufferInv' /\ WireInv' /\ BookInv'
  BY <1>1, <1>2, Carried
<1>4. OtherInv'
  <2> DEFINE c == [ticket |-> t, reason |-> r]
  <2>1. c \in Closes /\ c \notin taken /\ asked' = asked \union {c}
    BY DEF Closes, Ask
  <2> HIDE DEF c
  <2> QED
    BY <1>1, <2>1 DEF TypeInv, OtherInv
<1> QED
  BY <1>2, <1>3, <1>4 DEF TypeInv

\* A step of the terminal's own: the broker's part stays, and the rest can be taken apart.
LEMMA TerminalStep ==
    ASSUME TypeInv, UNCHANGED broker
    PROVE  /\ BrokerInv' /\ Reports' = Reports /\ Own' = Own
           /\ events' = events => EventInv'
           /\ wire' = wire => WireInv'
           /\ UNCHANGED book => BookInv'
<1>1. Grows /\ BrokerInv'
  BY BrokerSame DEF TypeInv
<1>2. stage' = stage /\ lots' = lots /\ deals' = deals
  BY DEF broker
<1>3. Own' = Own
  BY <1>2 DEF Own
<1>4. Reports' = Reports
  BY <1>2 DEF Reports, Opening, Closing
<1> QED
  BY <1>1, <1>3, <1>4, Carried

LEMMA EventTyped == TypeInv /\ OnTradeTransaction => TypeInv'
<1> SUFFICES ASSUME TypeInv, OnTradeTransaction PROVE TypeInv'
  OBVIOUS
<1> DEFINE e == Head(events)
           rest == Tail(events)
<1>1. /\ UNCHANGED broker /\ UNCHANGED book /\ handler' = handler /\ kept' = kept
      /\ wire' = wire /\ UNCHANGED <<asked, taken, sent, discarded, faults, crashes, detaches>>
      /\ handler = "idle" /\ events # <<>> /\ events' = rest
      /\ CASE e.kind = "out" -> OnExitDeal(e.of)
           [] e.kind = "in" -> OnEntryDeal(e.of)
           [] e.kind = "retired" -> OnOrderRetired(e.of)
  BY DEF OnTradeTransaction, budget
<1>2. /\ BrokerInv' /\ Reports' = Reports /\ Own' = Own /\ WireInv' /\ BookInv'
  BY <1>1, TerminalStep
<1>3. /\ e \in AnEvent /\ (e.kind = "out" => e.of \in Own) /\ rest \in Seq(AnEvent)
      /\ e.kind = "in" => stage[e.of] = "filled"
      /\ Range(rest) \subseteq Range(events)
  BY <1>1, RangeTail DEF TypeInv, EventInv
<1> HIDE DEF e, rest
<1>4. EventInv'
  BY <1>1, <1>2, <1>3 DEF TypeInv, EventInv, broker
<1>5. /\ pending \in Seq(AReport) /\ kept = <<>> /\ MaxPending \in Nat
      /\ Range(pending) \subseteq Reports /\ Len(pending) <= MaxPending
      /\ Len(kept) = 0 /\ Range(kept) = {} /\ kept \in Seq(AReport)
  <2>1. kept = <<>>
    BY <1>1 DEF TypeInv, BufferInv, Flushing
  <2>2. Len(pending) \in Nat
    BY LenProperties DEF TypeInv, BufferInv
  <2> QED
    BY <2>1, <2>2, RangeEmpty, ReportingAssumption DEF TypeInv, BufferInv
<1>6. ASSUME NEW r \in Reports, pending' = Queued(pending, r) PROVE BufferInv'
  <2>1. r \in AReport
    BY <1>2, ReportShape DEF TypeInv
  <2>2. /\ pending' \in Seq(AReport) /\ Range(pending') \subseteq Range(pending) \union {r}
        /\ Len(pending') <= MaxPending
    BY <1>5, <1>6, <2>1, QueuedBuffer
  <2>3. Len(pending') \in Nat
    BY <2>2, LenProperties
  <2>4. Len(pending') + Len(kept) <= MaxPending
    BY <1>5, <2>2, <2>3
  <2> QED
    BY <1>1, <1>2, <1>5, <2>2, <2>4 DEF BufferInv
<1>7. ASSUME pending' = pending PROVE BufferInv'
  BY <1>1, <1>2, <1>7 DEF TypeInv, BufferInv, Flushing
<1>8. CASE e.kind = "out"
  <2> DEFINE r == Closing(e.of, e.of, Reported(e.of), FALSE)
  <2>1. /\ pending' = Queued(pending, r) /\ placed' = placed
        /\ reasons' = reasons
           \/ reasons' = [reasons EXCEPT ![deals[e.of].ticket] = "none"]
    BY <1>1, <1>8 DEF OnExitDeal
  <2>2. r \in Reports
    <3>1. e.of \in Own /\ e.of \in DOMAIN deals /\ deals[e.of] \in ADeal
      BY <1>3, <1>8, ElementOfSeq DEF Own, TypeInv, BrokerInv
    <3>2. e.of \in 0..Len(deals)
      BY <3>1, DealNumbers DEF TypeInv
    <3>3. Reported(e.of) \in CloseReasons
      <4>1. deals[e.of].ticket \in Tickets
        BY <3>1 DEF ADeal
      <4>2. /\ reasons[deals[e.of].ticket] \in Exits \union {"none"}
            /\ Exits \subseteq CloseReasons
        BY <4>1, ReportingAssumption DEF TypeInv, OtherInv, CloseReasons
      <4> QED
        BY <4>2 DEF Reported, CloseReasons
    <3> QED
      BY <3>1, <3>2, <3>3, TheirReports
  <2> HIDE DEF r
  <2>3. BufferInv'
    BY <1>6, <2>1, <2>2
  <2>4. OtherInv'
    <3>1. reasons' \in [Tickets -> Exits \union {"none"}]
      BY <2>1 DEF TypeInv, OtherInv
    <3> QED
      BY <1>1, <2>1, <3>1 DEF TypeInv, OtherInv
  <2> QED
    BY <1>2, <1>4, <2>3, <2>4 DEF TypeInv
<1>9. CASE e.kind = "in"
  <2>1. /\ pending' = IF e.of \in placed THEN Queued(pending, Opening(e.of)) ELSE pending
        /\ placed' = placed \ {e.of} /\ reasons' = reasons
    BY <1>1, <1>9 DEF OnEntryDeal
  <2>2. OtherInv'
    BY <1>1, <2>1 DEF TypeInv, OtherInv
  <2>3. CASE e.of \in placed
    <3>1. e.of \in Tickets
      BY <1>3, <1>9 DEF AnEvent
    <3>2. stage[e.of] = "filled"
      BY <1>3, <1>9
    <3>3. Opening(e.of) \in Reports
      BY <3>1, <3>2, TheirReports
    <3>4. BufferInv'
      BY <1>6, <2>1, <2>3, <3>3
    <3> QED
      BY <1>2, <1>4, <2>2, <3>4 DEF TypeInv
  <2>4. CASE e.of \notin placed
    BY <1>2, <1>4, <1>7, <2>1, <2>2, <2>4 DEF TypeInv
  <2> QED
    BY <2>3, <2>4
<1>10. CASE e.kind = "retired"
  <2>1. placed' = placed \ {e.of} /\ pending' = pending /\ reasons' = reasons
    BY <1>1, <1>10 DEF OnOrderRetired
  <2>2. OtherInv'
    BY <1>1, <2>1 DEF TypeInv, OtherInv
  <2> QED
    BY <1>2, <1>4, <1>7, <2>1, <2>2 DEF TypeInv
<1> QED
  BY <1>3, <1>8, <1>9, <1>10 DEF AnEvent

LEMMA StartTyped ==
    ASSUME TypeInv, OnTimer \/ OnDeinit \/ PollOver
    PROVE  TypeInv'
<1>1. /\ UNCHANGED book /\ UNCHANGED broker /\ events' = events /\ pending' = pending
      /\ kept' = kept /\ wire' = wire
      /\ UNCHANGED <<reasons, placed, asked, taken, sent, discarded, faults, crashes>>
      /\ handler' \in {"timer", "detach", "idle"} /\ handler \in {"idle", "poll"}
      /\ detaches' \in {detaches, detaches + 1}
  BY DEF OnTimer, OnDeinit, PollOver, budget
<1>2. /\ BrokerInv' /\ Reports' = Reports /\ EventInv' /\ WireInv' /\ BookInv'
  BY <1>1, TerminalStep
<1>3. BufferInv'
  BY <1>1, <1>2 DEF TypeInv, BufferInv, Flushing
<1>4. OtherInv'
  BY <1>1 DEF TypeInv, OtherInv, Handlers
<1> QED
  BY <1>2, <1>3, <1>4 DEF TypeInv

LEMMA AttachTyped == TypeInv /\ OnInit => TypeInv'
<1> SUFFICES ASSUME TypeInv, NEW priced \in BOOLEAN, pending' = Replayed(priced), OnInit
             PROVE  TypeInv'
  BY DEF OnInit
<1>1. /\ UNCHANGED book /\ UNCHANGED broker /\ events' = events
      /\ kept' = kept /\ wire' = wire /\ handler = "off" /\ handler' = "attach"
      /\ UNCHANGED <<reasons, placed, asked, taken, sent, discarded, faults, crashes, detaches>>
  BY DEF OnInit, budget
<1>2. /\ BrokerInv' /\ Reports' = Reports /\ EventInv' /\ WireInv' /\ BookInv'
  BY <1>1, TerminalStep
<1>3. BufferInv'
  <2>1. kept' = <<>>
    BY <1>1 DEF TypeInv, BufferInv, Flushing
  <2>2. /\ pending' \in Seq(AReport) /\ Range(pending') \subseteq Reports
        /\ Len(pending') <= MaxPending
    BY ReplayTyped DEF TypeInv
  <2>3. Len(pending') \in Nat /\ MaxPending \in Nat
    BY <2>2, LenProperties, ReportingAssumption
  <2>4. kept' \in Seq(AReport) /\ Range(kept') = {} /\ Len(kept') = 0
    BY <2>1, RangeEmpty
  <2> QED
    BY <1>2, <2>1, <2>2, <2>3, <2>4 DEF BufferInv
<1>4. OtherInv'
  BY <1>1 DEF TypeInv, OtherInv, Handlers
<1> QED
  BY <1>2, <1>3, <1>4 DEF TypeInv

LEMMA SendTyped ==
    ASSUME TypeInv, NEW o \in Outcomes, Send(o)
    PROVE  TypeInv'
<1> DEFINE r == Head(pending)
           rest == Tail(pending)
<1>1. /\ UNCHANGED broker /\ events' = events /\ handler' = handler
      /\ UNCHANGED <<sent, reasons, placed, asked, taken, crashes, detaches>>
      /\ discarded' \in {discarded, discarded \union {r.ticket}}
      /\ Flushing /\ pending # <<>> /\ pending' = rest
      /\ faults' = IF o = "answered" THEN faults ELSE faults + 1
      /\ Record(r) \/ UNCHANGED book
      /\ kept' = kept \/ kept' = Append(kept, r)
      /\ wire' = wire \/ wire' = wire \union {r}
  BY ReportingAssumption DEF Send
<1>2. /\ BrokerInv' /\ Reports' = Reports /\ EventInv'
      /\ (wire' = wire => WireInv') /\ (UNCHANGED book => BookInv')
  BY <1>1, TerminalStep
<1>3. /\ r \in AReport /\ r \in Reports /\ rest \in Seq(AReport)
      /\ Len(rest) = Len(pending) - 1 /\ Range(rest) \subseteq Reports
      /\ kept \in Seq(AReport) /\ Range(kept) \subseteq Reports
      /\ Len(pending) + Len(kept) <= MaxPending
  BY <1>1, RangeTail DEF TypeInv, BufferInv
<1>4. Len(pending) \in Nat /\ Len(kept) \in Nat /\ MaxPending \in Nat
  BY LenProperties, ReportingAssumption DEF TypeInv, BufferInv
<1> HIDE DEF r, rest
<1>5. BufferInv'
  <2>1. CASE kept' = kept
    <3>1. Len(rest) + Len(kept) <= MaxPending
      BY <1>3, <1>4
    <3> QED
      BY <1>1, <1>2, <1>3, <2>1, <3>1 DEF BufferInv, Flushing
  <2>2. CASE kept' = Append(kept, r)
    <3>1. /\ kept' \in Seq(AReport) /\ Len(kept') = Len(kept) + 1
          /\ Range(kept') = Range(kept) \union {r}
      BY <1>3, <2>2, RangeAppend
    <3>2. Len(rest) + Len(kept') <= MaxPending
      BY <1>3, <1>4, <3>1
    <3> QED
      BY <1>1, <1>2, <1>3, <3>1, <3>2 DEF BufferInv, Flushing
  <2> QED
    BY <1>1, <2>1, <2>2
<1>6. WireInv'
  BY <1>1, <1>2, <1>3 DEF TypeInv, WireInv
<1>7. BookInv'
  <2>1. CASE Record(r)
    <3>1. BookTypeOK' /\ DOMAIN partial' \subseteq DOMAIN deals
      BY <1>3, <2>1, RecordTyped DEF TypeInv
    <3> QED
      BY <1>1, <3>1 DEF BookInv, broker
  <2> QED
    BY <1>1, <1>2, <2>1
<1>8. OtherInv'
  <2>1. r.ticket \in Tickets
    BY <1>3 DEF AReport
  <2> QED
    BY <1>1, <2>1 DEF TypeInv, OtherInv
<1> QED
  BY <1>2, <1>5, <1>6, <1>7, <1>8 DEF TypeInv

LEMMA ForgottenTyped ==
    ASSUME TypeInv, Forgotten, UNCHANGED broker, UNCHANGED book, handler' = "off",
           UNCHANGED <<asked, taken, wire, discarded, faults, detaches>>,
           crashes' \in {crashes, crashes + 1}
    PROVE  TypeInv'
<1>1. /\ BrokerInv' /\ Reports' = Reports /\ WireInv' /\ BookInv'
  BY TerminalStep
<1>2. pending' = <<>> /\ kept' = <<>> /\ events' = <<>>
  BY DEF Forgotten
<1>3. EventInv'
  BY <1>2, RangeEmpty, EmptySeq DEF EventInv
<1>4. BufferInv'
  <2>1. MaxPending \in Nat
    BY ReportingAssumption
  <2> QED
    BY <1>2, <2>1, RangeEmpty, EmptySeq DEF BufferInv
<1>5. OtherInv'
  BY DEF TypeInv, OtherInv, Handlers, Forgotten, Nothing
<1> QED
  BY <1>1, <1>3, <1>4, <1>5 DEF TypeInv

\* A snapshot names the positions the broker holds, with their lots.
LEMMA SnapshotHolds ==
    ASSUME BrokerInv
    PROVE  /\ DOMAIN Snapshot = Held /\ Held \subseteq Tickets
           /\ \A t \in Held : Snapshot[t] = lots[t] /\ Snapshot[t] \in 1..Volume
<1>1. /\ \A t \in Tickets : lots[t] \in 0..Volume
      /\ Volume \in Nat
  BY ReportingAssumption DEF BrokerInv
<1> QED
  BY <1>1 DEF Snapshot, Held

LEMMA FlushedTyped == TypeInv /\ Flushed => TypeInv'
<1> SUFFICES ASSUME TypeInv, Flushed PROVE TypeInv'
  OBVIOUS
<1>1. /\ UNCHANGED book /\ UNCHANGED broker /\ wire' = wire /\ pending = <<>>
      /\ UNCHANGED <<asked, taken, discarded, faults, crashes, detaches>>
  BY DEF Flushed, budget
<1>2. CASE handler' = "off" /\ Forgotten
  BY <1>1, <1>2, ForgottenTyped
<1>3. CASE /\ handler' \in {"due", "poll", "attached"}
           /\ pending' = kept /\ kept' = <<>> /\ UNCHANGED <<events, reasons, placed>>
           /\ sent' \in {Nothing, Snapshot}
  <2>1. /\ BrokerInv' /\ Reports' = Reports /\ EventInv' /\ WireInv' /\ BookInv'
    BY <1>1, <1>3, TerminalStep
  <2>2. BufferInv'
    <3>1. Len(kept) <= MaxPending /\ Len(kept) \in Nat /\ MaxPending \in Nat
      BY <1>1, LenProperties, ReportingAssumption DEF TypeInv, BufferInv
    <3>2. Len(pending') + Len(kept') <= MaxPending
      BY <1>3, <3>1
    <3> QED
      BY <1>3, <2>1, <3>2, RangeEmpty, EmptySeq DEF TypeInv, BufferInv
  <2>3. OtherInv'
    <3>1. DOMAIN sent' \subseteq Tickets /\ \A t \in DOMAIN sent' : sent'[t] \in 1..Volume
      <4>1. CASE sent' = Nothing
        BY <4>1 DEF Nothing
      <4>2. CASE sent' = Snapshot
        BY <4>2, SnapshotHolds DEF TypeInv
      <4> QED
        BY <1>3, <4>1, <4>2
    <3> QED
      BY <1>1, <1>3, <3>1 DEF TypeInv, OtherInv, Handlers
  <2> QED
    BY <2>1, <2>2, <2>3 DEF TypeInv
<1> QED
  BY <1>2, <1>3 DEF Flushed

LEMMA CrashTyped == TypeInv /\ Crash => TypeInv'
<1> SUFFICES ASSUME TypeInv, Crash PROVE TypeInv'
  OBVIOUS
<1> QED
  BY ForgottenTyped DEF Crash

LEMMA SnapshotTyped ==
    ASSUME TypeInv, NEW o \in Outcomes \ {"refused", "timeout"}, ReportPositions(o)
    PROVE  TypeInv'
<1> DEFINE m == [event |-> "snapshot", held |-> sent]
<1>1. /\ UNCHANGED broker /\ events' = events /\ pending' = pending /\ kept' = kept
      /\ UNCHANGED <<reasons, placed, asked, taken, discarded, crashes, detaches>>
      /\ handler \in {"due", "attached"} /\ handler' \in {"poll", "idle"}
      /\ faults' = IF o = "answered" THEN faults ELSE faults + 1
      /\ Reconcile(sent) \/ UNCHANGED book
      /\ wire' = wire \/ wire' = wire \union {m}
      /\ sent' = Nothing
  BY ReportingAssumption DEF ReportPositions
<1>2. /\ BrokerInv' /\ Reports' = Reports /\ EventInv'
      /\ (wire' = wire => WireInv') /\ (UNCHANGED book => BookInv')
  BY <1>1, TerminalStep
<1>3. BufferInv'
  BY <1>1, <1>2 DEF TypeInv, BufferInv, Flushing
<1>4. DOMAIN sent \subseteq Tickets /\ \A t \in DOMAIN sent : sent[t] \in 1..Volume
  BY DEF TypeInv, OtherInv
<1>5. WireInv'
  <2>1. CASE wire' = wire \union {m}
    <3>1. /\ m.event = "snapshot" /\ DOMAIN m.held \subseteq Tickets
          /\ \A t \in DOMAIN m.held : m.held[t] \in 1..Volume
      BY <1>4
    <3> HIDE DEF m
    <3> QED
      BY <1>2, <2>1, <3>1 DEF TypeInv, WireInv
  <2> QED
    BY <1>1, <1>2, <2>1
<1>6. BookInv'
  <2>1. CASE Reconcile(sent)
    <3>1. BookTypeOK' /\ partial' = partial
      BY <1>4, <2>1, ReconcileTyped DEF TypeInv
    <3> QED
      BY <1>1, <3>1 DEF TypeInv, BookInv, broker
  <2> QED
    BY <1>1, <1>2, <2>1
<1>7. OtherInv'
  BY <1>1 DEF TypeInv, OtherInv, Handlers, Nothing
<1> QED
  BY <1>2, <1>3, <1>5, <1>6, <1>7 DEF TypeInv

LEMMA LateTyped ==
    ASSUME TypeInv, NEW m \in wire, LateRequest(m)
    PROVE  TypeInv'
<1>1. /\ UNCHANGED broker /\ events' = events /\ pending' = pending /\ kept' = kept
      /\ handler' = handler /\ wire' = wire \ {m}
      /\ UNCHANGED <<reasons, placed, asked, taken, sent, discarded, faults, crashes, detaches>>
      /\ IF m.event = "snapshot" THEN Reconcile(m.held) ELSE Record(m)
  BY DEF LateRequest, terminal, budget
<1>2. BrokerInv' /\ Reports' = Reports /\ EventInv'
  BY <1>1, TerminalStep
<1>3. BufferInv'
  BY <1>1, <1>2 DEF TypeInv, BufferInv, Flushing
<1>4. WireInv'
  BY <1>1, <1>2 DEF TypeInv, WireInv
<1>5. BookTypeOK' /\ DOMAIN partial' \subseteq DOMAIN deals
  <2>1. CASE m \in Reports
    <3>1. Record(m)
      BY <1>1, <2>1, ReportShape DEF TypeInv
    <3> QED
      BY <2>1, <3>1, RecordTyped DEF TypeInv
  <2>2. CASE m \notin Reports
    <3>1. /\ m.event = "snapshot" /\ DOMAIN m.held \subseteq Tickets
          /\ \A t \in DOMAIN m.held : m.held[t] \in 1..Volume
      BY <2>2 DEF TypeInv, WireInv
    <3>2. BookTypeOK' /\ partial' = partial
      BY <1>1, <3>1, ReconcileTyped DEF TypeInv
    <3> QED
      BY <3>2 DEF TypeInv, BookInv
  <2> QED
    BY <2>1, <2>2
<1>6. BookInv'
  BY <1>1, <1>5 DEF BookInv, broker
<1>7. OtherInv'
  BY <1>1 DEF TypeInv, OtherInv
<1> QED
  BY <1>2, <1>3, <1>4, <1>6, <1>7 DEF TypeInv

LEMMA OpenTyped ==
    ASSUME TypeInv, NEW t \in Tickets, DoOpen(t)
    PROVE  TypeInv'
<1>1. /\ UNCHANGED book /\ handler' = handler /\ handler = "poll" /\ events' = events
      /\ kept' = kept /\ wire' = wire /\ stage[t] = "wanted" /\ deals' = deals
      /\ UNCHANGED <<reasons, placed, asked, taken, sent, discarded, faults, crashes, detaches>>
      /\ stage' = [stage EXCEPT ![t] = "filled"] /\ lots' = [lots EXCEPT ![t] = Volume]
      /\ pending' = Queued(pending, Opening(t))
  BY DEF DoOpen, budget
<1>2. BrokerInv' /\ Grows /\ stage'[t] = "filled"
  BY <1>1, StageStep DEF TypeInv
<1>3. EventInv' /\ WireInv' /\ BookInv' /\ Reports \subseteq Reports'
  BY <1>1, <1>2, Carried, ReportsGrow
<1>4. BufferInv'
  <2> DEFINE r == Opening(t)
  <2>1. r \in Reports'
    <3>1. Opening(t)' = Opening(t) /\ Opening(t)' \in Reports'
      BY <1>2 DEF Reports, Opening
    <3> QED
      BY <3>1
  <2>2. r \in AReport
    BY ReportShape DEF TypeInv
  <2>3. kept = <<>>
    BY <1>1 DEF TypeInv, BufferInv, Flushing
  <2>4. Len(pending) \in Nat /\ MaxPending \in Nat /\ Len(kept) = 0
    BY <2>3, LenProperties, ReportingAssumption DEF TypeInv, BufferInv
  <2>5. Len(pending) <= MaxPending
    BY <2>4 DEF TypeInv, BufferInv
  <2> HIDE DEF r
  <2>6. pending' = Queued(pending, r)
    BY <1>1 DEF r
  <2>7. /\ pending' \in Seq(AReport) /\ Range(pending') \subseteq Range(pending) \union {r}
        /\ Len(pending') <= MaxPending
    BY <2>2, <2>5, <2>6, QueuedBuffer DEF TypeInv, BufferInv
  <2>8. Len(pending') + Len(kept') <= MaxPending
    <3>1. Len(pending') \in Nat
      BY <2>7, LenProperties
    <3> QED
      BY <1>1, <2>4, <2>7, <3>1
  <2> QED
    BY <1>1, <1>3, <2>1, <2>3, <2>7, <2>8 DEF TypeInv, BufferInv
<1>5. OtherInv'
  BY <1>1 DEF TypeInv, OtherInv
<1> QED
  BY <1>2, <1>3, <1>4, <1>5 DEF TypeInv

LEMMA OpenPendingTyped ==
    ASSUME TypeInv, NEW t \in Tickets, DoOpenPending(t)
    PROVE  TypeInv'
<1>1. /\ UNCHANGED book /\ handler' = handler /\ events' = events /\ pending' = pending
      /\ kept' = kept /\ wire' = wire /\ stage[t] = "wanted" /\ deals' = deals
      /\ UNCHANGED <<reasons, asked, taken, sent, discarded, faults, crashes, detaches>>
      /\ stage' = [stage EXCEPT ![t] = "resting"] /\ lots' = lots
      /\ placed' = placed \union {t} /\ t \in Resting
  BY DEF DoOpenPending, budget
<1>2. BrokerInv' /\ Grows
  BY <1>1, StageStep DEF TypeInv
<1>3. EventInv' /\ WireInv' /\ BookInv' /\ BufferInv'
  BY <1>1, <1>2, Carried
<1>4. OtherInv'
  BY <1>1 DEF TypeInv, OtherInv
<1> QED
  BY <1>2, <1>3, <1>4 DEF TypeInv

LEMMA CloseTyped ==
    ASSUME TypeInv, NEW c \in asked, DoClose(c)
    PROVE  TypeInv'
<1>0. c \in Closes /\ c.ticket \in Tickets /\ c.reason \in Exits
  BY DEF TypeInv, OtherInv, Closes
<1>1. /\ UNCHANGED book /\ handler' = handler /\ pending' = pending
      /\ kept' = kept /\ wire' = wire
      /\ UNCHANGED <<placed, sent, discarded, faults, crashes, detaches>>
      /\ asked' = asked \ {c}
  BY DEF DoClose, budget
<1>2. CASE reasons' = [reasons EXCEPT ![c.ticket] = "none"] /\ UNCHANGED <<broker, events, taken>>
  <2>1. Grows /\ BrokerInv'
    BY <1>2, BrokerSame DEF TypeInv
  <2>2. EventInv' /\ WireInv' /\ BookInv' /\ BufferInv'
    BY <1>1, <1>2, <2>1, Carried
  <2>3. OtherInv'
    BY <1>0, <1>1, <1>2 DEF TypeInv, OtherInv
  <2> QED
    BY <2>1, <2>2, <2>3 DEF TypeInv
<1>3. CASE Executed(c)
  <2> DEFINE n == IF c.reason = "time_exit" \/ Rung > lots[c.ticket]
                  THEN lots[c.ticket] ELSE Rung
  <2>1. /\ reasons' = [reasons EXCEPT ![c.ticket] = c.reason]
        /\ Deal(c.ticket, n, "expert", TRUE) /\ taken' = taken \union {c}
    BY <1>3 DEF Executed
  <2> HIDE DEF n
  <2>2. Grows /\ BrokerInv' /\ EventInv'
    BY <1>0, <2>1, DealStep DEF TypeInv, Whys
  <2>3. WireInv' /\ BookInv' /\ BufferInv'
    BY <1>1, <2>2, Carried
  <2>4. OtherInv'
    BY <1>0, <1>1, <2>1 DEF TypeInv, OtherInv
  <2> QED
    BY <2>2, <2>3, <2>4 DEF TypeInv
<1> QED
  BY <1>2, <1>3 DEF DoClose

LEMMA StutterTyped == TypeInv /\ UNCHANGED vars => TypeInv'
<1> SUFFICES ASSUME TypeInv, UNCHANGED vars PROVE TypeInv'
  OBVIOUS
<1>1. /\ UNCHANGED book /\ UNCHANGED broker /\ events' = events /\ pending' = pending
      /\ kept' = kept /\ wire' = wire /\ handler' = handler
      /\ UNCHANGED <<reasons, placed, asked, taken, sent, discarded, faults, crashes, detaches>>
  BY DEF vars, terminal, budget
<1>2. Grows /\ BrokerInv'
  BY <1>1, BrokerSame DEF TypeInv
<1>3. EventInv' /\ WireInv' /\ BookInv' /\ BufferInv'
  BY <1>1, <1>2, Carried
<1>4. OtherInv'
  BY <1>1 DEF TypeInv, OtherInv
<1> QED
  BY <1>2, <1>3, <1>4 DEF TypeInv

LEMMA TypeStep == TypeInv /\ [Next]_vars => TypeInv'
<1> SUFFICES ASSUME TypeInv, [Next]_vars PROVE TypeInv'
  OBVIOUS
<1>1. CASE Poll
  BY <1>1, OpenTyped, OpenPendingTyped, CloseTyped, StartTyped DEF Poll
<1> QED
  BY <1>1, BrokerActsTyped, AskTyped, EventTyped, StartTyped, AttachTyped, SendTyped,
     FlushedTyped, SnapshotTyped, LateTyped, CrashTyped, StutterTyped DEF Next

LEMMA TypeImplied == TypeInv => TypeOK
BY DEF TypeInv, BrokerInv, BufferInv, BookInv, OtherInv, TypeOK

\* Whatever the broker, the network and the terminal do, every table, buffer and store keeps
\* its shape: every report in g_pending is of an opening or a deal that happened,
\* FXSQueueReport and FXSFlushReports keep the buffer within FXS_MAX_PENDING, the store of
\* close reasons holds what a command gave, and no close is asked for again once its key
\* is done.
THEOREM FillsTyped == Spec => []TypeOK
<1>1. Spec => []TypeInv
  BY TypeInit, TypeStep, PTL DEF Spec
<1> QED
  BY <1>1, TypeImplied, PTL

-----------------------------------------------------------------------------
(* Remembered reasons *)

\* A step that remembers nothing new and loses no event.
LEMMA SpentCarried ==
    ASSUME TypeInv, ReasonsAreSpent, Grows, reasons' = reasons,
           Range(events) \subseteq Range(events')
    PROVE  ReasonsAreSpent'
<1>1. \A e \in Range(events) : e.kind = "out" => e.of \in DOMAIN deals
  BY DEF TypeInv, EventInv, Own
<1> QED
  BY <1>1 DEF ReasonsAreSpent, Grows

\* What a deal, or another event of the broker's, leaves in the queue.
LEMMA RaisedKeeps ==
    ASSUME TypeInv, NEW kind \in {"out", "in", "retired"}, NEW n,
           kind = "out" => n \in Nat, kind # "out" => n \in Tickets,
           events' = events \/ events' = Raised(kind, n)
    PROVE  Range(events) \subseteq Range(events')
<1> DEFINE e == [kind |-> kind, of |-> n]
<1>1. events \in Seq(AnEvent) /\ e \in AnEvent
  BY DEF TypeInv, EventInv, AnEvent
<1>2. events' = events \/ events' = Append(events, e)
  BY DEF Raised
<1> HIDE DEF e
<1>3. CASE events' = Append(events, e)
  <2>1. Range(events') = Range(events) \union {e}
    BY <1>1, <1>3, RangeAppend
  <2> QED
    BY <2>1
<1> QED
  BY <1>2, <1>3

LEMMA DealKeeps ==
    ASSUME TypeInv, NEW t \in Tickets, NEW n, NEW why \in Whys,
           NEW ours \in BOOLEAN, Deal(t, n, why, ours)
    PROVE  /\ Grows /\ Range(events) \subseteq Range(events') /\ Len(deals) + 1 \in DOMAIN deals'
           /\ deals'[Len(deals) + 1] =
                 [ticket |-> t, lots |-> n, why |-> why, ours |-> ours]
           /\ handler # "off" /\ ours
                 => [kind |-> "out", of |-> Len(deals) + 1] \in Range(events')
<1> DEFINE e == [kind |-> "out", of |-> Len(deals) + 1]
<1>1. /\ BrokerInv' /\ Grows /\ Len(deals') = Len(deals) + 1
      /\ deals'[Len(deals) + 1] = [ticket |-> t, lots |-> n, why |-> why, ours |-> ours]
  BY DealStep DEF TypeInv
<1>2. Len(deals) \in Nat /\ DOMAIN deals' = 1..Len(deals') /\ Len(deals') \in Nat
  BY <1>1, DealNumbers, LenProperties DEF TypeInv, BrokerInv
<1>3. Len(deals) + 1 \in DOMAIN deals'
  BY <1>1, <1>2
<1>4. Range(events) \subseteq Range(events')
  BY <1>2, RaisedKeeps DEF Deal
<1>5. ASSUME handler # "off", ours PROVE e \in Range(events')
  <2>1. events' = Append(events, e) /\ e \in AnEvent /\ events \in Seq(AnEvent)
    BY <1>2, <1>5 DEF Deal, Raised, AnEvent, TypeInv, EventInv
  <2> HIDE DEF e
  <2> QED
    BY <2>1, RangeAppend
<1> QED
  BY <1>1, <1>3, <1>4, <1>5

LEMMA SpentByBroker == TypeInv /\ ReasonsAreSpent /\ BrokerActs => ReasonsAreSpent'
<1> SUFFICES ASSUME TypeInv, ReasonsAreSpent, NEW t \in Tickets,
                    \/ BrokerClose(t, "sl") \/ BrokerClose(t, "tp") \/ HandClose(t)
                    \/ OrderFills(t) \/ OrderExpires(t)
             PROVE  ReasonsAreSpent'
  BY DEF BrokerActs
<1>1. ASSUME NEW n, NEW why \in Whys, NEW ours \in BOOLEAN, Deal(t, n, why, ours),
             reasons' = reasons
      PROVE  ReasonsAreSpent'
  BY <1>1, DealKeeps, SpentCarried
<1>2. CASE OrderFills(t) \/ OrderExpires(t)
  <2>1. /\ stage' \in {[stage EXCEPT ![t] = "filled"], [stage EXCEPT ![t] = "unfilled"]}
        /\ stage[t] = "resting" /\ deals' = deals /\ reasons' = reasons
        /\ events' = Raised("in", t) \/ events' = Raised("retired", t)
    BY <1>2 DEF OrderFills, OrderExpires
  <2>2. Grows
    BY <2>1 DEF Grows, TypeInv, BrokerInv
  <2>3. Range(events) \subseteq Range(events')
    BY <2>1, RaisedKeeps
  <2> QED
    BY <2>1, <2>2, <2>3, SpentCarried
<1> QED
  BY <1>1, <1>2 DEF BrokerClose, HandClose, Whys

LEMMA SpentByEvent == TypeInv /\ ReasonsAreSpent /\ OnTradeTransaction => ReasonsAreSpent'
<1> SUFFICES ASSUME TypeInv, ReasonsAreSpent, OnTradeTransaction PROVE ReasonsAreSpent'
  OBVIOUS
<1> DEFINE e == Head(events)
           rest == Tail(events)
<1>1. /\ events # <<>> /\ events' = rest /\ deals' = deals
      /\ CASE e.kind = "out" -> OnExitDeal(e.of)
           [] e.kind = "in" -> OnEntryDeal(e.of)
           [] e.kind = "retired" -> OnOrderRetired(e.of)
  BY DEF OnTradeTransaction, broker
<1>2. e \in AnEvent /\ Range(events) = {e} \union Range(rest)
  BY <1>1, RangeTail DEF TypeInv, EventInv
<1> HIDE DEF e, rest
<1>3. \A t \in Tickets : reasons'[t] # "none" =>
         /\ reasons[t] # "none"
         /\ ~(e.kind = "out" /\ deals[e.of].why = "expert" /\ deals[e.of].ticket = t)
  <2>1. CASE e.kind = "out"
    <3>1. reasons' = IF deals[e.of].why = "expert"
                     THEN [reasons EXCEPT ![deals[e.of].ticket] = "none"] ELSE reasons
      BY <1>1, <2>1 DEF OnExitDeal
    <3> QED
      BY <3>1 DEF TypeInv, OtherInv
  <2>2. CASE e.kind # "out"
    <3>1. reasons' = reasons
      BY <1>1, <1>2, <2>2 DEF AnEvent, OnEntryDeal, OnOrderRetired
    <3> QED
      BY <2>2, <3>1
  <2> QED
    BY <2>1, <2>2
<1> QED
  BY <1>1, <1>2, <1>3 DEF ReasonsAreSpent

LEMMA SpentByClose ==
    ASSUME TypeInv, ReasonsAreSpent, NEW c \in asked, DoClose(c)
    PROVE  ReasonsAreSpent'
<1>1. c.ticket \in Tickets /\ handler = "poll"
  BY DEF TypeInv, OtherInv, Closes, DoClose
<1>2. CASE reasons' = [reasons EXCEPT ![c.ticket] = "none"] /\ UNCHANGED <<broker, events, taken>>
  <2>1. reasons' = [reasons EXCEPT ![c.ticket] = "none"] /\ events' = events /\ deals' = deals
    BY <1>2 DEF broker
  <2> QED
    BY <2>1 DEF ReasonsAreSpent, TypeInv, OtherInv
<1>3. CASE Executed(c)
  <2> DEFINE n == IF c.reason = "time_exit" \/ Rung > lots[c.ticket]
                  THEN lots[c.ticket] ELSE Rung
             e == [kind |-> "out", of |-> Len(deals) + 1]
  <2>1. /\ reasons' = [reasons EXCEPT ![c.ticket] = c.reason]
        /\ Deal(c.ticket, n, "expert", TRUE)
    BY <1>3 DEF Executed
  <2> HIDE DEF n
  <2>2. /\ Grows /\ Range(events) \subseteq Range(events')
        /\ deals'[Len(deals) + 1] =
              [ticket |-> c.ticket, lots |-> n, why |-> "expert", ours |-> TRUE]
        /\ e \in Range(events')
    BY <1>1, <2>1, DealKeeps DEF Whys
  <2>3. /\ e.kind = "out" /\ deals'[e.of].ticket = c.ticket /\ deals'[e.of].why = "expert"
    BY <2>2
  <2> HIDE DEF e
  <2>4. \A t \in Tickets : t # c.ticket => reasons'[t] = reasons[t]
    BY <2>1 DEF TypeInv, OtherInv
  <2>5. \A x \in Range(events) : x.kind = "out" => x.of \in DOMAIN deals
    BY DEF TypeInv, EventInv, Own
  <2> QED
    BY <2>2, <2>3, <2>4, <2>5 DEF ReasonsAreSpent, Grows
<1> QED
  BY <1>2, <1>3 DEF DoClose

LEMMA SpentStep == TypeInv /\ ReasonsAreSpent /\ [Next]_vars => ReasonsAreSpent'
<1> SUFFICES ASSUME TypeInv, ReasonsAreSpent, [Next]_vars PROVE ReasonsAreSpent'
  OBVIOUS
<1>1. ASSUME reasons' = reasons, events' = events, deals' = deals PROVE ReasonsAreSpent'
  BY <1>1 DEF ReasonsAreSpent
<1>2. ASSUME Forgotten PROVE ReasonsAreSpent'
  BY <1>2 DEF Forgotten, ReasonsAreSpent
<1>3. CASE \E t \in Tickets, r \in Exits : Ask(t, r)
  BY <1>1, <1>3 DEF Ask, broker, terminal
<1>4. CASE OnTimer \/ OnDeinit \/ OnInit
  BY <1>1, <1>4 DEF OnTimer, OnDeinit, OnInit, broker
<1>5. CASE \E o \in Outcomes : Send(o)
  BY <1>1, <1>5 DEF Send, broker
<1>6. CASE Flushed
  BY <1>1, <1>2, <1>6 DEF Flushed, broker
<1>7. CASE \E o \in Outcomes \ {"refused", "timeout"} : ReportPositions(o)
  BY <1>1, <1>7 DEF ReportPositions, broker
<1>8. CASE \E m \in wire : LateRequest(m)
  BY <1>1, <1>8 DEF LateRequest, broker, terminal
<1>9. CASE Poll
  <2>1. CASE \E t \in Tickets : DoOpen(t) \/ DoOpenPending(t)
    BY <1>1, <2>1 DEF DoOpen, DoOpenPending
  <2>2. CASE \E c \in asked : DoClose(c)
    BY <2>2, SpentByClose
  <2>3. CASE PollOver
    BY <1>1, <2>3 DEF PollOver, broker
  <2> QED
    BY <1>9, <2>1, <2>2, <2>3 DEF Poll
<1>10. CASE Crash
  BY <1>2, <1>10 DEF Crash
<1>11. CASE UNCHANGED vars
  BY <1>1, <1>11 DEF vars, broker, terminal
<1> QED
  BY <1>3, <1>4, <1>5, <1>6, <1>7, <1>8, <1>9, <1>10, <1>11, SpentByBroker, SpentByEvent DEF Next

\* Through any crashes, detaches and lost requests, a reason FXSHandleCommand stored before a
\* close is there only while the deal of that close is still to be handled, so that
\* OnTradeTransaction never attaches it to whatever closes the position next.
THEOREM FillsReasonsSpent == Spec => []ReasonsAreSpent
<1>1. Init => TypeInv /\ ReasonsAreSpent
  <2>1. Init => ReasonsAreSpent
    BY DEF Init, ReasonsAreSpent
  <2> QED
    BY <2>1, TypeInit
<1>2. TypeInv /\ ReasonsAreSpent /\ [Next]_vars => (TypeInv /\ ReasonsAreSpent)'
  BY TypeStep, SpentStep
<1>3. Spec => [](TypeInv /\ ReasonsAreSpent)
  BY <1>1, <1>2, PTL DEF Spec
<1> QED
  BY <1>3, PTL

-----------------------------------------------------------------------------
(* What the book shows of a position *)

\* The server has finished with a request by the time the terminal gives it up.
NoLate == "late" \notin Outcomes

Known(t)   == trade[t].status # "absent"
Managed(t) == Known(t) /\ trade[t].origin = "bot"

DealtFor(t) == [d \in DOMAIN deals |-> IF deals[d].ticket = t THEN deals[d].lots ELSE 0]
Dealt(t)    == SumOver(DealtFor(t), DOMAIN deals)

\* The broker closes no more of a position than was opened.
LotsAddUp == \A t \in Tickets : Dealt(t) + Room[t] <= Volume

\* A row is of a position that was opened, and one opened by a command started with its lots.
RowInv(t) ==
    Known(t) =>
        /\ stage[t] = "filled" /\ trade[t].initial \in 1..Volume
        /\ trade[t].origin = "bot" => trade[t].initial = Volume

\* Only what the book manages is asked to close, so that a partial close of ours always has
\* a managed row to be filed under.
AskedInv == \A c \in asked : Managed(c.ticket)
DealsInv == \A d \in Own : Managed(deals[d].ticket) \/ lots[deals[d].ticket] = 0

\* What is on file is what happened, of a trade that has a row.
FiledInv ==
    \A d \in DOMAIN partial :
        /\ d \in Own /\ partial[d].ticket = deals[d].ticket /\ partial[d].lots = deals[d].lots
        /\ Known(deals[d].ticket)

IsShown(t) == lots[t] > 0 /\ Known(t) => Shown(t) /\ trade[t].remaining >= lots[t]
Settled(t) ==
    trade[t].initial > 0 /\ LotsOf(partial, t) >= trade[t].initial => trade[t].money = "sum"

ShowInv ==
    /\ wire = {}
    /\ LotsAddUp /\ AskedInv /\ DealsInv /\ FiledInv
    /\ \A t \in Tickets : RowInv(t) /\ IsShown(t) /\ Settled(t)

\* While a snapshot is under way the broker may close some of what it names and fill what it
\* does not, but the book does not move: all it knows is named in it, or gone.
Underway(t) ==
    IF t \in DOMAIN sent
    THEN /\ stage[t] = "filled" /\ lots[t] <= sent[t]
         /\ Known(t) => Shown(t) /\ trade[t].remaining >= sent[t]
         /\ LotsOf(partial, t) < IF Known(t) THEN trade[t].initial ELSE sent[t]
    ELSE Known(t) => lots[t] = 0

SentInv == handler \in {"due", "attached"} => \A t \in Tickets : Underway(t)

LEMMA DealtTyped ==
    ASSUME BrokerInv
    PROVE  /\ \A d \in DOMAIN deals : deals[d].ticket \in Tickets /\ deals[d].lots \in 1..Volume
           /\ \A t \in Tickets : \A d \in DOMAIN deals : DealtFor(t)[d] \in Nat
           /\ \A t \in Tickets : Dealt(t) \in Nat
<1>1. DOMAIN deals = 1..Len(deals) /\ Len(deals) \in Nat /\ IsFiniteSet(DOMAIN deals)
  BY DealNumbers
<1>2. \A d \in DOMAIN deals : deals[d] \in ADeal
  BY <1>1, ElementOfSeq DEF BrokerInv
<1>3. ASSUME NEW t \in Tickets PROVE \A d \in DOMAIN deals : DealtFor(t)[d] \in Nat
  BY <1>2, ReportingAssumption DEF DealtFor, ADeal
<1>4. ASSUME NEW t \in Tickets PROVE Dealt(t) \in Nat
  <2> DEFINE f == DealtFor(t)
  <2>1. \A d \in DOMAIN deals : f[d] \in Nat
    BY <1>3
  <2> HIDE DEF f
  <2>2. SumOver(f, DOMAIN deals) \in Nat
    BY <1>1, <2>1, SumOverNat
  <2> QED
    BY <2>2 DEF f, Dealt
<1> QED
  BY <1>2, <1>3, <1>4 DEF ADeal

\* The lots on file for a trade are lots that were closed.
LEMMA FiledLots ==
    ASSUME BrokerInv, NEW p, DOMAIN p \subseteq DOMAIN deals, NEW t \in Tickets,
           \A d \in DOMAIN p : p[d].ticket = deals[d].ticket /\ p[d].lots = deals[d].lots
    PROVE  LotsOf(p, t) \in Int /\ LotsOf(p, t) <= Dealt(t)
<1> DEFINE f == [d \in DOMAIN p |-> p[d].lots]
           g == DealtFor(t)
           legs == Legs(p, t)
           all == DOMAIN deals
<1>1. legs \subseteq all /\ IsFiniteSet(all) /\ IsFiniteSet(legs)
  BY DealNumbers, FS_Subset DEF Legs
<1>2. \A d \in legs : f[d] = g[d]
  BY DEF Legs, DealtFor
<1>3. \A d \in all : g[d] \in Nat
  BY DealtTyped
<1>4. LotsOf(p, t) = SumOver(f, legs) /\ Dealt(t) = SumOver(g, all)
  BY SumsAreOver DEF Dealt
<1> HIDE DEF f, g, legs, all
<1>5. SumOver(f, legs) = SumOver(g, legs)
  BY <1>2, SumOverEqual
<1>6. SumOver(g, legs) <= SumOver(g, all)
  BY <1>1, <1>3, SumOverSubset
<1>7. SumOver(g, legs) \in Int
  BY <1>1, <1>3, SumOverInt
<1> QED
  BY <1>4, <1>5, <1>6, <1>7

\* So they are no more than the broker has closed of it.
LEMMA LotsLeft ==
    ASSUME BrokerInv, LotsAddUp, NEW p, DOMAIN p \subseteq DOMAIN deals, NEW t \in Tickets,
           \A d \in DOMAIN p : p[d].ticket = deals[d].ticket /\ p[d].lots = deals[d].lots
    PROVE  LotsOf(p, t) \in Int /\ LotsOf(p, t) + lots[t] <= Volume
<1>1. LotsOf(p, t) \in Int /\ LotsOf(p, t) <= Dealt(t)
  BY FiledLots
<1>2. Dealt(t) \in Nat /\ Volume \in Nat /\ lots[t] \in 0..Volume
  BY DealtTyped, ReportingAssumption DEF BrokerInv
<1>3. Room[t] >= lots[t] /\ Room[t] \in Nat
  BY <1>2 DEF Room
<1>4. Dealt(t) + Room[t] <= Volume
  BY DEF LotsAddUp
<1> HIDE DEF Room
<1> QED
  BY <1>1, <1>2, <1>3, <1>4

\* A trade whose deals are not on file.
LEMMA NothingFiled ==
    ASSUME NEW p, NEW t, \A d \in DOMAIN p : p[d].ticket # t
    PROVE  LotsOf(p, t) = 0
<1>1. Legs(p, t) = {}
  BY DEF Legs
<1> QED
  BY <1>1, SumsAreOver, SumOverEmpty

\* A deal moves its lots from what is held to what has been closed.
LEMMA DealtStep ==
    ASSUME BrokerInv, EventInv, NEW t \in Tickets, NEW n, NEW why \in Whys,
           NEW ours \in BOOLEAN, Deal(t, n, why, ours)
    PROVE  \A u \in Tickets : Dealt(u)' = Dealt(u) + IF u = t THEN n ELSE 0
<1> DEFINE new == Len(deals) + 1
<1>1. /\ BrokerInv' /\ Grows /\ Len(deals') = new
      /\ deals'[new] = [ticket |-> t, lots |-> n, why |-> why, ours |-> ours]
  BY DealStep
<1>2. /\ DOMAIN deals = 1..Len(deals) /\ DOMAIN deals' = 1..Len(deals') /\ Len(deals) \in Nat
      /\ IsFiniteSet(DOMAIN deals')
  <2>1. DOMAIN deals = 1..Len(deals) /\ Len(deals) \in Nat
    BY DealNumbers
  <2>2. DOMAIN deals' = 1..Len(deals')
    BY <1>1, LenProperties DEF BrokerInv
  <2>3. IsFiniteSet(1..Len(deals'))
    BY <1>1, <2>1, FS_Interval
  <2> QED
    BY <2>1, <2>2, <2>3
<1>3. new \in DOMAIN deals' /\ DOMAIN deals' \ {new} = DOMAIN deals
  BY <1>1, <1>2
<1> SUFFICES ASSUME NEW u \in Tickets PROVE Dealt(u)' = Dealt(u) + IF u = t THEN n ELSE 0
  OBVIOUS
<1> DEFINE f == DealtFor(u)
           g == DealtFor(u)'
           all == DOMAIN deals'
           old == DOMAIN deals
<1>4. \A d \in old : g[d] = f[d]
  BY <1>3, DealStep DEF DealtFor, Grows
<1>5. g[new] = IF u = t THEN n ELSE 0
  BY <1>1, <1>3 DEF DealtFor
<1>6. \A d \in all : g[d] \in Int
  <2>1. \A d \in old : f[d] \in Nat
    BY DealtTyped
  <2>2. n \in Int
    BY DEF Deal
  <2> QED
    BY <1>3, <1>4, <1>5, <2>1, <2>2
<1>7. Dealt(u) = SumOver(f, old) /\ Dealt(u)' = SumOver(g, all)
  BY DEF Dealt
<1>8. SumOver(f, old) \in Nat
  BY <1>7, DealtTyped
<1> HIDE DEF f, g, all, old
<1>9. SumOver(g, all) = g[new] + SumOver(g, all \ {new})
  BY <1>2, <1>3, <1>6, SumOverWithout DEF all
<1>10. SumOver(g, all \ {new}) = SumOver(f, old)
  BY <1>3, <1>4, SumOverEqual DEF all, old
<1>11. g[new] \in Int
  BY <1>3, <1>6 DEF all
<1> QED
  BY <1>5, <1>7, <1>8, <1>9, <1>10, <1>11

\* Lots of a position are closed: all of them, by somebody else, or with a row to file it under.
LEMMA DealShows ==
    ASSUME TypeInv, ShowInv, NEW t \in Tickets, NEW n, NEW why \in Whys,
           NEW ours \in BOOLEAN, Deal(t, n, why, ours), ours => n = lots[t] \/ Managed(t),
           UNCHANGED book, wire' = wire, asked' \subseteq asked
    PROVE  ShowInv'
<1>1. /\ BrokerInv' /\ Grows /\ Len(deals') = Len(deals) + 1
      /\ deals'[Len(deals) + 1] =
            [ticket |-> t, lots |-> n, why |-> why, ours |-> ours]
  BY DealStep DEF TypeInv
<1>2. /\ trade' = trade /\ partial' = partial /\ stage' = stage
      /\ n \in 1..lots[t] /\ lots' = [lots EXCEPT ![t] = @ - n]
  BY DEF book, Deal
<1>3. /\ lots \in [Tickets -> 0..Volume] /\ Volume \in Nat /\ lots[t] \in Nat /\ n \in Nat
      /\ stage[t] = "filled"
  BY <1>2, ReportingAssumption DEF TypeInv, BrokerInv
<1>4. \A u \in Tickets : lots'[u] <= lots[u] /\ lots'[u] \in Nat /\ lots[u] \in Nat
  BY <1>2, <1>3
<1>5. LotsAddUp'
  <2> SUFFICES ASSUME NEW u \in Tickets PROVE Dealt(u)' + Room'[u] <= Volume
    BY DEF LotsAddUp
  <2>1. Dealt(u)' = Dealt(u) + IF u = t THEN n ELSE 0
    BY DealtStep DEF TypeInv
  <2>2. Room'[u] = Room[u] - (IF u = t THEN n ELSE 0) /\ Room[u] \in Nat
    <3>1. u # t => Room'[u] = Room[u]
      BY <1>2, <1>3 DEF Room, TypeInv, BrokerInv
    <3>2. Room'[t] = lots[t] - n /\ Room[t] = lots[t]
      BY <1>2, <1>3 DEF Room, TypeInv, BrokerInv
    <3>3. Room[u] \in Nat
      BY RoomTyped DEF TypeInv
    <3> HIDE DEF Room
    <3> QED
      BY <1>3, <3>1, <3>2, <3>3
  <2>3. Dealt(u) \in Nat /\ Dealt(u) + Room[u] <= Volume
    BY DealtTyped DEF TypeInv, ShowInv, LotsAddUp
  <2> HIDE DEF Room
  <2> QED
    BY <1>3, <2>1, <2>2, <2>3
<1>6. AskedInv'
  BY <1>2 DEF ShowInv, AskedInv, Managed, Known
<1>7. DOMAIN deals' = DOMAIN deals \union {Len(deals) + 1}
  <2>1. DOMAIN deals = 1..Len(deals) /\ DOMAIN deals' = 1..Len(deals') /\ Len(deals) \in Nat
    BY <1>1, DealNumbers, LenProperties DEF TypeInv, BrokerInv
  <2> QED
    BY <1>1, <2>1
<1>8. DealsInv'
  <2> SUFFICES ASSUME NEW d \in Own'
               PROVE  Managed(deals[d].ticket)' \/ lots'[deals'[d].ticket] = 0
    BY DEF DealsInv
  <2>1. CASE d \in DOMAIN deals
    <3>1. d \in Own /\ deals'[d] = deals[d] /\ deals[d].ticket \in Tickets
      BY <1>1, <2>1, DealtTyped DEF Own, Grows, TypeInv
    <3>2. Managed(deals[d].ticket) \/ lots[deals[d].ticket] = 0
      BY <3>1 DEF ShowInv, DealsInv
    <3> QED
      BY <1>2, <1>4, <3>1, <3>2 DEF Managed, Known
  <2>2. CASE d = Len(deals) + 1
    <3>1. deals'[d].ticket = t /\ ours
      BY <1>1, <2>2 DEF Own
    <3>2. n = lots[t] => lots'[t] = 0
      BY <1>2, <1>3
    <3> QED
      BY <1>2, <3>1, <3>2 DEF Managed, Known
  <2> QED
    BY <1>7, <2>1, <2>2 DEF Own
<1>9. FiledInv'
  <2>1. Own \subseteq Own' /\ Own \subseteq DOMAIN deals
    BY <1>1, ReportsGrow DEF Own
  <2> QED
    BY <1>1, <1>2, <2>1 DEF ShowInv, FiledInv, Grows, Known
<1>10. ASSUME NEW u \in Tickets PROVE RowInv(u)' /\ IsShown(u)' /\ Settled(u)'
  <2>1. RowInv(u) /\ IsShown(u) /\ Settled(u)
    BY DEF ShowInv
  <2>2. trade[u].remaining \in Nat
    BY DEF TypeInv, BookInv, BookTypeOK, Trade
  <2> QED
    BY <1>2, <1>4, <2>1, <2>2 DEF RowInv, IsShown, Settled, Known, Shown
<1> QED
  BY <1>5, <1>6, <1>8, <1>9, <1>10 DEF ShowInv

\* A position comes about, or an order rests or is given up: there is no row for it yet.
LEMMA StageShows ==
    ASSUME TypeInv, ShowInv, NEW t \in Tickets, stage[t] \in {"wanted", "resting"},
           NEW s \in {"resting", "unfilled", "filled"}, stage' = [stage EXCEPT ![t] = s],
           lots' = IF s = "filled" THEN [lots EXCEPT ![t] = Volume] ELSE lots,
           deals' = deals, UNCHANGED book, wire' = wire, asked' = asked
    PROVE  ShowInv'
<1>1. /\ trade' = trade /\ partial' = partial /\ Own' = Own
      /\ \A u \in Tickets : u # t => stage'[u] = stage[u] /\ lots'[u] = lots[u]
      /\ stage'[t] = s /\ lots'[t] = IF s = "filled" THEN Volume ELSE 0
      /\ lots[t] = 0 /\ Volume \in Nat
  BY ReportingAssumption DEF book, Own, TypeInv, BrokerInv
<1>2. ~Known(t)
  BY DEF ShowInv, RowInv
<1>3. \A d \in Own : deals[d].ticket # t
  <2> SUFFICES ASSUME NEW d \in Own, deals[d].ticket = t PROVE FALSE
    OBVIOUS
  <2>1. d \in DOMAIN deals /\ IsFiniteSet(DOMAIN deals)
    BY DealNumbers DEF Own, TypeInv
  <2> DEFINE f == DealtFor(t)
             all == DOMAIN deals
  <2>2. f[d] \in Nat \ {0} /\ \A x \in all : f[x] \in Nat
    BY <2>1, DealtTyped DEF DealtFor, TypeInv
  <2>3. Dealt(t) = SumOver(f, all)
    BY DEF Dealt
  <2>4. Dealt(t) <= 0 /\ Dealt(t) \in Nat
    <3>1. Dealt(t) + Room[t] <= Volume /\ Dealt(t) \in Nat
      BY DealtTyped DEF ShowInv, LotsAddUp, TypeInv
    <3>2. Room[t] = Volume
      BY DEF Room
    <3> HIDE DEF Room
    <3> QED
      BY <1>1, <3>1, <3>2
  <2> HIDE DEF f, all
  <2>5. SumOver(f, all) = f[d] + SumOver(f, all \ {d})
    BY <2>1, <2>2, SumOverWithout DEF all
  <2>6. SumOver(f, all \ {d}) \in Nat
    <3>1. IsFiniteSet(all \ {d}) /\ \A x \in all \ {d} : f[x] \in Nat
      BY <2>1, <2>2, FS_Subset DEF all
    <3> QED
      BY <3>1, SumOverNat
  <2> QED
    BY <2>2, <2>3, <2>4, <2>5, <2>6
<1>4. LotsAddUp'
  <2> SUFFICES ASSUME NEW u \in Tickets PROVE Dealt(u)' + Room'[u] <= Volume
    BY DEF LotsAddUp
  <2>1. Dealt(u)' = Dealt(u)
    BY DEF Dealt, DealtFor
  <2>2. Room'[u] <= Room[u] /\ Room'[u] \in Int /\ Room[u] \in Nat
    <3>1. u # t => Room'[u] = Room[u]
      BY <1>1 DEF Room
    <3>2. Room[t] = Volume /\ Room'[t] \in {Volume, 0}
      BY <1>1 DEF Room
    <3>3. Room[u] \in Nat
      BY RoomTyped DEF TypeInv
    <3> HIDE DEF Room
    <3> QED
      BY <1>1, <3>1, <3>2, <3>3
  <2>3. Dealt(u) \in Nat /\ Dealt(u) + Room[u] <= Volume
    BY DealtTyped DEF TypeInv, ShowInv, LotsAddUp
  <2> HIDE DEF Room
  <2> QED
    BY <1>1, <2>1, <2>2, <2>3
<1>5. AskedInv'
  BY <1>1 DEF ShowInv, AskedInv, Managed, Known
<1>6. DealsInv'
  <2>1. \A d \in Own : deals[d].ticket \in Tickets
    BY DealtTyped DEF Own, TypeInv
  <2> QED
    BY <1>1, <1>3, <2>1 DEF ShowInv, DealsInv, Managed, Known
<1>7. FiledInv'
  BY <1>1 DEF ShowInv, FiledInv, Known
<1>8. ASSUME NEW u \in Tickets PROVE RowInv(u)' /\ IsShown(u)' /\ Settled(u)'
  <2>1. RowInv(u) /\ IsShown(u) /\ Settled(u)
    BY DEF ShowInv
  <2> QED
    BY <1>1, <1>2, <2>1 DEF RowInv, IsShown, Settled, Known, Shown
<1> QED
  BY <1>4, <1>5, <1>6, <1>7, <1>8 DEF ShowInv

\* The server's steps leave the broker alone and drop no row.
LEMMA BookStepShows ==
    ASSUME TypeInv, ShowInv, UNCHANGED broker, wire' = wire, asked' = asked,
           FiledInv', \A t \in Tickets : Managed(t) => Managed(t)',
           \A t \in Tickets : RowInv(t)' /\ IsShown(t)' /\ Settled(t)'
    PROVE  ShowInv'
<1>1. Own' = Own /\ deals' = deals /\ lots' = lots /\ stage' = stage
  BY DEF broker, Own
<1>2. LotsAddUp'
  BY <1>1 DEF ShowInv, LotsAddUp, Dealt, DealtFor, Room
<1>3. AskedInv'
  BY DEF ShowInv, AskedInv, TypeInv, OtherInv, Closes
<1>4. DealsInv'
  <2>1. \A d \in Own : deals[d].ticket \in Tickets
    BY DealtTyped DEF Own, TypeInv
  <2> QED
    BY <1>1, <2>1 DEF ShowInv, DealsInv
<1> QED
  BY <1>2, <1>3, <1>4 DEF ShowInv

LEMMA BookSame ==
    ASSUME TypeInv, ShowInv, UNCHANGED broker, wire' = wire, asked' = asked, UNCHANGED book
    PROVE  ShowInv'
<1>1. trade' = trade /\ partial' = partial /\ lots' = lots /\ stage' = stage /\ deals' = deals
  BY DEF broker, book
<1>2. FiledInv' /\ \A t \in Tickets : Managed(t) => Managed(t)'
  BY <1>1 DEF ShowInv, FiledInv, Managed, Known, Own
<1>3. \A t \in Tickets : RowInv(t)' /\ IsShown(t)' /\ Settled(t)'
  BY <1>1 DEF ShowInv, RowInv, IsShown, Settled, Known, Shown
<1> QED
  BY <1>2, <1>3, BookStepShows

\* An opening's report makes the row the bot's, and whole.
LEMMA OpenedShows ==
    ASSUME TypeInv, ShowInv, UNCHANGED broker, wire' = wire, asked' = asked,
           NEW r \in Reports, r.event = "opened", RecordOpen(r)
    PROVE  ShowInv'
<1> DEFINE u == r.ticket
<1>1. u \in Tickets /\ r = Opening(u) /\ stage[u] = "filled"
  BY ReportShape DEF TypeInv, AReport
<1>2. r.lots = Volume /\ r.origin = "bot"
  BY <1>1 DEF Opening
<1>3. /\ trade \in [Tickets -> Trade] /\ partial' = partial /\ lots' = lots /\ stage' = stage
      /\ deals' = deals /\ Volume \in Nat \ {0} /\ \A t \in Tickets : lots[t] \in 0..Volume
      /\ trade' = [trade EXCEPT ![u] = Opened(r)]
  BY ReportingAssumption DEF RecordOpen, TypeInv, BookInv, BookTypeOK, BrokerInv, broker
<1>4. /\ trade'[u] = Opened(r) /\ \A t \in Tickets : t # u => trade'[t] = trade[t]
  BY <1>1, <1>3
<1>5. /\ Opened(r).status = "open" /\ Opened(r).origin = "bot" /\ Opened(r).initial = Volume
      /\ Opened(r).remaining = Volume /\ Opened(r).money = trade[u].money
  <2>1. \A row \in Trade, n \in Nat, o \in {"bot"} :
           LET new == [row EXCEPT !.status = "open", !.origin = o, !.initial = n,
                                  !.remaining = n, !.final = r.final]
           IN  /\ new.status = "open" /\ new.origin = o /\ new.initial = n
               /\ new.remaining = n /\ new.money = row.money
    BY DEF Trade
  <2> QED
    BY <1>1, <1>2, <1>3, <2>1 DEF Opened
<1> HIDE DEF u
<1>6. \A t \in Tickets : (Known(t) => Known(t)') /\ (Managed(t) => Managed(t)')
  BY <1>4, <1>5 DEF Known, Managed
<1>7. FiledInv'
  <2>1. \A d \in Own : deals[d].ticket \in Tickets
    BY DealtTyped DEF Own, TypeInv
  <2> QED
    BY <1>3, <1>6, <2>1 DEF ShowInv, FiledInv, Own
<1>8. ASSUME NEW t \in Tickets PROVE RowInv(t)' /\ IsShown(t)' /\ Settled(t)'
  <2>1. RowInv(t) /\ IsShown(t) /\ Settled(t)
    BY DEF ShowInv
  <2>2. CASE t # u
    BY <1>3, <1>4, <2>1, <2>2 DEF RowInv, IsShown, Settled, Known, Shown
  <2>3. CASE t = u
    <3>1. RowInv(t)'
      BY <1>1, <1>3, <1>4, <1>5, <2>3 DEF RowInv, Known
    <3>2. IsShown(t)'
      BY <1>1, <1>3, <1>4, <1>5, <2>3 DEF IsShown, Known, Shown, Live
    <3>3. Settled(t)'
      <4> SUFFICES ASSUME LotsOf(partial, u) >= Volume PROVE trade[u].money = "sum"
        BY <1>3, <1>4, <1>5, <2>3 DEF Settled
      <4>1. CASE Known(u)
        <5>1. trade[u].initial \in 1..Volume
          BY <2>1, <2>3, <4>1 DEF RowInv
        <5>2. LotsOf(partial, u) \in Int
          <6>1. \A d \in DOMAIN partial : /\ partial[d].ticket = deals[d].ticket
                                          /\ partial[d].lots = deals[d].lots
            BY DEF ShowInv, FiledInv
          <6> QED
            BY <1>1, <6>1, FiledLots DEF u, TypeInv, BookInv
        <5>3. LotsOf(partial, u) >= trade[u].initial /\ trade[u].initial > 0
          BY <1>3, <5>1, <5>2
        <5> QED
          BY <2>1, <2>3, <5>3 DEF Settled
      <4>2. CASE ~Known(u)
        <5>1. \A d \in DOMAIN partial : partial[d].ticket # u
          BY <4>2 DEF ShowInv, FiledInv
        <5>2. LotsOf(partial, u) = 0
          BY <5>1, NothingFiled
        <5> QED
          BY <1>3, <5>2
      <4> QED
        BY <4>1, <4>2
    <3> QED
      BY <3>1, <3>2, <3>3
  <2> QED
    BY <2>2, <2>3
<1> QED
  BY <1>6, <1>7, <1>8, BookStepShows

\* A closing report leaves at least what is held, and counts the money deal by deal.
LEMMA ClosedShows ==
    ASSUME TypeInv, ShowInv, UNCHANGED broker, wire' = wire, asked' = asked,
           NEW r \in Reports, r.event = "closed", RecordClose(r)
    PROVE  ShowInv'
<1> DEFINE u == r.ticket
           p == Recorded(r)
           row == Summed(r, p)
           new == Ended(r, row)
<1>0. CASE trade[u].status = "absent"
  BY <1>0, BookSame DEF RecordClose
<1>1. ASSUME trade[u].status # "absent" PROVE ShowInv'
  <2>1. /\ u \in Tickets /\ r.deal \in Own /\ u = deals[r.deal].ticket
        /\ r.lots = deals[r.deal].lots /\ r.deal \in DOMAIN deals
    BY ReportShape DEF TypeInv, AReport, Own
  <2>2. /\ partial' = p /\ trade' = [trade EXCEPT ![u] = new]
        /\ lots' = lots /\ stage' = stage /\ deals' = deals /\ Own' = Own
        /\ trade \in [Tickets -> Trade]
        /\ Volume \in Nat \ {0} /\ \A t \in Tickets : lots[t] \in 0..Volume
    BY <1>1, ReportingAssumption
       DEF RecordClose, TypeInv, BookInv, BookTypeOK, BrokerInv, broker, Own
  <2>3. /\ DOMAIN p = DOMAIN partial \union {r.deal} /\ DOMAIN p \subseteq DOMAIN deals
        /\ \A d \in DOMAIN p : p[d] \in Partial
        /\ p[r.deal] = Kept(r) /\ \A d \in DOMAIN partial \ {r.deal} : p[d] = partial[d]
    BY RecordedTyped DEF TypeInv
  <2>4. Kept(r).ticket = u /\ Kept(r).lots = r.lots
    <3>1. \A x, w : LET k == [Fresh(r) EXCEPT !.pips = x, !.reason = w]
                    IN  k.ticket = u /\ k.lots = r.lots
      BY DEF Fresh
    <3>2. Fresh(r).ticket = u /\ Fresh(r).lots = r.lots
      BY DEF Fresh
    <3> HIDE DEF u
    <3> QED
      BY <3>1, <3>2 DEF Kept
  <2>5. \A d \in DOMAIN p : /\ d \in Own /\ p[d].ticket = deals[d].ticket
                            /\ p[d].lots = deals[d].lots /\ Known(deals[d].ticket)
    <3>1. \A d \in DOMAIN partial : /\ d \in Own /\ partial[d].ticket = deals[d].ticket
                                    /\ partial[d].lots = deals[d].lots /\ Known(deals[d].ticket)
      BY DEF ShowInv, FiledInv
    <3>2. Known(u)
      BY <1>1 DEF Known
    <3> HIDE DEF p, u
    <3> QED
      BY <2>1, <2>3, <2>4, <3>1, <3>2
  <2>6. LotsOf(p, u) \in Int /\ LotsOf(p, u) + lots[u] <= Volume
    <3> HIDE DEF p, u
    <3> QED
      BY <2>1, <2>3, <2>5, LotsLeft DEF TypeInv, ShowInv
  <2>7. PipsOf(p, u) \in Int
    <3>1. IsFiniteSet(DOMAIN p) /\ \A d \in DOMAIN p : p[d].lots \in Nat /\ p[d].pips \in Int
      <4> HIDE DEF p
      <4> QED
        BY <2>3, DealNumbers, FS_Subset DEF TypeInv, Partial
    <3> HIDE DEF p, u
    <3> QED
      BY <3>1, SumsTyped
  <2> DEFINE left == trade[u].initial - LotsOf(p, u)
  <2>8. /\ row.remaining = IF left > 0 THEN left ELSE 0
        /\ row.money = "sum" /\ row.initial = trade[u].initial /\ row.origin = trade[u].origin
        /\ row.status = trade[u].status /\ row \in Trade
    <3>2. trade[u] \in Trade /\ trade[u].initial \in Nat
      BY <2>1, <2>2 DEF Trade
    <3>3. row = [trade[u] EXCEPT !.remaining = IF left > 0 THEN left ELSE 0,
                                 !.pips = PipsOf(p, u), !.money = "sum"]
      BY DEF Summed
    <3>4. (IF left > 0 THEN left ELSE 0) \in Nat
      BY <2>6, <3>2
    <3> DEFINE n2 == IF left > 0 THEN left ELSE 0
               i2 == PipsOf(p, u)
               base == trade[u]
    <3> HIDE DEF left, row, p, u
    <3>5. n2 \in Nat /\ i2 \in Int /\ base \in Trade
      BY <2>7, <3>2, <3>4
    <3>6. row = [base EXCEPT !.remaining = n2, !.pips = i2, !.money = "sum"]
      BY <3>3
    <3> HIDE DEF n2, i2, base
    <3>7. /\ row.remaining = n2 /\ row.money = "sum" /\ row.initial = base.initial
          /\ row.origin = base.origin /\ row.status = base.status /\ row \in Trade
      BY <3>5, <3>6 DEF Trade
    <3> QED
      BY <3>7 DEF n2, base
  <2>14. row.remaining \in Nat
    <3> HIDE DEF row
    <3> QED
      BY <2>8 DEF Trade
  <2>9. /\ new.status # "absent" /\ new.origin = trade[u].origin
        /\ new.initial = trade[u].initial /\ new.remaining = row.remaining /\ new.money = "sum"
        /\ row.remaining > 0 => new.status = "partially_closed"
    <3>1. CASE row.remaining > 0
      <4>1. new = [row EXCEPT !.status = "partially_closed"]
        <5> HIDE DEF row
        <5> QED
          BY <3>1 DEF Ended
      <4> HIDE DEF row, new, p, u
      <4> QED
        BY <2>8, <3>1, <4>1 DEF Trade
    <3>2. CASE ~(row.remaining > 0) /\ row.ended
      <4>1. new = row
        <5> HIDE DEF row
        <5> QED
          BY <2>14, <3>2 DEF Ended
      <4> HIDE DEF row, new, p, u
      <4> QED
        BY <1>1, <2>8, <3>2, <4>1 DEF u
    <3>3. CASE ~(row.remaining > 0) /\ ~row.ended
      <4> DEFINE s == IF Filed(r) = "sl" THEN "stopped_out" ELSE "fully_closed"
                 c == Note(r)
      <4>1. new = [row EXCEPT !.status = s, !.closure = c, !.ended = TRUE]
        <5> HIDE DEF row
        <5> QED
          BY <2>14, <3>3 DEF Ended
      <4>2. s # "absent"
        OBVIOUS
      <4> HIDE DEF row, new, p, u, s, c
      <4> QED
        BY <2>8, <3>3, <4>1, <4>2 DEF Trade
    <3> QED
      BY <3>1, <3>2, <3>3
  <2> HIDE DEF new, row, p, u
  <2>10. trade'[u] = new /\ \A t \in Tickets : t # u => trade'[t] = trade[t]
    BY <2>1, <2>2
  <2>11. \A t \in Tickets : (Known(t) => Known(t)') /\ (Managed(t) => Managed(t)')
    BY <2>9, <2>10 DEF Known, Managed
  <2>12. FiledInv'
    <3>1. \A d \in Own : deals[d].ticket \in Tickets
      BY DealtTyped DEF Own, TypeInv
    <3> QED
      BY <2>2, <2>5, <2>11, <3>1 DEF FiledInv
  <2>13. ASSUME NEW t \in Tickets PROVE RowInv(t)' /\ IsShown(t)' /\ Settled(t)'
    <3>1. RowInv(t) /\ IsShown(t) /\ Settled(t)
      BY DEF ShowInv
    <3>2. CASE t # u
      <4>1. Settled(t)'
        <5>1. Legs(p, t) = Legs(partial, t)
          BY <2>1, <2>3, <2>5, <3>2 DEF Legs, ShowInv, FiledInv
        <5>2. \A d \in Legs(p, t) : p[d].lots = partial[d].lots
          BY <2>3, <2>5, <5>1 DEF Legs, ShowInv, FiledInv
        <5>3. [d \in Legs(p, t) |-> p[d].lots] = [d \in Legs(partial, t) |-> partial[d].lots]
          BY <5>1, <5>2
        <5>4. LotsOf(p, t) = LotsOf(partial, t)
          BY <5>3 DEF LotsOf
        <5> QED
          BY <2>2, <2>10, <3>1, <3>2, <5>4 DEF Settled
      <4> QED
        BY <2>2, <2>10, <3>1, <3>2, <4>1 DEF RowInv, IsShown, Known, Shown
    <3>3. CASE t = u
      <4>1. RowInv(t)'
        BY <1>1, <2>2, <2>9, <2>10, <3>1, <3>3 DEF RowInv, Known, u
      <4>2. Settled(t)'
        BY <2>9, <2>10, <3>3 DEF Settled
      <4>3. IsShown(t)'
        <5> SUFFICES ASSUME lots[u] > 0 PROVE Shown(u)' /\ trade'[u].remaining >= lots[u]
          BY <2>2, <3>3 DEF IsShown
        <5>1. Managed(u)
          BY <2>1 DEF ShowInv, DealsInv
        <5>2. trade[u].initial = Volume
          BY <1>1, <3>1, <3>3, <5>1 DEF RowInv, Known, Managed
        <5>3. left >= lots[u] /\ left > 0
          BY <2>1, <2>2, <2>6, <5>2
        <5>4. row.remaining = left
          BY <2>8, <5>3
        <5> HIDE DEF left
        <5> QED
          BY <2>9, <2>10, <5>3, <5>4 DEF Shown, Live
      <4> QED
        BY <4>1, <4>2, <4>3
    <3> QED
      BY <3>2, <3>3
  <2> QED
    BY <2>11, <2>12, <2>13, BookStepShows
<1> QED
  BY <1>0, <1>1

\* What a snapshot makes of each row.
LEMMA SnapshotRows ==
    ASSUME TypeInv, Reconcile(sent), NEW t \in Tickets
    PROVE  /\ t \in DOMAIN sent /\ ~Known(t) =>
                 /\ trade'[t].status = "open" /\ trade'[t].origin = "adopted"
                 /\ trade'[t].initial = sent[t] /\ trade'[t].remaining = sent[t]
           /\ t \in DOMAIN sent /\ Known(t) =>
                 /\ trade'[t].status \in {trade[t].status, "partially_closed"}
                 /\ trade'[t].origin = trade[t].origin
                 /\ trade'[t].initial = trade[t].initial /\ trade'[t].remaining = sent[t]
           /\ t \notin DOMAIN sent /\ Shown(t) =>
                 /\ trade'[t].status = "fully_closed" /\ trade'[t].origin = trade[t].origin
                 /\ trade'[t].initial = trade[t].initial /\ trade'[t].money = trade[t].money
           /\ t \notin DOMAIN sent /\ ~Shown(t) => trade'[t] = trade[t]
<1> DEFINE row == trade[t]
           n == sent[t]
<1>1. /\ row \in Trade /\ trade' = Reconciled(sent)
      /\ t \in DOMAIN sent => n \in Nat
  BY ReportingAssumption DEF TypeInv, BookInv, BookTypeOK, OtherInv, Reconcile
<1>2. /\ t \in DOMAIN sent /\ ~Known(t) => trade'[t] = Adopted(n)
      /\ t \in DOMAIN sent /\ Known(t) => trade'[t] = Refreshed(row, n)
      /\ t \notin DOMAIN sent /\ Shown(t) => trade'[t] = Vanished(row)
      /\ t \notin DOMAIN sent /\ ~Shown(t) => trade'[t] = row
  BY <1>1 DEF Reconciled, Known, Shown
<1> HIDE DEF row, n
<1>3. /\ Adopted(n).status = "open" /\ Adopted(n).origin = "adopted"
      /\ Adopted(n).initial = n /\ Adopted(n).remaining = n
  BY DEF Adopted, NoTrade
<1>4. /\ Refreshed(row, n).status \in {row.status, "partially_closed"}
      /\ Refreshed(row, n).origin = row.origin
      /\ Refreshed(row, n).initial = row.initial /\ Refreshed(row, n).remaining = n
  BY <1>1 DEF Refreshed, Trade
<1>5. /\ Vanished(row).status = "fully_closed" /\ Vanished(row).origin = row.origin
      /\ Vanished(row).initial = row.initial /\ Vanished(row).money = row.money
  BY <1>1 DEF Vanished, Trade
<1> QED
  BY <1>2, <1>3, <1>4, <1>5 DEF row, n

\* No row is dropped, nor handed to another origin.
LEMMA SnapshotKeeps ==
    ASSUME TypeInv, Reconcile(sent)
    PROVE  /\ \A t \in Tickets : (Known(t) => Known(t)') /\ (Managed(t) => Managed(t)')
           /\ partial' = partial
<1> SUFFICES ASSUME NEW t \in Tickets, Known(t) PROVE Known(t)' /\ (Managed(t) => Managed(t)')
  BY DEF Managed, Reconcile
<1>1. trade[t].status # "absent"
  BY DEF Known
<1>2. CASE t \in DOMAIN sent
  BY <1>1, <1>2, SnapshotRows DEF Known, Managed
<1>3. CASE t \notin DOMAIN sent /\ Shown(t)
  BY <1>1, <1>3, SnapshotRows DEF Known, Managed
<1>4. CASE t \notin DOMAIN sent /\ ~Shown(t)
  BY <1>1, <1>4, SnapshotRows DEF Known, Managed
<1> QED
  BY <1>2, <1>3, <1>4

\* The snapshot is answered: the book shows what was held when it was taken.
LEMMA SnapshotShows ==
    ASSUME TypeInv, ShowInv, SentInv, handler \in {"due", "attached"}, UNCHANGED broker,
           wire' = wire, asked' = asked, Reconcile(sent)
    PROVE  /\ ShowInv'
           /\ \A t \in Tickets : /\ (trade'[t].status \in Live) <=> (t \in DOMAIN sent)
                                 /\ t \in DOMAIN sent => sent[t] = trade'[t].remaining
<1>1. /\ partial' = partial /\ lots' = lots /\ stage' = stage /\ deals' = deals
      /\ Volume \in Nat \ {0} /\ \A t \in Tickets : lots[t] \in 0..Volume
  BY ReportingAssumption DEF Reconcile, broker, TypeInv, BrokerInv
<1>2. ASSUME NEW t \in Tickets
      PROVE  /\ RowInv(t) /\ IsShown(t) /\ Settled(t) /\ Underway(t)
             /\ trade[t].remaining \in Nat /\ trade[t].initial \in Nat /\ trade[t] \in Trade
             /\ t \in DOMAIN sent => sent[t] \in 1..Volume
  BY DEF ShowInv, SentInv, TypeInv, OtherInv, BookInv, BookTypeOK, Trade
<1>3. \A t \in Tickets : (Known(t) => Known(t)') /\ (Managed(t) => Managed(t)')
  BY SnapshotKeeps
<1>4. FiledInv'
  <2>1. \A d \in Own : deals[d].ticket \in Tickets
    BY DealtTyped DEF Own, TypeInv
  <2> QED
    BY <1>1, <1>3, <2>1 DEF ShowInv, FiledInv, Own
<1>5. ASSUME NEW t \in Tickets, t \in DOMAIN sent
      PROVE  /\ RowInv(t)' /\ IsShown(t)' /\ Settled(t)'
             /\ trade'[t].status \in Live /\ trade'[t].remaining = sent[t]
  <2>1. /\ stage[t] = "filled" /\ lots[t] <= sent[t]
        /\ Known(t) => Shown(t) /\ trade[t].remaining >= sent[t]
        /\ LotsOf(partial, t) < IF Known(t) THEN trade[t].initial ELSE sent[t]
    BY <1>2, <1>5 DEF Underway
  <2>2. trade'[t].status \in Live /\ trade'[t].remaining = sent[t]
    <3>1. CASE Known(t)
      BY <1>5, <2>1, <3>1, SnapshotRows DEF Shown, Live
    <3>2. CASE ~Known(t)
      BY <1>5, <3>2, SnapshotRows DEF Live
    <3> QED
      BY <3>1, <3>2
  <2>3. IsShown(t)'
    BY <1>1, <1>2, <1>5, <2>1, <2>2 DEF IsShown, Shown
  <2>4. RowInv(t)' /\ trade'[t].initial = IF Known(t) THEN trade[t].initial ELSE sent[t]
    <3>1. CASE Known(t)
      BY <1>1, <1>2, <1>5, <2>1, <3>1, SnapshotRows DEF RowInv, Known
    <3>2. CASE ~Known(t)
      BY <1>1, <1>2, <1>5, <2>1, <3>2, SnapshotRows DEF RowInv, Known
    <3> QED
      BY <3>1, <3>2
  <2>5. Settled(t)'
    <3>1. LotsOf(partial, t) \in Int
      <4>1. \A d \in DOMAIN partial : /\ partial[d].ticket = deals[d].ticket
                                      /\ partial[d].lots = deals[d].lots
        BY DEF ShowInv, FiledInv
      <4> QED
        BY <4>1, FiledLots DEF TypeInv, BookInv
    <3>2. LotsOf(partial, t) < trade'[t].initial /\ trade'[t].initial \in Int
      BY <1>2, <1>5, <2>1, <2>4
    <3> QED
      BY <1>1, <3>1, <3>2 DEF Settled
  <2> QED
    BY <2>2, <2>3, <2>4, <2>5
<1>6. ASSUME NEW t \in Tickets, t \notin DOMAIN sent
      PROVE  RowInv(t)' /\ IsShown(t)' /\ Settled(t)' /\ trade'[t].status \notin Live
  <2>1. Known(t) => lots[t] = 0
    BY <1>2, <1>6 DEF Underway
  <2>2. CASE Shown(t)
    <3>1. /\ trade'[t].status = "fully_closed" /\ trade'[t].origin = trade[t].origin
          /\ trade'[t].initial = trade[t].initial /\ trade'[t].money = trade[t].money
      BY <1>6, <2>2, SnapshotRows
    <3>2. Known(t) /\ lots'[t] = 0
      BY <1>1, <2>1, <2>2 DEF Shown, Known, Live
    <3> QED
      BY <1>1, <1>2, <3>1, <3>2 DEF RowInv, IsShown, Settled, Known, Live
  <2>3. CASE ~Shown(t)
    <3>1. trade'[t] = trade[t]
      BY <1>6, <2>3, SnapshotRows
    <3> QED
      BY <1>1, <1>2, <2>3, <3>1 DEF RowInv, IsShown, Settled, Shown, Known
  <2> QED
    BY <2>2, <2>3
<1>7. ShowInv'
  BY <1>3, <1>4, <1>5, <1>6, BookStepShows
<1> QED
  BY <1>5, <1>6, <1>7

\* A snapshot that is taken now names all the book knows that is not gone.
LEMMA TakenInOrder ==
    ASSUME TypeInv, ShowInv, UNCHANGED broker, UNCHANGED book, sent' = Snapshot
    PROVE  SentInv'
<1> SUFFICES ASSUME NEW t \in Tickets PROVE Underway(t)'
  BY DEF SentInv
<1>1. /\ trade' = trade /\ partial' = partial /\ lots' = lots /\ stage' = stage
      /\ lots[t] \in 0..Volume /\ Volume \in Nat \ {0}
      /\ lots[t] > 0 => stage[t] = "filled"
  BY ReportingAssumption DEF book, broker, TypeInv, BrokerInv
<1>2. DOMAIN sent' = Held /\ (t \in Held <=> lots[t] > 0) /\ (t \in Held => sent'[t] = lots[t])
  BY SnapshotHolds DEF Held, TypeInv
<1>3. RowInv(t) /\ IsShown(t)
  BY DEF ShowInv
<1>4. \A d \in DOMAIN partial : /\ partial[d].ticket = deals[d].ticket
                                /\ partial[d].lots = deals[d].lots
                                /\ d \in Own /\ Known(deals[d].ticket)
  BY DEF ShowInv, FiledInv
<1>5. CASE lots[t] > 0
  <2>1. LotsOf(partial, t) < IF Known(t) THEN trade[t].initial ELSE lots[t]
    <3>1. CASE Managed(t)
      <4>1. LotsOf(partial, t) \in Int /\ LotsOf(partial, t) + lots[t] <= Volume
        BY <1>4, LotsLeft DEF TypeInv, BookInv, ShowInv
      <4>2. trade[t].initial = Volume /\ Known(t)
        BY <1>3, <3>1 DEF RowInv, Managed
      <4> QED
        BY <1>1, <1>5, <4>1, <4>2
    <3>2. CASE ~Managed(t)
      <4>1. \A d \in DOMAIN partial : partial[d].ticket # t
        BY <1>4, <1>5, <3>2 DEF ShowInv, DealsInv
      <4>2. LotsOf(partial, t) = 0
        BY <4>1, NothingFiled
      <4>3. Known(t) => trade[t].initial > 0
        BY <1>1, <1>3 DEF RowInv
      <4> QED
        BY <1>5, <4>2, <4>3
    <3> QED
      BY <3>1, <3>2
  <2>2. Known(t) => Shown(t) /\ trade[t].remaining >= lots[t]
    BY <1>3, <1>5 DEF IsShown
  <2>3. t \in DOMAIN sent' /\ sent'[t] = lots[t] /\ lots[t] <= lots[t] /\ stage[t] = "filled"
    BY <1>1, <1>2, <1>5
  <2> QED
    BY <1>1, <2>1, <2>2, <2>3 DEF Underway, Known, Shown
<1>6. CASE ~(lots[t] > 0)
  <2>1. t \notin DOMAIN sent' /\ lots'[t] = 0
    BY <1>1, <1>2, <1>6
  <2> QED
    BY <2>1 DEF Underway
<1> QED
  BY <1>5, <1>6

\* While it is under way, lots are only closed, and what comes about is not known to the book.
LEMMA SentLess ==
    ASSUME TypeInv, SentInv, UNCHANGED book, sent' = sent, handler' = handler, stage' = stage,
           \A t \in Tickets : lots'[t] \in Nat /\ lots'[t] <= lots[t]
    PROVE  SentInv'
<1> SUFFICES ASSUME handler \in {"due", "attached"}, NEW t \in Tickets PROVE Underway(t)'
  BY DEF SentInv
<1>1. Underway(t) /\ trade' = trade /\ partial' = partial
  BY DEF SentInv, book
<1>2. lots[t] \in Nat /\ lots'[t] \in Nat /\ lots'[t] <= lots[t]
  BY ReportingAssumption DEF TypeInv, BrokerInv
<1>3. t \in DOMAIN sent => sent[t] \in Nat
  BY ReportingAssumption DEF TypeInv, OtherInv
<1> QED
  BY <1>1, <1>2, <1>3 DEF Underway, Known, Shown

LEMMA SentStage ==
    ASSUME TypeInv, ShowInv, SentInv, UNCHANGED book, sent' = sent, handler' = handler,
           NEW u \in Tickets, stage[u] = "resting",
           \A t \in Tickets : t # u => stage'[t] = stage[t] /\ lots'[t] = lots[t]
    PROVE  SentInv'
<1> SUFFICES ASSUME handler \in {"due", "attached"}, NEW t \in Tickets PROVE Underway(t)'
  BY DEF SentInv
<1>1. Underway(t) /\ RowInv(t) /\ trade' = trade /\ partial' = partial
  BY DEF SentInv, ShowInv, book
<1>2. CASE t # u
  BY <1>1, <1>2 DEF Underway, Known, Shown
<1>3. CASE t = u
  <2>1. t \notin DOMAIN sent /\ ~Known(t)
    BY <1>1, <1>3 DEF Underway, RowInv
  <2> QED
    BY <1>1, <2>1 DEF Underway, Known
<1> QED
  BY <1>2, <1>3

LEMMA SentSame ==
    ASSUME SentInv, UNCHANGED broker, UNCHANGED book, sent' = sent, handler' = handler
    PROVE  SentInv'
<1>1. trade' = trade /\ partial' = partial /\ lots' = lots /\ stage' = stage
  BY DEF broker, book
<1> QED
  BY <1>1 DEF SentInv, Underway, Known, Shown

LEMMA SentStep == TypeInv /\ ShowInv /\ SentInv /\ [Next]_vars => SentInv'
<1> SUFFICES ASSUME TypeInv, ShowInv, SentInv, [Next]_vars PROVE SentInv'
  OBVIOUS
<1>1. ASSUME handler' \notin {"due", "attached"} PROVE SentInv'
  BY <1>1 DEF SentInv
<1>2. CASE BrokerActs
  <2> SUFFICES ASSUME NEW t \in Tickets,
                      \/ BrokerClose(t, "sl") \/ BrokerClose(t, "tp") \/ HandClose(t)
                      \/ OrderFills(t) \/ OrderExpires(t)
               PROVE  SentInv'
    BY <1>2 DEF BrokerActs
  <2>1. ASSUME NEW n, NEW why, NEW ours, Deal(t, n, why, ours), UNCHANGED book,
               sent' = sent, handler' = handler
        PROVE  SentInv'
    <3>1. \A u \in Tickets : lots'[u] \in Nat /\ lots'[u] <= lots[u]
      BY <2>1, ReportingAssumption DEF Deal, TypeInv, BrokerInv
    <3>2. stage' = stage
      BY <2>1 DEF Deal
    <3> QED
      BY <2>1, <3>1, <3>2, SentLess
  <2>2. ASSUME NEW why \in {"sl", "tp"}, BrokerClose(t, why) PROVE SentInv'
    <3>1. Deal(t, lots[t], why, TRUE) /\ UNCHANGED book /\ sent' = sent /\ handler' = handler
      BY <2>2 DEF BrokerClose
    <3> QED
      BY <2>1, <3>1
  <2>3. CASE HandClose(t)
    <3>1. Deal(t, 1, "hand", FALSE) /\ UNCHANGED book /\ sent' = sent /\ handler' = handler
      BY <2>3 DEF HandClose
    <3> QED
      BY <2>1, <3>1
  <2>4. CASE OrderFills(t) \/ OrderExpires(t)
    <3>1. /\ stage[t] = "resting" /\ UNCHANGED book /\ sent' = sent /\ handler' = handler
          /\ \A u \in Tickets : u # t => stage'[u] = stage[u] /\ lots'[u] = lots[u]
      BY <2>4 DEF OrderFills, OrderExpires, TypeInv, BrokerInv
    <3> QED
      BY <3>1, SentStage
  <2> QED
    BY <2>2, <2>3, <2>4
<1>3. CASE \E t \in Tickets, r \in Exits : Ask(t, r)
  BY <1>3, SentSame DEF Ask, terminal
<1>4. CASE OnTradeTransaction \/ OnTimer \/ OnDeinit \/ OnInit
  BY <1>1, <1>4 DEF OnTradeTransaction, OnTimer, OnDeinit, OnInit
<1>5. CASE \E o \in Outcomes : Send(o)
  BY <1>1, <1>5 DEF Send, Flushing
<1>6. CASE Flushed
  <2>1. UNCHANGED broker /\ UNCHANGED book
    BY <1>6 DEF Flushed
  <2>2. handler' \in {"off", "poll"} \/ sent' = Snapshot
    BY <1>6 DEF Flushed
  <2> QED
    BY <1>1, <2>1, <2>2, TakenInOrder
<1>7. CASE \E o \in Outcomes \ {"refused", "timeout"} : ReportPositions(o)
  BY <1>1, <1>7 DEF ReportPositions
<1>8. CASE \E m \in wire : LateRequest(m)
  BY <1>8 DEF ShowInv
<1>9. CASE Poll
  <2>1. handler' \in {"poll", "idle"}
    BY <1>9 DEF Poll, DoOpen, DoOpenPending, DoClose, PollOver
  <2> QED
    BY <1>1, <2>1
<1>10. CASE Crash
  BY <1>1, <1>10 DEF Crash
<1>11. CASE UNCHANGED vars
  BY <1>11, SentSame DEF vars, terminal
<1> QED
  BY <1>2, <1>3, <1>4, <1>5, <1>6, <1>7, <1>8, <1>9, <1>10, <1>11 DEF Next

LEMMA ShowInit == Init => ShowInv
<1> SUFFICES ASSUME Init PROVE ShowInv
  OBVIOUS
<1>1. /\ trade = [t \in Tickets |-> NoTrade] /\ DOMAIN partial = {} /\ deals = <<>> /\ wire = {}
      /\ asked = {} /\ lots = [t \in Tickets |-> 0] /\ stage = [t \in Tickets |-> "wanted"]
      /\ Volume \in Nat
  BY ReportingAssumption DEF Init, BookInit
<1>2. DOMAIN deals = {} /\ Own = {}
  BY <1>1 DEF Own
<1>3. \A t \in Tickets : Dealt(t) = 0 /\ Room[t] = Volume
  BY <1>1, <1>2, SumOverEmpty DEF Dealt, Room
<1>4. LotsAddUp
  BY <1>1, <1>3 DEF LotsAddUp
<1>5. \A t \in Tickets : trade[t].status = "absent" /\ trade[t].initial = 0
  BY <1>1 DEF NoTrade
<1> QED
  BY <1>1, <1>2, <1>4, <1>5
     DEF ShowInv, AskedInv, DealsInv, FiledInv, RowInv, IsShown, Settled, Known, Shown

LEMMA ShowStep == TypeInv /\ ShowInv /\ SentInv /\ NoLate /\ [Next]_vars => ShowInv'
<1> SUFFICES ASSUME TypeInv, ShowInv, SentInv, NoLate, [Next]_vars PROVE ShowInv'
  OBVIOUS
<1>1. ASSUME UNCHANGED broker, UNCHANGED book, wire' = wire, asked' = asked PROVE ShowInv'
  BY <1>1, BookSame
<1>2. CASE BrokerActs
  <2> SUFFICES ASSUME NEW t \in Tickets,
                      \/ BrokerClose(t, "sl") \/ BrokerClose(t, "tp") \/ HandClose(t)
                      \/ OrderFills(t) \/ OrderExpires(t)
               PROVE  ShowInv'
    BY <1>2 DEF BrokerActs
  <2>1. ASSUME NEW why \in {"sl", "tp"}, BrokerClose(t, why) PROVE ShowInv'
    <3>1. Deal(t, lots[t], why, TRUE) /\ UNCHANGED book /\ wire' = wire /\ asked' \subseteq asked
      BY <2>1 DEF BrokerClose
    <3> QED
      BY <3>1, DealShows DEF Whys
  <2>2. CASE HandClose(t)
    <3>1. Deal(t, 1, "hand", FALSE) /\ UNCHANGED book /\ wire' = wire /\ asked' \subseteq asked
      BY <2>2 DEF HandClose
    <3> QED
      BY <3>1, DealShows DEF Whys
  <2>3. CASE OrderFills(t)
    BY <2>3, StageShows DEF OrderFills
  <2>4. CASE OrderExpires(t)
    BY <2>4, StageShows DEF OrderExpires
  <2> QED
    BY <2>1, <2>2, <2>3, <2>4
<1>3. CASE \E t \in Tickets, r \in Exits : Ask(t, r)
  <2>1. PICK t \in Tickets, r \in Exits : Ask(t, r)
    BY <1>3
  <2> DEFINE c == [ticket |-> t, reason |-> r]
  <2>2. /\ trade' = trade /\ partial' = partial /\ lots' = lots /\ stage' = stage
        /\ deals' = deals /\ wire' = wire /\ asked' = asked \union {c}
    BY <2>1 DEF Ask, book, broker
  <2>3. c.ticket = t /\ Managed(t)
    BY <2>1 DEF Ask, Managed, Known, Live
  <2> HIDE DEF c
  <2>4. AskedInv'
    BY <2>2, <2>3 DEF ShowInv, AskedInv, Managed, Known
  <2>5. Own' = Own /\ LotsAddUp' /\ DealsInv' /\ FiledInv'
    BY <2>2 DEF ShowInv, LotsAddUp, Dealt, DealtFor, Room, DealsInv, FiledInv, Managed, Known, Own
  <2>6. \A u \in Tickets : RowInv(u)' /\ IsShown(u)' /\ Settled(u)'
    BY <2>2 DEF ShowInv, RowInv, IsShown, Settled, Known, Shown
  <2> QED
    BY <2>2, <2>4, <2>5, <2>6 DEF ShowInv
<1>4. CASE OnTradeTransaction
  BY <1>1, <1>4 DEF OnTradeTransaction
<1>5. CASE OnTimer \/ OnDeinit \/ OnInit
  BY <1>1, <1>5 DEF OnTimer, OnDeinit, OnInit
<1>6. CASE \E o \in Outcomes : Send(o)
  <2>1. PICK o \in Outcomes : Send(o)
    BY <1>6
  <2> DEFINE r == Head(pending)
  <2>2. /\ UNCHANGED broker /\ asked' = asked /\ wire' = wire
        /\ Record(r) \/ UNCHANGED book
        /\ pending # <<>>
    BY <2>1, ReportingAssumption DEF Send, NoLate
  <2>3. r \in Reports
    BY <2>2, RangeTail DEF TypeInv, BufferInv
  <2> HIDE DEF r
  <2>4. CASE UNCHANGED book
    BY <1>1, <2>2, <2>4
  <2>5. CASE Record(r)
    <3>1. CASE r.event = "opened"
      BY <2>2, <2>3, <2>5, <3>1, OpenedShows DEF Record
    <3>2. CASE r.event # "opened"
      <4>1. r.event = "closed"
        BY <2>3, <3>2, ReportShape DEF TypeInv
      <4> QED
        BY <2>2, <2>3, <2>5, <4>1, ClosedShows DEF Record
    <3> QED
      BY <3>1, <3>2
  <2> QED
    BY <2>2, <2>4, <2>5
<1>7. CASE Flushed
  BY <1>1, <1>7 DEF Flushed
<1>8. CASE \E o \in Outcomes \ {"refused", "timeout"} : ReportPositions(o)
  <2>1. /\ UNCHANGED broker /\ asked' = asked /\ wire' = wire
        /\ handler \in {"due", "attached"}
        /\ Reconcile(sent) \/ UNCHANGED book
    BY <1>8, ReportingAssumption DEF ReportPositions, NoLate
  <2> QED
    BY <1>1, <2>1, SnapshotShows
<1>9. CASE \E m \in wire : LateRequest(m)
  BY <1>9 DEF ShowInv
<1>10. CASE Poll
  <2>1. CASE \E t \in Tickets : DoOpen(t) \/ DoOpenPending(t)
    <3>1. PICK t \in Tickets : DoOpen(t) \/ DoOpenPending(t)
      BY <2>1
    <3>2. CASE DoOpen(t)
      BY <3>2, StageShows DEF DoOpen
    <3>3. CASE DoOpenPending(t)
      BY <3>3, StageShows DEF DoOpenPending
    <3> QED
      BY <3>1, <3>2, <3>3
  <2>2. CASE \E c \in asked : DoClose(c)
    <3>1. PICK c \in asked : DoClose(c)
      BY <2>2
    <3>2. UNCHANGED book /\ wire' = wire /\ asked' \subseteq asked
      BY <3>1 DEF DoClose
    <3>3. c.ticket \in Tickets /\ Managed(c.ticket)
      BY DEF ShowInv, AskedInv, TypeInv, OtherInv, Closes
    <3>4. CASE UNCHANGED <<broker, events, taken>>
      <4>1. UNCHANGED broker
        BY <3>4
      <4>2. trade' = trade /\ partial' = partial /\ lots' = lots /\ stage' = stage
            /\ deals' = deals
        BY <3>2, <4>1 DEF broker, book
      <4>3. AskedInv'
        BY <3>2, <4>2 DEF ShowInv, AskedInv, Managed, Known
      <4>4. Own' = Own /\ LotsAddUp' /\ DealsInv' /\ FiledInv'
        BY <4>2 DEF ShowInv, LotsAddUp, Dealt, DealtFor, Room, DealsInv, FiledInv, Managed,
                    Known, Own
      <4>5. \A u \in Tickets : RowInv(u)' /\ IsShown(u)' /\ Settled(u)'
        BY <4>2 DEF ShowInv, RowInv, IsShown, Settled, Known, Shown
      <4> QED
        BY <3>2, <4>3, <4>4, <4>5 DEF ShowInv
    <3>5. CASE Executed(c)
      <4> DEFINE n == IF c.reason = "time_exit" \/ Rung > lots[c.ticket]
                      THEN lots[c.ticket] ELSE Rung
      <4>1. Deal(c.ticket, n, "expert", TRUE)
        BY <3>5 DEF Executed
      <4> HIDE DEF n
      <4> QED
        BY <3>2, <3>3, <4>1, DealShows DEF Whys
    <3> QED
      BY <3>1, <3>4, <3>5 DEF DoClose
  <2>3. CASE PollOver
    BY <1>1, <2>3 DEF PollOver
  <2> QED
    BY <1>10, <2>1, <2>2, <2>3 DEF Poll
<1>11. CASE Crash
  BY <1>1, <1>11 DEF Crash
<1>12. CASE UNCHANGED vars
  BY <1>1, <1>12 DEF vars
<1> QED
  BY <1>2, <1>3, <1>4, <1>5, <1>6, <1>7, <1>8, <1>9, <1>10, <1>11, <1>12 DEF Next

\* What the three theorems below share.
LEMMA ShowAlways == NoLate => (Spec => [](TypeInv /\ ShowInv /\ SentInv))
<1> SUFFICES ASSUME NoLate PROVE Spec => [](TypeInv /\ ShowInv /\ SentInv)
  OBVIOUS
<1>1. Init => TypeInv /\ ShowInv /\ SentInv
  BY TypeInit, ShowInit DEF Init, SentInv
<1>2. TypeInv /\ ShowInv /\ SentInv /\ [Next]_vars => (TypeInv /\ ShowInv /\ SentInv)'
  BY TypeStep, ShowStep, SentStep
<1> QED
  BY <1>1, <1>2, PTL DEF Spec

\* recordOpen, recordClose and reconcile never show as closed, nor with fewer lots than are
\* held, a position the broker holds, whatever is refused, repeated or forgotten and however
\* old a snapshot is when it arrives, unless the server does a request after the terminal
\* has given it up.
THEOREM FillsHeldIsShown == ASSUME NoLate PROVE Spec => []HeldIsShown
<1>1. Spec => [](TypeInv /\ ShowInv /\ SentInv)
  BY ShowAlways
<1>2. ShowInv => HeldIsShown
  BY DEF ShowInv, IsShown, Known, HeldIsShown
<1> QED
  BY <1>1, <1>2, PTL

\* Once recordClose has all the lots of a trade on file, its money is the sum over those
\* deals: no later snapshot puts the terminal's floating figure back.
THEOREM FillsFiguresSettle == ASSUME NoLate PROVE Spec => []FiguresSettle
<1>1. Spec => [](TypeInv /\ ShowInv /\ SentInv)
  BY ShowAlways
<1>2. ShowInv => FiguresSettle
  BY DEF ShowInv, Settled, FiguresSettle
<1> QED
  BY <1>1, <1>2, PTL

\* An answered snapshot leaves the book showing exactly what the terminal held when it took
\* it, whatever was missed before: reconcile adopts, refreshes and closes enough for any
\* past.
THEOREM FillsSnapshotSettles == ASSUME NoLate PROVE Spec => SnapshotSettles
<1>1. Spec => [](TypeInv /\ ShowInv /\ SentInv)
  BY ShowAlways
<1> DEFINE Heard == handler \in {"due", "attached"} /\ handler' \in {"poll", "idle"}
                    /\ faults' = faults
           Stated == \A t \in Tickets : /\ (trade'[t].status \in Live) <=> (t \in DOMAIN sent)
                                        /\ t \in DOMAIN sent => sent[t] = trade'[t].remaining
<1>2. TypeInv /\ ShowInv /\ SentInv /\ [Next]_vars => [Heard => Stated]_vars
  <2> SUFFICES ASSUME TypeInv, ShowInv, SentInv, Next, Heard PROVE Stated
    OBVIOUS
  <2>1. handler' # handler /\ handler \in {"due", "attached"} /\ handler' \in {"poll", "idle"}
    OBVIOUS
  <2>2. PICK o \in Outcomes \ {"refused", "timeout"} : ReportPositions(o)
    <3>1. ~BrokerActs
      BY <2>1 DEF BrokerActs, BrokerClose, HandClose, OrderFills, OrderExpires
    <3>2. ~(\E t \in Tickets, r \in Exits : Ask(t, r))
      BY <2>1 DEF Ask, terminal
    <3>3. ~(OnTradeTransaction \/ OnTimer \/ OnDeinit \/ OnInit)
      BY <2>1 DEF OnTradeTransaction, OnTimer, OnDeinit, OnInit
    <3>4. ~(\E o \in Outcomes : Send(o)) /\ ~Flushed
      BY <2>1 DEF Send, Flushed, Flushing
    <3>5. ~(\E m \in wire : LateRequest(m))
      BY <2>1 DEF LateRequest, terminal
    <3>6. ~Poll /\ ~Crash
      BY <2>1 DEF Poll, DoOpen, DoOpenPending, DoClose, PollOver, Crash
    <3> QED
      BY <3>1, <3>2, <3>3, <3>4, <3>5, <3>6 DEF Next
  <2>3. o = "answered"
    BY <2>2 DEF ReportPositions, TypeInv, OtherInv
  <2>4. /\ Reconcile(sent) /\ wire' = wire /\ asked' = asked /\ UNCHANGED broker
    BY <2>2, <2>3 DEF ReportPositions
  <2> QED
    BY <2>1, <2>4, SnapshotShows
<1> QED
  BY <1>1, <1>2, PTL DEF Spec, SnapshotSettles

-----------------------------------------------------------------------------
(* What no request has lost *)

Clean == faults = 0 /\ crashes = 0 /\ detaches = 0

\* x is among the first n of s.
Before(s, x, n) == \E j \in DOMAIN s : j <= n /\ s[j] = x

Filling(t) == [kind |-> "in", of |-> t]

\* The row of t is there, or its opening is reported before report n + 1.
Coming(t, n) == Known(t) \/ Before(pending, Opening(t), n)

\* It is there, its opening is to be reported, or the terminal is to hear of it among the
\* next n events.
Due(t, n) ==
    \/ Known(t) \/ Opening(t) \in Range(pending)
    \/ t \in placed /\ Before(events, Filling(t), n)

\* No closing report goes out before its opening did, since the server answers a close of a
\* trade it does not know with a 404 that the terminal takes for an answer.
PendingOrder ==
    \A i \in DOMAIN pending, t \in Tickets :
        pending[i].event = "closed" /\ pending[i].ticket = t => Coming(t, i - 1)
EventOrder ==
    \A i \in DOMAIN events, t \in Tickets :
        events[i].kind = "out" /\ deals[events[i].of].ticket = t => Due(t, i - 1)

\* The opening of what has filled is in the book or on its way, which takes that the order
\* is still remembered when it fills.
StageOrder ==
    /\ \A t \in Tickets : stage[t] = "filled" => \E n \in Nat : Due(t, n)
    /\ \A t \in Tickets : stage[t] = "resting" => t \in placed
    /\ \A e \in Range(events) : e.kind = "retired" => stage[e.of] = "unfilled"
    /\ \A d \in Own : stage[deals[d].ticket] = "filled"

Still == wire = {} /\ kept = <<>> /\ handler \in {"idle", "timer", "due", "poll"}

NoneLost == \A d \in Own : Remembered(d)

LostInv == Clean => Still /\ PendingOrder /\ EventOrder /\ StageOrder /\ NoneLost

LEMMA AtAppend ==
    ASSUME NEW S, NEW s \in Seq(S), NEW e \in S
    PROVE  /\ Append(s, e) \in Seq(S) /\ Len(Append(s, e)) = Len(s) + 1 /\ Len(s) \in Nat
           /\ DOMAIN s = 1..Len(s) /\ DOMAIN Append(s, e) = 1..(Len(s) + 1)
           /\ \A i \in DOMAIN s : Append(s, e)[i] = s[i]
           /\ Append(s, e)[Len(s) + 1] = e
           /\ Range(s) \subseteq Range(Append(s, e)) /\ e \in Range(Append(s, e))
           /\ \A x, n : Before(s, x, n) => Before(Append(s, e), x, n)
           /\ Before(Append(s, e), e, Len(s) + 1)
<1>1. /\ Append(s, e) \in Seq(S) /\ Len(Append(s, e)) = Len(s) + 1
      /\ \A i \in 1..Len(s) : Append(s, e)[i] = s[i]
      /\ Append(s, e)[Len(s) + 1] = e
  BY AppendProperties
<1>2. /\ Len(s) \in Nat /\ DOMAIN s = 1..Len(s)
      /\ DOMAIN Append(s, e) = 1..(Len(s) + 1)
  BY <1>1, LenProperties
<1>3. Range(s) \subseteq Range(Append(s, e)) /\ e \in Range(Append(s, e))
  BY RangeAppend
<1>4. DOMAIN s \subseteq DOMAIN Append(s, e) /\ Len(s) + 1 \in DOMAIN Append(s, e)
  BY <1>2
<1>5. \A x, n : Before(s, x, n) => Before(Append(s, e), x, n)
  BY <1>1, <1>2, <1>4 DEF Before
<1>6. Before(Append(s, e), e, Len(s) + 1)
  BY <1>1, <1>2, <1>4 DEF Before
<1> QED
  BY <1>1, <1>2, <1>3, <1>5, <1>6

LEMMA AtTail ==
    ASSUME NEW S, NEW s \in Seq(S), s # <<>>
    PROVE  /\ Tail(s) \in Seq(S) /\ Len(Tail(s)) = Len(s) - 1 /\ Len(s) \in Nat
           /\ 1 \in DOMAIN s /\ s[1] = Head(s)
           /\ \A i \in DOMAIN Tail(s) : i \in Nat /\ i + 1 \in DOMAIN s /\ Tail(s)[i] = s[i + 1]
           /\ \A x, n : n \in Int /\ Before(s, x, n) => Head(s) = x \/ Before(Tail(s), x, n - 1)
<1>1. /\ Tail(s) \in Seq(S) /\ Len(Tail(s)) = Len(s) - 1
      /\ \A i \in 1..Len(Tail(s)) : Tail(s)[i] = s[i + 1]
  BY HeadTailProperties
<1>2. /\ Len(s) \in Nat \ {0} /\ DOMAIN s = 1..Len(s)
      /\ DOMAIN Tail(s) = 1..Len(Tail(s)) /\ Head(s) = s[1]
  BY <1>1, LenProperties, EmptySeq
<1>3. \A i \in DOMAIN s : i = 1 \/ (i - 1 \in DOMAIN Tail(s) /\ s[i] = Tail(s)[i - 1])
  BY <1>1, <1>2
<1>4. ASSUME NEW x, NEW n \in Int, Before(s, x, n), Head(s) # x PROVE Before(Tail(s), x, n - 1)
  <2>1. PICK j \in DOMAIN s : j <= n /\ s[j] = x
    BY <1>4 DEF Before
  <2>2. j # 1 /\ j \in Nat
    BY <1>2, <1>4, <2>1
  <2>3. j - 1 \in DOMAIN Tail(s) /\ Tail(s)[j - 1] = x
    BY <1>3, <2>1, <2>2
  <2>4. j - 1 <= n - 1
    BY <2>1, <2>2
  <2> QED
    BY <2>3, <2>4 DEF Before
<1>5. \A i \in DOMAIN Tail(s) : i \in Nat /\ i + 1 \in DOMAIN s /\ Tail(s)[i] = s[i + 1]
  BY <1>1, <1>2
<1> QED
  BY <1>1, <1>2, <1>4, <1>5

LEMMA NoneBefore == ASSUME NEW S, NEW s \in Seq(S), NEW x PROVE ~Before(s, x, 0)
BY LenProperties DEF Before

LEMMA BeforeEnd ==
    ASSUME NEW S, NEW s \in Seq(S), NEW x, NEW n, Before(s, x, n)
    PROVE  Before(s, x, Len(s)) /\ x \in Range(s)
BY LenProperties DEF Before, Range

LEMMA DueEnd ==
    ASSUME TypeInv, NEW t, NEW n, Due(t, n)
    PROVE  Due(t, Len(events))
BY BeforeEnd DEF Due, TypeInv, EventInv

\* What is due stays due while the book drops no row and the terminal forgets nothing.
LEMMA DueKept ==
    ASSUME NEW t, NEW n, Due(t, n), Known(t) => Known(t)',
           Opening(t) \in Range(pending) => Opening(t) \in Range(pending') \/ Known(t)',
           t \in placed /\ Before(events, Filling(t), n)
              => t \in placed' /\ Before(events, Filling(t), n)'
    PROVE  Due(t, n)'
<1>1. Opening(t)' = Opening(t) /\ Filling(t)' = Filling(t)
  BY DEF Opening, Filling
<1> QED
  BY <1>1 DEF Due

OrderInv == Still /\ PendingOrder /\ EventOrder /\ StageOrder /\ NoneLost

\* A step of the broker's, or a poll that queues no report: an event may join the queue.
LEMMA EventAdded ==
    ASSUME TypeInv, OrderInv, Grows, UNCHANGED book,
           UNCHANGED <<pending, kept, wire, handler>>, placed \subseteq placed',
           NEW e \in AnEvent,
           \/ events' = events
           \/ /\ events' = Append(events, e)
              /\ e.kind = "out" => \A t \in Tickets : deals'[e.of].ticket = t => \E n \in Nat : Due(t, n)
              /\ e.kind = "retired" => stage'[e.of] = "unfilled",
           \A t \in Tickets : stage'[t] = "filled" =>
              \/ stage[t] = "filled"
              \/ e = Filling(t) /\ t \in placed /\ events' = Append(events, e),
           \A t \in Tickets : stage'[t] = "resting" => t \in placed',
           \A t \in Tickets : stage[t] = "unfilled" => stage'[t] = "unfilled",
           \A d \in Own' :
              \/ d \in Own
              \/ /\ stage'[deals'[d].ticket] = "filled" /\ e.kind = "out" /\ e.of = d
                 /\ events' = Append(events, e)
    PROVE  OrderInv'
<1>1. /\ events \in Seq(AnEvent) /\ pending \in Seq(AReport)
      /\ \A x \in Range(events) : x \in AnEvent /\ (x.kind = "out" => x.of \in Own)
      /\ Own \subseteq DOMAIN deals /\ trade' = trade /\ partial' = partial
      /\ Own \subseteq Own'
  BY EventTickets, ReportsGrow DEF TypeInv, EventInv, BufferInv, Own, book
<1> DEFINE more == Append(events, e)
<1>0. /\ Len(more) = Len(events) + 1 /\ DOMAIN more = 1..(Len(events) + 1)
      /\ more[Len(events) + 1] = e /\ e \in Range(more) /\ Before(more, e, Len(events) + 1)
      /\ \A i \in DOMAIN events : more[i] = events[i]
      /\ Range(more) = Range(events) \union {e}
      /\ \A x, n : Before(events, x, n) => Before(more, x, n)
  <2>1. events \in Seq(AnEvent) /\ e \in AnEvent
    BY <1>1
  <2> HIDE DEF more
  <2>2. more = Append(events, e)
    BY DEF more
  <2>3. Range(more) = Range(events) \union {e}
    BY <2>1, <2>2, RangeAppend
  <2> QED
    BY <2>1, <2>2, <2>3, AtAppend
<1>2. \/ events' = events
      \/ /\ events' = Append(events, e) /\ Len(events') = Len(events) + 1
         /\ DOMAIN events' = 1..(Len(events) + 1) /\ events'[Len(events) + 1] = e
         /\ e \in Range(events') /\ Before(events', e, Len(events) + 1)
  BY <1>0
<1>3. /\ Len(events) \in Nat /\ DOMAIN events = 1..Len(events)
      /\ \A i \in DOMAIN events : events'[i] = events[i] /\ events[i] \in Range(events)
      /\ Range(events) \subseteq Range(events')
      /\ \A x, n : Before(events, x, n) => Before(events', x, n)
  <2>1. Len(events) \in Nat /\ DOMAIN events = 1..Len(events)
        /\ \A i \in DOMAIN events : events[i] \in Range(events)
    BY <1>1, LenProperties DEF Range
  <2>2. CASE events' = events
    BY <2>1, <2>2
  <2>3. CASE events' = Append(events, e)
    BY <1>0, <2>1, <2>3
  <2> QED
    BY <1>2, <2>1, <2>2, <2>3
<1>4. ASSUME NEW t, NEW n, Due(t, n) PROVE Due(t, n)'
  <2>1. Filling(t)' = Filling(t) /\ Opening(t)' = Opening(t)
    BY DEF Filling, Opening
  <2>2. Before(events, Filling(t), n) => Before(events, Filling(t), n)'
    BY <1>3, <2>1
  <2> QED
    BY <1>1, <1>4, <2>1, <2>2, DueKept DEF Known
<1>5. Still'
  BY DEF OrderInv, Still
<1>6. PendingOrder'
  <2>1. \A t : Opening(t)' = Opening(t)
    BY DEF Opening
  <2> QED
    BY <1>1, <2>1 DEF OrderInv, PendingOrder, Coming, Known
<1>7. EventOrder'
  <2> SUFFICES ASSUME NEW i \in DOMAIN events', NEW t \in Tickets, events'[i].kind = "out",
                      deals'[events'[i].of].ticket = t
               PROVE  Due(t, i - 1)'
    BY DEF EventOrder
  <2>1. CASE i \in DOMAIN events
    <3>1. events'[i] = events[i] /\ events[i].of \in DOMAIN deals
      BY <1>1, <1>3, <2>1
    <3>2. deals[events[i].of].ticket = t
      BY <3>1 DEF Grows
    <3>3. Due(t, i - 1)
      BY <2>1, <3>1, <3>2 DEF OrderInv, EventOrder
    <3> QED
      BY <1>4, <3>3
  <2>2. CASE i \notin DOMAIN events
    <3>1. events' = Append(events, e) /\ i = Len(events) + 1 /\ events'[i] = e
      BY <1>2, <1>3, <2>2
    <3>2. PICK n \in Nat : Due(t, n)
      BY <3>1
    <3>3. Due(t, i - 1)
      <4>1. Due(t, Len(events))
        BY <3>2, DueEnd
      <4>2. Len(events) \in Nat /\ i = Len(events) + 1
        BY <1>3, <3>1
      <4>3. i - 1 = Len(events)
        BY <4>2
      <4> QED
        BY <4>1, <4>3
    <3> QED
      BY <1>4, <3>3
  <2> QED
    BY <2>1, <2>2
<1>8. StageOrder'
  <2>1. ASSUME NEW t \in Tickets, stage'[t] = "filled" PROVE \E n \in Nat : Due(t, n)'
    <3>1. CASE stage[t] = "filled"
      BY <1>4, <3>1 DEF OrderInv, StageOrder
    <3>2. CASE e = Filling(t) /\ t \in placed /\ events' = Append(events, e)
      <4>1. Before(events', e, Len(events) + 1) /\ t \in placed' /\ Filling(t)' = e
        BY <1>1, <3>2, AtAppend DEF Filling
      <4> DEFINE n == Len(events) + 1
      <4>2. n \in Nat /\ Before(events', Filling(t)', n)
        BY <1>3, <4>1
      <4> HIDE DEF n
      <4> QED
        BY <4>1, <4>2 DEF Due
    <3> QED
      BY <2>1, <3>1, <3>2
  <2>2. \A x \in Range(events') : x \in Range(events) \/ (x = e /\ events' = Append(events, e))
    <3>1. CASE events' = events
      BY <3>1
    <3>2. CASE events' = Append(events, e)
      BY <1>0, <3>2
    <3> QED
      BY <1>2, <3>1, <3>2
  <2>3. \A x \in Range(events') : x.kind = "retired" => stage'[x.of] = "unfilled"
    BY <1>1, <2>2 DEF OrderInv, StageOrder, AnEvent
  <2>4. \A d \in Own : stage'[deals'[d].ticket] = "filled"
    BY <1>1, DealtTyped DEF OrderInv, StageOrder, Grows, TypeInv
  <2> QED
    BY <2>1, <2>3, <2>4 DEF StageOrder
<1>9. NoneLost'
  <2>1. ASSUME NEW d \in Own PROVE Remembered(d)'
    BY <1>1, <1>3 DEF OrderInv, NoneLost, Remembered
  <2>2. ASSUME NEW d \in Own', d \notin Own PROVE Remembered(d)'
    BY <1>2, <2>2 DEF Remembered
  <2> QED
    BY <2>1, <2>2 DEF NoneLost
<1> QED
  BY <1>5, <1>6, <1>7, <1>8, <1>9 DEF OrderInv

\* A step of the server's, with the first report gone from the buffer once it is in the book.
LEMMA BookMoved ==
    ASSUME TypeInv, OrderInv, UNCHANGED broker, UNCHANGED <<events, placed, kept, wire>>,
           handler' \in {"idle", "timer", "due", "poll"},
           \A t \in Tickets : Known(t) => Known(t)', DOMAIN partial \subseteq DOMAIN partial',
           NEW r,
           \/ pending' = pending
           \/ /\ pending # <<>> /\ r = Head(pending) /\ pending' = Tail(pending)
              /\ r.event = "opened" => Known(r.ticket)'
              /\ r.event = "closed" /\ Known(r.ticket) => r.deal \in DOMAIN partial'
    PROVE  OrderInv'
<1>1. /\ events \in Seq(AnEvent) /\ pending \in Seq(AReport)
      /\ Own' = Own /\ stage' = stage /\ deals' = deals
      /\ \A t : Opening(t)' = Opening(t) /\ Filling(t)' = Filling(t)
      /\ \A t \in Tickets : Opening(t).event = "opened" /\ Opening(t).ticket = t
  BY DEF TypeInv, EventInv, BufferInv, Own, broker, Opening, Filling
<1>2. CASE pending' = pending
  <2>1. ASSUME NEW t \in Tickets, NEW n, Due(t, n) PROVE Due(t, n)'
    BY <1>1, <1>2, <2>1 DEF Due
  <2>2. PendingOrder' /\ EventOrder'
    BY <1>1, <1>2, <2>1 DEF OrderInv, PendingOrder, EventOrder, Coming
  <2>3. StageOrder' /\ Still'
    BY <1>1, <2>1 DEF OrderInv, StageOrder, Still
  <2>4. NoneLost'
    BY <1>1, <1>2 DEF OrderInv, NoneLost, Remembered
  <2> QED
    BY <2>2, <2>3, <2>4 DEF OrderInv
<1>3. CASE /\ pending # <<>> /\ r = Head(pending) /\ pending' = Tail(pending)
           /\ r.event = "opened" => Known(r.ticket)'
           /\ r.event = "closed" /\ Known(r.ticket) => r.deal \in DOMAIN partial'
  <2> DEFINE rest == Tail(pending)
  <2>1. /\ 1 \in DOMAIN pending /\ pending[1] = r
        /\ \A i \in DOMAIN rest : i \in Nat /\ i + 1 \in DOMAIN pending /\ rest[i] = pending[i + 1]
        /\ \A x, n : n \in Int /\ Before(pending, x, n) => r = x \/ Before(rest, x, n - 1)
    BY <1>1, <1>3, AtTail
  <2>2. Range(pending) = {r} \union Range(rest) /\ r \in AReport
    BY <1>1, <1>3, RangeTail
  <2>3. pending' = rest
    BY <1>3
  <2> HIDE DEF rest
  <2>4. \A t \in Tickets : r = Opening(t) => Known(t)'
    BY <1>1, <1>3
  <2>5. ASSUME NEW t \in Tickets, NEW n, Due(t, n) PROVE Due(t, n)'
    BY <1>1, <2>2, <2>3, <2>4, <2>5 DEF Due
  <2>6. PendingOrder'
    <3> SUFFICES ASSUME NEW i \in DOMAIN rest, NEW t \in Tickets, rest[i].event = "closed",
                        rest[i].ticket = t
                 PROVE  Coming(t, i - 1)'
      BY <2>3 DEF PendingOrder
    <3>1. i \in Nat /\ i + 1 \in DOMAIN pending /\ pending[i + 1] = rest[i] /\ i + 1 - 1 = i
      BY <2>1
    <3>2. Coming(t, i)
      BY <3>1 DEF OrderInv, PendingOrder
    <3>3. Before(pending, Opening(t), i) => r = Opening(t) \/ Before(rest, Opening(t), i - 1)
      BY <2>1, <3>1
    <3> QED
      BY <1>1, <2>3, <2>4, <3>2, <3>3 DEF Coming
  <2>7. EventOrder' /\ StageOrder' /\ Still'
    BY <1>1, <2>5 DEF OrderInv, EventOrder, StageOrder, Still
  <2>8. r.event = "closed" => r.deal \in DOMAIN partial'
    <3> SUFFICES ASSUME r.event = "closed" PROVE Known(r.ticket)
      BY <1>3
    <3>1. r.ticket \in Tickets
      BY <2>2 DEF AReport
    <3>2. Coming(r.ticket, 1 - 1)
      BY <2>1, <3>1 DEF OrderInv, PendingOrder
    <3>3. ~Before(pending, Opening(r.ticket), 1 - 1)
      BY <1>1, NoneBefore
    <3> QED
      BY <3>2, <3>3 DEF Coming
  <2>9. NoneLost'
    <3> SUFFICES ASSUME NEW d \in Own PROVE Remembered(d)'
      BY <1>1 DEF NoneLost
    <3>1. Remembered(d)
      BY DEF OrderInv, NoneLost
    <3> QED
      BY <2>2, <2>3, <2>8, <3>1 DEF Remembered
  <2> QED
    BY <2>6, <2>7, <2>9 DEF OrderInv
<1> QED
  BY <1>2, <1>3

\* What the endpoints do to the rows that are there.
LEMMA RowsStay ==
    ASSUME TypeInv, NEW r \in Reports, Record(r)
    PROVE  /\ \A t \in Tickets : Known(t) => Known(t)'
           /\ DOMAIN partial \subseteq DOMAIN partial'
           /\ r.event = "opened" => Known(r.ticket)'
           /\ r.event = "closed" /\ Known(r.ticket) => r.deal \in DOMAIN partial'
<1>1. r.ticket \in Tickets /\ trade \in [Tickets -> Trade] /\ r.event \in {"opened", "closed"}
  BY ReportShape DEF TypeInv, AReport, BookInv, BookTypeOK
<1>2. CASE r.event = "opened"
  <2>1. trade' = [trade EXCEPT ![r.ticket] = Opened(r)] /\ partial' = partial
    BY <1>2 DEF Record, RecordOpen
  <2>2. Opened(r).status = "open"
    BY <1>1 DEF Opened, Trade
  <2> QED
    BY <1>1, <1>2, <2>1, <2>2 DEF Known
<1>3. CASE r.event = "closed" /\ ~Known(r.ticket)
  BY <1>1, <1>3 DEF Record, RecordClose, Known, book
<1>4. CASE r.event = "closed" /\ Known(r.ticket)
  <2> DEFINE row == Summed(r, partial')
             new == Ended(r, row)
  <2>1. /\ trade' = [trade EXCEPT ![r.ticket] = new] /\ partial' = Recorded(r)
    BY <1>4 DEF Record, RecordClose, Known
  <2>2. DOMAIN partial' = DOMAIN partial \union {r.deal}
    BY <2>1 DEF Recorded
  <2>3. row.status = trade[r.ticket].status /\ DOMAIN row = DOMAIN trade[r.ticket]
    <3>1. trade[r.ticket] \in Trade
      BY <1>1
    <3> QED
      BY <3>1 DEF Summed, Trade
  <2>4. new.status # "absent"
    <3>1. DOMAIN trade[r.ticket] = {"status", "origin", "initial", "remaining", "final", "pips",
                                    "money", "ended", "closure"}
      BY <1>1 DEF Trade
    <3> HIDE DEF row
    <3> QED
      BY <1>4, <2>3, <3>1 DEF Ended, Known
  <2> HIDE DEF new
  <2> QED
    BY <1>1, <1>4, <2>1, <2>2, <2>4 DEF Known
<1> QED
  BY <1>1, <1>2, <1>3, <1>4

\* A report joins the end of the buffer: a closing one after the opening it needs.
LEMMA ReportQueued ==
    ASSUME TypeInv, OrderInv, UNCHANGED book, UNCHANGED <<kept, wire, handler>>,
           NEW r \in AReport, pending' = Append(pending, r),
           r.event = "closed" => Known(r.ticket) \/ Opening(r.ticket) \in Range(pending)
    PROVE  /\ Still' /\ PendingOrder'
           /\ Range(pending) \subseteq Range(pending') /\ r \in Range(pending')
<1>1. pending \in Seq(AReport) /\ trade' = trade /\ \A t : Opening(t)' = Opening(t)
  BY DEF TypeInv, BufferInv, book, Opening
<1>2. /\ Len(pending) \in Nat /\ DOMAIN pending = 1..Len(pending)
      /\ DOMAIN pending' = 1..(Len(pending) + 1)
      /\ \A i \in DOMAIN pending : pending'[i] = pending[i]
      /\ pending'[Len(pending) + 1] = r
      /\ Range(pending) \subseteq Range(pending') /\ r \in Range(pending')
      /\ \A x, n : Before(pending, x, n) => Before(pending', x, n)
  BY <1>1, AtAppend
<1>3. Still'
  BY DEF OrderInv, Still
<1>4. PendingOrder'
  <2> SUFFICES ASSUME NEW i \in DOMAIN pending', NEW t \in Tickets,
                      pending'[i].event = "closed", pending'[i].ticket = t
               PROVE  Coming(t, i - 1)'
    BY DEF PendingOrder
  <2>1. CASE i \in DOMAIN pending
    <3>1. Coming(t, i - 1)
      BY <1>2, <2>1 DEF OrderInv, PendingOrder
    <3> QED
      BY <1>1, <1>2, <3>1 DEF Coming, Known
  <2>2. CASE i \notin DOMAIN pending
    <3>1. i = Len(pending) + 1 /\ pending'[i] = r
      BY <1>2, <2>2
    <3>2. Known(t) \/ Opening(t) \in Range(pending)
      BY <3>1
    <3>3. Opening(t) \in Range(pending) => Before(pending, Opening(t), i - 1)
      BY <1>2, <3>1 DEF Range, Before
    <3> QED
      BY <1>1, <1>2, <3>2, <3>3 DEF Coming, Known
  <2> QED
    BY <2>1, <2>2
<1> QED
  BY <1>2, <1>3, <1>4

\* An event is handled, while the buffer has room.
LEMMA EventOrderly ==
    ASSUME TypeInv, OrderInv, OnTradeTransaction, Len(pending) < MaxPending
    PROVE  OrderInv'
<1> DEFINE e == Head(events)
           rest == Tail(events)
<1>1. /\ UNCHANGED book /\ UNCHANGED broker /\ UNCHANGED <<kept, wire, handler>>
      /\ events # <<>> /\ events' = rest
      /\ CASE e.kind = "out" -> OnExitDeal(e.of)
           [] e.kind = "in" -> OnEntryDeal(e.of)
           [] e.kind = "retired" -> OnOrderRetired(e.of)
  BY DEF OnTradeTransaction
<1>2. /\ events \in Seq(AnEvent) /\ pending \in Seq(AReport)
      /\ trade' = trade /\ partial' = partial /\ stage' = stage /\ deals' = deals /\ Own' = Own
      /\ \A t : Opening(t)' = Opening(t) /\ Filling(t)' = Filling(t)
      /\ \A x \in Range(events) :
            /\ x.kind = "out" => x.of \in Own
            /\ x.kind = "in" => stage[x.of] = "filled"
  BY <1>1 DEF TypeInv, EventInv, BufferInv, Own, broker, book, Opening, Filling
<1>3. /\ 1 \in DOMAIN events /\ events[1] = e
      /\ \A i \in DOMAIN rest : i \in Nat /\ i + 1 \in DOMAIN events /\ rest[i] = events[i + 1]
      /\ \A x, n : n \in Int /\ Before(events, x, n) => e = x \/ Before(rest, x, n - 1)
      /\ rest \in Seq(AnEvent)
  BY <1>1, <1>2, AtTail
<1>4. Range(events) = {e} \union Range(rest) /\ e \in AnEvent /\ e \in Range(events)
  BY <1>1, <1>2, RangeTail
<1> HIDE DEF e, rest
<1>5. ASSUME NEW x, NEW n \in Int, Before(rest, x, n - 1) PROVE Before(rest, x, n)
  BY <1>3, <1>5, LenProperties DEF Before
\* what a handler owes
<1>6. ASSUME \A t \in Tickets : Opening(t) \in Range(pending) => Opening(t) \in Range(pending'),
             Range(pending) \subseteq Range(pending'), Still', PendingOrder',
             \A t \in Tickets : stage[t] \in {"filled", "resting"} /\ t \in placed
                => t \in placed' \/ (e = Filling(t) /\ stage[t] = "filled"),
             \A t \in Tickets : e = Filling(t) /\ t \in placed => Opening(t) \in Range(pending'),
             e.kind = "out" => \E x \in Range(pending') : x.event = "closed" /\ x.deal = e.of
      PROVE  OrderInv'
  <2>1. ASSUME NEW t \in Tickets, stage[t] = "filled", NEW n \in Int, Due(t, n)
        PROVE  Due(t, n - 1)'
    <3>1. Before(events, Filling(t), n) => e = Filling(t) \/ Before(rest, Filling(t), n - 1)
      BY <1>3
    <3>2. e = Filling(t) /\ t \in placed => Opening(t) \in Range(pending')
      BY <1>6
    <3>3. t \in placed => t \in placed' \/ e = Filling(t)
      BY <1>6, <2>1
    <3>4. Opening(t) \in Range(pending) => Opening(t) \in Range(pending')
      BY <1>6
    <3> QED
      BY <1>1, <1>2, <2>1, <3>1, <3>2, <3>3, <3>4 DEF Due, Known
  <2>2. EventOrder'
    <3> SUFFICES ASSUME NEW i \in DOMAIN rest, NEW t \in Tickets, rest[i].kind = "out",
                        deals[rest[i].of].ticket = t
                 PROVE  Due(t, i - 1)'
      BY <1>1, <1>2 DEF EventOrder, rest
    <3>1. i \in Nat /\ i + 1 \in DOMAIN events /\ events[i + 1] = rest[i] /\ i + 1 - 1 = i
      BY <1>3
    <3>2. Due(t, i)
      BY <3>1 DEF OrderInv, EventOrder
    <3>3. stage[t] = "filled"
      <4>1. rest[i] \in Range(events)
        BY <3>1 DEF Range
      <4> QED
        BY <1>2, <4>1 DEF OrderInv, StageOrder
    <3> QED
      BY <2>1, <3>1, <3>2, <3>3
  <2>3. StageOrder'
    <3>1. ASSUME NEW t \in Tickets, stage[t] = "filled" PROVE \E n \in Nat : Due(t, n)'
      <4>1. PICK n \in Nat : Due(t, n)
        BY <3>1 DEF OrderInv, StageOrder
      <4>2. Due(t, n - 1)'
        BY <2>1, <3>1, <4>1
      <4>3. Before(rest, Filling(t), n - 1) => Before(rest, Filling(t), n)
        <5>1. n \in Int
          BY <4>1
        <5> QED
          BY <1>5, <5>1
      <4>4. Due(t, n)'
        BY <1>1, <1>2, <4>2, <4>3 DEF Due, rest
      <4> QED
        BY <4>4
    <3>2. \A t \in Tickets : stage[t] = "resting" => t \in placed'
      BY <1>6 DEF OrderInv, StageOrder
    <3>3. \A x \in Range(rest) : x.kind = "retired" => stage[x.of] = "unfilled"
      BY <1>4 DEF OrderInv, StageOrder
    <3>4. events' = rest
      BY <1>1 DEF rest
    <3>5. \A d \in Own : stage[deals[d].ticket] = "filled"
      BY DEF OrderInv, StageOrder
    <3> QED
      BY <1>2, <3>1, <3>2, <3>3, <3>4, <3>5 DEF StageOrder
  <2>4. NoneLost'
    <3> SUFFICES ASSUME NEW d \in Own PROVE Remembered(d)'
      BY <1>2 DEF NoneLost
    <3>1. Remembered(d) /\ kept' = kept /\ wire' = wire /\ events' = rest
      BY <1>1 DEF OrderInv, NoneLost, rest
    <3> QED
      BY <1>2, <1>4, <1>6, <3>1 DEF Remembered
  <2> QED
    BY <1>6, <2>2, <2>3, <2>4 DEF OrderInv
<1>7. ASSUME pending' = pending PROVE Still' /\ PendingOrder'
  BY <1>1, <1>2, <1>7 DEF OrderInv, Still, PendingOrder, Coming, Known
<1>8. CASE e.kind = "out"
  <2> DEFINE d == e.of
             r == Closing(d, d, Reported(d), FALSE)
  <2>1. d \in Own /\ d \in DOMAIN deals /\ deals[d].ticket \in Tickets
    BY <1>2, <1>4, <1>8, DealtTyped DEF Own, TypeInv
  <2>2. r \in AReport
    <3>1. d \in Nat
      BY <2>1, DealNumbers DEF TypeInv
    <3>2. Reported(d) \in CloseReasons
      <4>1. /\ reasons[deals[d].ticket] \in Exits \union {"none"}
            /\ Exits \subseteq CloseReasons
        BY <2>1, ReportingAssumption DEF TypeInv, OtherInv, CloseReasons
      <4> QED
        BY <4>1 DEF Reported, CloseReasons
    <3> QED
      BY <2>1, <3>1, <3>2, ReportShape DEF TypeInv
  <2>3. r.event = "closed" /\ r.deal = d /\ r.ticket = deals[d].ticket
    BY DEF Closing
  <2>4. pending' = Queued(pending, r) /\ placed' = placed
    BY <1>1, <1>8 DEF OnExitDeal
  <2>5. Known(deals[d].ticket) \/ Opening(deals[d].ticket) \in Range(pending)
    <3>1. Due(deals[d].ticket, 1 - 1)
      BY <1>3, <1>8, <2>1 DEF OrderInv, EventOrder
    <3>2. ~Before(events, Filling(deals[d].ticket), 1 - 1)
      BY <1>2, NoneBefore
    <3> QED
      BY <3>1, <3>2 DEF Due
  <2> HIDE DEF r, d
  <2>6. pending' = Append(pending, r)
    BY <2>4 DEF Queued
  <2>7. /\ Still' /\ PendingOrder' /\ Range(pending) \subseteq Range(pending')
        /\ r \in Range(pending')
    BY <1>1, <2>2, <2>3, <2>5, <2>6, ReportQueued
  <2>8. \A t \in Tickets : e # Filling(t)
    BY <1>8 DEF Filling
  <2> QED
    BY <1>6, <2>3, <2>4, <2>7, <2>8 DEF d
<1>9. CASE e.kind = "in"
  <2> DEFINE t == e.of
             r == Opening(t)
  <2>1. /\ t \in Tickets /\ stage[t] = "filled" /\ r \in AReport /\ r.event = "opened"
    BY <1>2, <1>4, <1>9, ReportShape DEF AnEvent, TypeInv, Opening
  <2>2. pending' = (IF t \in placed THEN Queued(pending, r) ELSE pending) /\ placed' = placed \ {t}
    BY <1>1, <1>9 DEF OnEntryDeal
  <2>3. \A u \in Tickets : e = Filling(u) => u = t
    BY DEF Filling
  <2>3a. e = Filling(t)
    BY <1>4, <1>9 DEF Filling, AnEvent
  <2> HIDE DEF t
  <2>4. CASE t \in placed
    <3>1. pending' = Append(pending, r)
      BY <2>2, <2>4 DEF Queued
    <3> HIDE DEF r
    <3>2. /\ Still' /\ PendingOrder' /\ Range(pending) \subseteq Range(pending')
          /\ r \in Range(pending')
      BY <1>1, <2>1, <3>1, ReportQueued
    <3> QED
      BY <1>6, <1>9, <2>1, <2>2, <2>3, <2>3a, <3>2 DEF r
  <2>5. CASE t \notin placed
    BY <1>6, <1>7, <1>9, <2>2, <2>3, <2>5
  <2> QED
    BY <2>4, <2>5
<1>10. CASE e.kind = "retired"
  <2>1. placed' = placed \ {e.of} /\ pending' = pending
    BY <1>1, <1>10 DEF OnOrderRetired
  <2>2. stage[e.of] = "unfilled"
    BY <1>4, <1>10 DEF OrderInv, StageOrder
  <2>3. \A t \in Tickets : e # Filling(t)
    BY <1>10 DEF Filling
  <2> QED
    BY <1>6, <1>7, <1>10, <2>1, <2>2, <2>3
<1> QED
  BY <1>4, <1>8, <1>9, <1>10 DEF AnEvent

\* A market order fills and is reported, while the buffer has room.
LEMMA OpenOrderly ==
    ASSUME TypeInv, OrderInv, NEW t \in Tickets, DoOpen(t), Len(pending) < MaxPending
    PROVE  OrderInv'
<1> DEFINE r == Opening(t)
<1>1. /\ UNCHANGED book /\ UNCHANGED <<kept, wire, handler, events, placed>>
      /\ deals' = deals /\ stage[t] = "wanted" /\ stage' = [stage EXCEPT ![t] = "filled"]
      /\ pending' = Append(pending, r)
  BY DEF DoOpen, Queued
<1>2. r \in AReport /\ r.event = "opened"
  BY ReportShape DEF TypeInv, Opening
<1>3. \A u : Opening(u)' = Opening(u) /\ Filling(u)' = Filling(u)
  BY DEF Opening, Filling
<1> HIDE DEF r
<1>4. /\ Still' /\ PendingOrder' /\ Range(pending) \subseteq Range(pending')
      /\ r \in Range(pending')
  BY <1>1, <1>2, ReportQueued
<1>5. ASSUME NEW u \in Tickets, NEW n, Due(u, n) PROVE Due(u, n)'
  BY <1>1, <1>3, <1>4, <1>5 DEF Due, Known, book
<1>6. EventOrder'
  BY <1>1, <1>5 DEF OrderInv, EventOrder
<1>7. StageOrder'
  <2>1. /\ stage'[t] = "filled" /\ \A u \in Tickets : u # t => stage'[u] = stage[u]
        /\ Own' = Own
    BY <1>1 DEF TypeInv, BrokerInv, Own
  <2>2. Due(t, 0)'
    BY <1>3, <1>4 DEF Due, r
  <2>3. \A u \in Tickets : stage'[u] = "filled" => \E n \in Nat : Due(u, n)'
    BY <1>5, <2>1, <2>2 DEF OrderInv, StageOrder
  <2>4. \A e \in Range(events) : e.kind = "retired" => e.of \in Tickets
    BY EventTickets DEF TypeInv, EventInv, AnEvent
  <2>5. \A d \in Own : deals[d].ticket \in Tickets
    BY DealtTyped DEF TypeInv, Own
  <2> QED
    BY <1>1, <2>1, <2>3, <2>4, <2>5 DEF OrderInv, StageOrder
<1>8. NoneLost'
  BY <1>1, <1>4 DEF OrderInv, NoneLost, Remembered, Own, book
<1> QED
  BY <1>4, <1>6, <1>7, <1>8 DEF OrderInv

LEMMA CleanStep ==
    ASSUME TypeInv, [Next]_vars, Clean'
    PROVE  Clean /\ faults' = faults /\ crashes' = crashes /\ detaches' = detaches
<1>1. faults \in Nat /\ crashes \in Nat /\ detaches \in Nat
  BY DEF TypeInv, OtherInv
<1>2. /\ faults' \in {faults, faults + 1} /\ crashes' \in {crashes, crashes + 1}
      /\ detaches' \in {detaches, detaches + 1}
  <2>1. CASE BrokerActs
    BY <2>1 DEF BrokerActs, BrokerClose, HandClose, OrderFills, OrderExpires, budget
  <2>2. CASE \E t \in Tickets, r \in Exits : Ask(t, r)
    BY <2>2 DEF Ask, budget
  <2>3. CASE OnTradeTransaction \/ OnTimer \/ OnDeinit \/ OnInit
    BY <2>3 DEF OnTradeTransaction, OnTimer, OnDeinit, OnInit, budget
  <2>4. CASE \E o \in Outcomes : Send(o)
    BY <2>4 DEF Send
  <2>5. CASE Flushed
    BY <2>5 DEF Flushed, budget
  <2>6. CASE \E o \in Outcomes \ {"refused", "timeout"} : ReportPositions(o)
    BY <2>6 DEF ReportPositions
  <2>7. CASE \E m \in wire : LateRequest(m)
    BY <2>7 DEF LateRequest, budget
  <2>8. CASE Poll
    BY <2>8 DEF Poll, DoOpen, DoOpenPending, DoClose, PollOver, budget
  <2>9. CASE Crash
    BY <2>9 DEF Crash
  <2>10. CASE UNCHANGED vars
    BY <2>10 DEF vars, budget
  <2> QED
    BY <2>1, <2>2, <2>3, <2>4, <2>5, <2>6, <2>7, <2>8, <2>9, <2>10 DEF Next
<1> QED
  BY <1>1, <1>2 DEF Clean

\* Whatever may be reported next, the buffer has room for it without dropping a report.
RoomToReport ==
    events # <<>> \/ (\E t \in Tickets : stage[t] = "wanted") => Len(pending) < MaxPending

LEMMA DealOrderly ==
    ASSUME TypeInv, OrderInv, NEW t \in Tickets, NEW n, NEW why \in Whys,
           NEW ours \in BOOLEAN, Deal(t, n, why, ours), UNCHANGED book,
           UNCHANGED <<pending, kept, wire, handler, placed>>
    PROVE  OrderInv'
<1> DEFINE e == [kind |-> "out", of |-> Len(deals) + 1]
<1>1. /\ Grows /\ Len(deals') = Len(deals) + 1
      /\ deals'[Len(deals) + 1] =
            [ticket |-> t, lots |-> n, why |-> why, ours |-> ours]
      /\ stage' = stage /\ BrokerInv'
  BY DealStep DEF TypeInv, Deal
<1>2. Len(deals) \in Nat /\ DOMAIN deals' = DOMAIN deals \union {Len(deals) + 1}
  <2>1. DOMAIN deals = 1..Len(deals) /\ Len(deals) \in Nat
    BY DealNumbers DEF TypeInv
  <2>2. DOMAIN deals' = 1..Len(deals')
    BY <1>1, LenProperties DEF BrokerInv
  <2> QED
    BY <1>1, <2>1, <2>2
<1>3. e \in AnEvent /\ e.kind = "out" /\ e.of = Len(deals) + 1
  BY <1>2 DEF AnEvent
<1>4. stage[t] = "filled"
  <2>1. lots[t] > 0
    BY ReportingAssumption DEF Deal, TypeInv, BrokerInv
  <2> QED
    BY <2>1 DEF TypeInv, BrokerInv
<1>5. PICK m \in Nat : Due(t, m)
  BY <1>4 DEF OrderInv, StageOrder
<1>6. ours => events' = Append(events, e)
  BY DEF Deal, Raised, OrderInv, Still
<1>7. events' = events \/ events' = Append(events, e)
  BY <1>6 DEF Deal
<1>8. deals'[e.of].ticket = t
  BY <1>1
<1> HIDE DEF e
<1>9. \A d \in Own' : \/ d \in Own
                      \/ /\ stage'[deals'[d].ticket] = "filled" /\ e.kind = "out" /\ e.of = d
                         /\ events' = Append(events, e)
  <2> SUFFICES ASSUME NEW d \in Own', d \notin Own
               PROVE  /\ stage'[deals'[d].ticket] = "filled" /\ e.of = d
                      /\ events' = Append(events, e)
    BY <1>3
  <2>1. d = Len(deals) + 1
    BY <1>1, <1>2 DEF Own, Grows
  <2>2. ours /\ deals'[d].ticket = t
    BY <1>1, <2>1 DEF Own
  <2> QED
    BY <1>1, <1>3, <1>4, <1>6, <2>1, <2>2
<1>10. /\ e.kind = "out" => \A u \in Tickets : deals'[e.of].ticket = u => \E k \in Nat : Due(u, k)
       /\ e.kind = "retired" => stage'[e.of] = "unfilled"
  BY <1>3, <1>5, <1>8
<1>11. \A u \in Tickets : stage'[u] = "resting" => u \in placed'
  BY <1>1 DEF OrderInv, StageOrder
<1> QED
  BY <1>1, <1>3, <1>7, <1>9, <1>10, <1>11, EventAdded

LEMMA StageOrderly ==
    ASSUME TypeInv, OrderInv, NEW t \in Tickets, UNCHANGED book, deals' = deals,
           UNCHANGED <<pending, kept, wire, handler>>,
           \/ /\ stage[t] = "resting" /\ stage' = [stage EXCEPT ![t] = "filled"]
              /\ events' = Raised("in", t) /\ placed' = placed
           \/ /\ stage[t] = "resting" /\ stage' = [stage EXCEPT ![t] = "unfilled"]
              /\ events' = Raised("retired", t) /\ placed' = placed
           \/ /\ stage[t] = "wanted" /\ stage' = [stage EXCEPT ![t] = "resting"]
              /\ events' = events /\ placed' = placed \union {t}
    PROVE  OrderInv'
<1>1. /\ handler # "off" /\ Own' = Own /\ placed \subseteq placed'
      /\ stage \in [Tickets -> {"wanted", "resting", "unfilled", "filled"}]
      /\ Grows
  BY DEF OrderInv, Still, Own, TypeInv, BrokerInv, Grows
<1>2. \A u \in Tickets : u # t => stage'[u] = stage[u]
  BY <1>1
<1>3. \A u \in Tickets : stage[u] = "resting" => u \in placed
  BY DEF OrderInv, StageOrder
<1>4. CASE stage' = [stage EXCEPT ![t] = "filled"] /\ stage[t] = "resting"
           /\ events' = Raised("in", t)
  <2> DEFINE e == [kind |-> "in", of |-> t]
  <2>1. events' = Append(events, e) /\ e \in AnEvent /\ e = Filling(t) /\ e.kind = "in"
    BY <1>1, <1>4 DEF Raised, AnEvent, Filling
  <2> HIDE DEF e
  <2> QED
    BY <1>1, <1>2, <1>3, <1>4, <2>1, EventAdded
<1>5. CASE stage' = [stage EXCEPT ![t] = "unfilled"] /\ stage[t] = "resting"
           /\ events' = Raised("retired", t)
  <2> DEFINE e == [kind |-> "retired", of |-> t]
  <2>1. events' = Append(events, e) /\ e \in AnEvent /\ e.kind = "retired" /\ e.of = t
    BY <1>1, <1>5 DEF Raised, AnEvent
  <2>2. stage'[t] = "unfilled"
    BY <1>1, <1>5
  <2> HIDE DEF e
  <2> QED
    BY <1>1, <1>2, <1>3, <1>5, <2>1, <2>2, EventAdded
<1>6. CASE stage' = [stage EXCEPT ![t] = "resting"] /\ stage[t] = "wanted"
           /\ events' = events /\ placed' = placed \union {t}
  <2> DEFINE e == [kind |-> "in", of |-> t]
  <2>1. e \in AnEvent
    BY DEF AnEvent
  <2>2. stage'[t] = "resting"
    BY <1>1, <1>6
  <2> HIDE DEF e
  <2> QED
    BY <1>1, <1>2, <1>3, <1>6, <2>1, <2>2, EventAdded
<1> QED
  BY <1>4, <1>5, <1>6

LEMMA LostInit == Init => LostInv
<1> SUFFICES ASSUME Init PROVE LostInv
  OBVIOUS
<1>1. /\ deals = <<>> /\ events = <<>> /\ pending = <<>> /\ kept = <<>> /\ wire = {}
      /\ handler = "idle" /\ stage = [t \in Tickets |-> "wanted"]
  BY DEF Init
<1>2. Own = {} /\ DOMAIN events = {} /\ DOMAIN pending = {} /\ Range(events) = {}
  BY <1>1, RangeEmpty DEF Own
<1>3. Still
  BY <1>1 DEF Still
<1>4. StageOrder
  BY <1>1, <1>2 DEF StageOrder
<1> QED
  BY <1>2, <1>3, <1>4 DEF LostInv, PendingOrder, EventOrder, NoneLost

LEMMA LostStep ==
    ASSUME TypeInv, LostInv, Clean => RoomToReport, [Next]_vars
    PROVE  LostInv'
<1> SUFFICES ASSUME Clean' PROVE OrderInv'
  BY DEF LostInv, OrderInv
<1>1. /\ OrderInv /\ RoomToReport
      /\ faults' = faults /\ crashes' = crashes /\ detaches' = detaches
      /\ faults \in Nat /\ crashes \in Nat /\ detaches \in Nat
  BY CleanStep DEF LostInv, OrderInv, TypeInv, OtherInv
<1>2. /\ handler \in {"idle", "timer", "due", "poll"} /\ wire = {} /\ kept = <<>>
  BY <1>1 DEF OrderInv, Still
<1>3. ASSUME UNCHANGED broker, UNCHANGED book, UNCHANGED <<events, placed, kept, wire, pending>>,
             handler' \in {"idle", "timer", "due", "poll"}
      PROVE  OrderInv'
  <2>1. partial' = partial /\ \A t \in Tickets : Known(t) => Known(t)'
    BY <1>3 DEF book, Known
  <2> QED
    BY <1>1, <1>3, <2>1, BookMoved
<1>4. CASE BrokerActs
  <2> SUFFICES ASSUME NEW t \in Tickets,
                      \/ BrokerClose(t, "sl") \/ BrokerClose(t, "tp") \/ HandClose(t)
                      \/ OrderFills(t) \/ OrderExpires(t)
               PROVE  OrderInv'
    BY <1>4 DEF BrokerActs
  <2>1. ASSUME NEW why \in {"sl", "tp"}, BrokerClose(t, why) PROVE OrderInv'
    <3>1. Deal(t, lots[t], why, TRUE) /\ UNCHANGED book
          /\ UNCHANGED <<pending, kept, wire, handler, placed>>
      BY <2>1 DEF BrokerClose
    <3> QED
      BY <1>1, <3>1, DealOrderly DEF Whys
  <2>2. CASE HandClose(t)
    <3>1. Deal(t, 1, "hand", FALSE) /\ UNCHANGED book
          /\ UNCHANGED <<pending, kept, wire, handler, placed>>
      BY <2>2 DEF HandClose
    <3> QED
      BY <1>1, <3>1, DealOrderly DEF Whys
  <2>3. CASE OrderFills(t)
    BY <1>1, <2>3, StageOrderly DEF OrderFills
  <2>4. CASE OrderExpires(t)
    BY <1>1, <2>4, StageOrderly DEF OrderExpires
  <2> QED
    BY <2>1, <2>2, <2>3, <2>4
<1>5. CASE \E t \in Tickets, r \in Exits : Ask(t, r)
  BY <1>2, <1>3, <1>5 DEF Ask, terminal
<1>6. CASE OnTradeTransaction
  BY <1>1, <1>6, EventOrderly DEF RoomToReport, OnTradeTransaction
<1>7. CASE OnTimer
  BY <1>3, <1>7 DEF OnTimer
<1>8. CASE OnDeinit \/ OnInit
  BY <1>1, <1>2, <1>8 DEF OnDeinit, OnInit
<1>9. CASE \E o \in Outcomes : Send(o)
  <2>1. PICK o \in Outcomes : Send(o)
    BY <1>9
  <2>2. o = "answered"
    BY <1>1, <2>1 DEF Send
  <2>0. Head(pending) \in Reports
    BY <2>1, RangeTail DEF TypeInv, BufferInv, Send
  <2>4. PICK r \in Reports : r = Head(pending)
    BY <2>0
  <2>3. /\ UNCHANGED broker /\ UNCHANGED <<events, placed, kept, wire, handler>>
        /\ Record(r) /\ pending # <<>> /\ pending' = Tail(pending)
    BY <2>1, <2>2, <2>4 DEF Send
  <2>5. /\ \A t \in Tickets : Known(t) => Known(t)'
        /\ DOMAIN partial \subseteq DOMAIN partial'
        /\ r.event = "opened" => Known(r.ticket)'
        /\ r.event = "closed" /\ Known(r.ticket) => r.deal \in DOMAIN partial'
    BY <2>3, <2>4, RowsStay
  <2> QED
    BY <1>1, <1>2, <2>3, <2>4, <2>5, BookMoved
<1>10. CASE Flushed
  <2>1. /\ pending = <<>> /\ pending' = kept /\ kept' = <<>> /\ UNCHANGED <<events, placed>>
        /\ handler' \in {"due", "poll"} /\ UNCHANGED book /\ UNCHANGED broker /\ wire' = wire
    BY <1>2, <1>10 DEF Flushed, Flushing
  <2>2. pending' = pending /\ kept' = kept
    BY <1>2, <2>1
  <2> QED
    BY <1>3, <2>1, <2>2
<1>11. CASE \E o \in Outcomes \ {"refused", "timeout"} : ReportPositions(o)
  <2>1. PICK o \in Outcomes \ {"refused", "timeout"} : ReportPositions(o)
    BY <1>11
  <2>2. o = "answered"
    BY <1>1, <2>1 DEF ReportPositions
  <2>3. /\ UNCHANGED broker /\ UNCHANGED <<events, placed, kept, wire, pending>>
        /\ Reconcile(sent) /\ handler' \in {"poll", "idle"}
    BY <2>1, <2>2 DEF ReportPositions
  <2>4. /\ \A t \in Tickets : Known(t) => Known(t)'
        /\ partial' = partial
    BY <2>3, SnapshotKeeps
  <2> QED
    BY <1>1, <2>3, <2>4, BookMoved
<1>12. CASE \E m \in wire : LateRequest(m)
  BY <1>2, <1>12
<1>13. CASE Poll
  <2>1. CASE \E t \in Tickets : DoOpen(t)
    BY <1>1, <2>1, OpenOrderly DEF RoomToReport, DoOpen
  <2>2. CASE \E t \in Tickets : DoOpenPending(t)
    <3>1. PICK t \in Tickets : DoOpenPending(t)
      BY <2>2
    <3> QED
      BY <1>1, <3>1, StageOrderly DEF DoOpenPending
  <2>3. CASE \E c \in asked : DoClose(c)
    <3>1. PICK c \in asked : DoClose(c)
      BY <2>3
    <3>2. c.ticket \in Tickets
      BY DEF TypeInv, OtherInv, Closes
    <3>3. CASE UNCHANGED <<broker, events, taken>>
      BY <1>2, <1>3, <3>1, <3>3 DEF DoClose
    <3>4. CASE Executed(c)
      <4> DEFINE n == IF c.reason = "time_exit" \/ Rung > lots[c.ticket]
                      THEN lots[c.ticket] ELSE Rung
      <4>1. Deal(c.ticket, n, "expert", TRUE) /\ UNCHANGED book
            /\ UNCHANGED <<pending, kept, wire, handler, placed>>
        BY <3>1, <3>4 DEF DoClose, Executed
      <4> HIDE DEF n
      <4> QED
        BY <1>1, <3>2, <4>1, DealOrderly DEF Whys
    <3> QED
      BY <3>1, <3>3, <3>4 DEF DoClose
  <2>4. CASE PollOver
    BY <1>3, <2>4 DEF PollOver
  <2> QED
    BY <1>13, <2>1, <2>2, <2>3, <2>4 DEF Poll
<1>14. CASE Crash
  BY <1>1, <1>14 DEF Crash
<1>15. CASE UNCHANGED vars
  BY <1>2, <1>3, <1>15 DEF vars, terminal
<1> QED
  BY <1>4, <1>5, <1>6, <1>7, <1>8, <1>9, <1>10, <1>11, <1>12, <1>13, <1>14, <1>15 DEF Next

LEMMA LostImplied == LostInv => NoCloseLost
BY DEF LostInv, NoneLost, NoCloseLost, Clean, Own

\* With no request gone wrong and the terminal's memory kept, every deal the terminal saw is in
\* trade_partials or on its way there, as long as FXSQueueReport has room for what it is
\* given: an opening always goes out before the closes of its position, so recordClose
\* never answers one with the 404 the terminal takes for an answer.
THEOREM FillsNoCloseLost == Spec /\ []RoomToReport => []NoCloseLost
<1>1. Spec => []TypeInv
  BY TypeInit, TypeStep, PTL DEF Spec
<1>2. TypeInv /\ LostInv /\ RoomToReport /\ [Next]_vars => LostInv'
  BY LostStep
<1>3. Spec /\ []RoomToReport => []LostInv
  BY <1>1, <1>2, LostInit, PTL DEF Spec
<1> QED
  BY <1>3, LostImplied, PTL

\* The reports a position may still give rise to: its opening, and a close a lot.
Capacity ==
    [t \in Tickets |-> IF stage[t] \in {"wanted", "resting"} THEN Volume + 1 ELSE lots[t]]
Ahead == SumOver(Capacity, Tickets)

\* A buffer for every report there can be.
Plenty == Cardinality(Tickets) * (Volume + 1)

\* While nothing is reported twice, what is waiting and what may still come is no more.
FitInv == Clean => Len(pending) + Len(events) + Ahead <= Plenty

LEMMA CapacityTyped ==
    ASSUME BrokerInv
    PROVE  /\ \A t \in Tickets : Capacity[t] \in Nat
           /\ Ahead \in Nat /\ Plenty \in Nat
<1>1. \A t \in Tickets : Capacity[t] \in Nat
  BY ReportingAssumption DEF BrokerInv, Capacity
<1>2. SumOver(Capacity, Tickets) \in Nat
  <2> HIDE DEF Capacity
  <2> QED
    BY <1>1, SumOverNat, TicketsAssumption
<1>3. Cardinality(Tickets) * (Volume + 1) \in Nat
  <2>1. Cardinality(Tickets) \in Nat /\ Volume + 1 \in Nat
    BY ReportingAssumption, TicketsAssumption, FS_CardinalityType
  <2> QED
    BY <2>1
<1> QED
  BY <1>1, <1>2, <1>3 DEF Ahead, Plenty

\* What one position may still give rise to changes by k.
LEMMA AheadStep ==
    ASSUME BrokerInv, BrokerInv', NEW t \in Tickets,
           \A u \in Tickets : u # t => stage'[u] = stage[u] /\ lots'[u] = lots[u]
    PROVE  Ahead' = Ahead - Capacity[t] + Capacity'[t]
<1> DEFINE before == Capacity
           after == Capacity'
<1>1. \A u \in Tickets : before[u] \in Int
  BY CapacityTyped
<1>2. \A u \in Tickets : after[u] \in Int
  BY ReportingAssumption DEF BrokerInv, Capacity
<1>3. \A u \in Tickets : u # t => after[u] = before[u]
  BY DEF Capacity
<1>4. Ahead = SumOver(before, Tickets) /\ Ahead' = SumOver(after, Tickets)
  BY DEF Ahead
<1> HIDE DEF before, after
<1>5. SumOver(after, Tickets) = SumOver(before, Tickets) - before[t] + after[t]
  <2>1. \A u \in Tickets :
           before[u] \in Int /\ after[u] \in Int /\ (u # t => after[u] = before[u])
    BY <1>1, <1>2, <1>3
  <2>2. IsFiniteSet(Tickets)
    BY TicketsAssumption
  <2> QED
    BY <2>1, <2>2, SumOverChanged
<1> QED
  BY <1>4, <1>5 DEF before, after

LEMMA AheadSame ==
    ASSUME UNCHANGED broker
    PROVE  Ahead' = Ahead
<1>1. Capacity' = Capacity
  BY DEF broker, Capacity
<1> QED
  BY <1>1 DEF Ahead

\* A close of n lots makes one report at most.
LEMMA DealFits ==
    ASSUME TypeInv, NEW t \in Tickets, NEW n, NEW why \in Whys,
           NEW ours \in BOOLEAN, Deal(t, n, why, ours)
    PROVE  Len(events') + Ahead' <= Len(events) + Ahead
<1>1. /\ BrokerInv /\ BrokerInv' /\ lots \in [Tickets -> 0..Volume] /\ Volume \in Nat
      /\ n \in 1..lots[t] /\ lots' = [lots EXCEPT ![t] = @ - n] /\ stage' = stage
      /\ events \in Seq(AnEvent)
  BY DealStep, ReportingAssumption DEF Deal, TypeInv, BrokerInv, EventInv
<1>2. /\ lots[t] \in Nat /\ n \in Nat /\ n >= 1 /\ stage[t] = "filled"
      /\ lots'[t] = lots[t] - n /\ \A u \in Tickets : u # t => lots'[u] = lots[u]
  BY <1>1 DEF BrokerInv
<1>3. Ahead' = Ahead - Capacity[t] + Capacity'[t]
  BY <1>1, <1>2, AheadStep
<1>4. Capacity[t] = lots[t] /\ Capacity'[t] = lots[t] - n
  BY <1>1, <1>2 DEF Capacity
<1>5. Ahead \in Nat
  BY <1>1, CapacityTyped
<1>6. Len(events) \in Nat /\ Len(events') \in Nat /\ Len(events') <= Len(events) + 1
  <2> DEFINE e == [kind |-> "out", of |-> Len(deals) + 1]
  <2>1. events' = events \/ events' = Append(events, e)
    BY DEF Deal, Raised
  <2>2. e \in AnEvent
    BY DealNumbers DEF AnEvent, TypeInv
  <2> HIDE DEF e
  <2>3. Len(events) \in Nat
    BY <1>1, LenProperties
  <2>4. Len(Append(events, e)) = Len(events) + 1
    BY <1>1, <2>2, AtAppend
  <2> QED
    BY <2>1, <2>3, <2>4
<1> QED
  BY <1>2, <1>3, <1>4, <1>5, <1>6

\* So do the steps of an order: it is placed, it fills or it is given up.
LEMMA StageFits ==
    ASSUME TypeInv, NEW t \in Tickets, stage[t] \in {"wanted", "resting"},
           NEW s \in {"resting", "unfilled", "filled"}, stage' = [stage EXCEPT ![t] = s],
           lots' = IF s = "filled" THEN [lots EXCEPT ![t] = Volume] ELSE lots,
           deals' = deals
    PROVE  /\ s = "resting" => Ahead' <= Ahead
           /\ s # "resting" => Ahead' + 1 <= Ahead
<1>1. BrokerInv /\ BrokerInv' /\ stage'[t] = s
  BY StageStep DEF TypeInv
<1>2. /\ lots \in [Tickets -> 0..Volume] /\ Volume \in Nat \ {0}
      /\ stage \in [Tickets -> {"wanted", "resting", "unfilled", "filled"}] /\ lots[t] = 0
  BY <1>1, ReportingAssumption DEF BrokerInv
<1>3. \A u \in Tickets : u # t => stage'[u] = stage[u] /\ lots'[u] = lots[u]
  BY <1>2
<1>4. Ahead' = Ahead - Capacity[t] + Capacity'[t] /\ Ahead \in Nat
  BY <1>1, <1>3, AheadStep, CapacityTyped
<1>5. /\ Capacity[t] = Volume + 1
      /\ Capacity'[t] = IF s = "resting" THEN Volume + 1 ELSE IF s = "filled" THEN Volume ELSE 0
  BY <1>1, <1>2 DEF Capacity
<1> QED
  BY <1>2, <1>4, <1>5

LEMMA QueuedLength ==
    ASSUME NEW S, NEW s \in Seq(S), NEW r \in S
    PROVE  Len(Queued(s, r)) \in Nat /\ Len(Queued(s, r)) <= Len(s) + 1 /\ Len(s) \in Nat
<1>0. Len(s) \in Nat /\ MaxPending \in Nat \ {0}
  BY LenProperties, ReportingAssumption
<1>1. CASE Len(s) < MaxPending
  <2>1. Len(Append(s, r)) = Len(s) + 1
    BY AtAppend
  <2> QED
    BY <1>0, <1>1, <2>1 DEF Queued
<1>2. CASE ~(Len(s) < MaxPending)
  <2> DEFINE rest == Tail(s)
  <2>1. s # <<>>
    BY <1>0, <1>2, EmptySeq
  <2>2. rest \in Seq(S) /\ Len(rest) = Len(s) - 1
    BY <2>1, AtTail
  <2>3. Queued(s, r) = Append(rest, r)
    BY <1>2 DEF Queued
  <2> HIDE DEF rest
  <2>4. Len(Append(rest, r)) = Len(rest) + 1
    BY <2>2, AtAppend
  <2> QED
    BY <1>0, <2>2, <2>3, <2>4
<1> QED
  BY <1>1, <1>2

LEMMA FitInit == Init => FitInv
<1> SUFFICES ASSUME Init PROVE FitInv
  OBVIOUS
<1>1. /\ events = <<>> /\ pending = <<>> /\ stage = [t \in Tickets |-> "wanted"]
      /\ Volume + 1 \in Nat /\ BrokerInv
  BY TypeInit, ReportingAssumption DEF Init, TypeInv
<1> DEFINE cap == Capacity
           most == Volume + 1
<1>2. \A t \in Tickets : cap[t] \in Int /\ 1 * cap[t] <= most
  BY <1>1 DEF Capacity
<1>3. most \in Nat /\ Ahead = SumOver(cap, Tickets) /\ Plenty = Cardinality(Tickets) * most
  BY <1>1 DEF Ahead, Plenty
<1> HIDE DEF cap, most
<1>4. 1 * SumOver(cap, Tickets) <= Cardinality(Tickets) * most
  BY <1>2, <1>3, SumOverBounded, TicketsAssumption
<1>5. 1 * Ahead <= Plenty
  BY <1>3, <1>4
<1>6. Ahead \in Nat /\ Plenty \in Nat /\ Len(pending) = 0 /\ Len(events) = 0
  BY <1>1, CapacityTyped
<1> QED
  BY <1>5, <1>6 DEF FitInv

LEMMA OneMoreOneLess ==
    ASSUME NEW a \in Nat, NEW b \in Nat, NEW c \in Nat, NEW d \in Nat, a <= b + 1, c + 1 <= d
    PROVE  a + c <= b + d
OBVIOUS

LEMMA FitStep ==
    ASSUME TypeInv, LostInv, FitInv, [Next]_vars
    PROVE  FitInv'
<1> SUFFICES ASSUME Clean' PROVE Len(pending') + Len(events') + Ahead' <= Plenty
  BY DEF FitInv, Plenty
<1>1. /\ faults' = faults /\ crashes' = crashes /\ detaches' = detaches
      /\ kept = <<>> /\ wire = {} /\ handler \in {"idle", "timer", "due", "poll"}
      /\ Len(pending) + Len(events) + Ahead <= Plenty
      /\ faults \in Nat /\ crashes \in Nat /\ detaches \in Nat
  BY CleanStep DEF LostInv, FitInv, Still, TypeInv, OtherInv
<1>2. /\ pending \in Seq(AReport) /\ events \in Seq(AnEvent)
      /\ Len(pending) \in Nat /\ Len(events) \in Nat /\ Ahead \in Nat /\ Plenty \in Nat
  BY CapacityTyped, LenProperties DEF TypeInv, BrokerInv, BufferInv, EventInv
<1>3. /\ pending' \in Seq(AReport) /\ events' \in Seq(AnEvent)
      /\ Len(pending') \in Nat /\ Len(events') \in Nat /\ Ahead' \in Nat
  <2>1. TypeInv'
    BY TypeStep
  <2>2. /\ pending' \in Seq(AReport) /\ events' \in Seq(AnEvent)
        /\ Len(pending') \in Nat /\ Len(events') \in Nat
    BY <2>1, LenProperties DEF TypeInv, BufferInv, EventInv
  <2>3. \A t \in Tickets : Capacity'[t] \in Nat
    BY <2>1, ReportingAssumption DEF TypeInv, BrokerInv, Capacity
  <2>4. SumOver(Capacity', Tickets) \in Nat
    <3> DEFINE cap == Capacity'
    <3>1. \A t \in Tickets : cap[t] \in Nat
      BY <2>3
    <3> HIDE DEF cap
    <3>2. SumOver(cap, Tickets) \in Nat
      BY <3>1, SumOverNat, TicketsAssumption
    <3> QED
      BY <3>2 DEF cap
  <2> QED
    BY <2>2, <2>4 DEF Ahead
<1>4. ASSUME UNCHANGED broker, Len(events') = Len(events), Len(pending') <= Len(pending)
      PROVE  Len(pending') + Len(events') + Ahead' <= Plenty
  BY <1>1, <1>2, <1>3, <1>4, AheadSame
<1>5. ASSUME pending' = pending, Len(events') + Ahead' <= Len(events) + Ahead
      PROVE  Len(pending') + Len(events') + Ahead' <= Plenty
  BY <1>1, <1>2, <1>3, <1>5
<1>6. ASSUME NEW t \in Tickets, NEW kind \in {"in", "retired"}, events' = Raised(kind, t)
      PROVE  Len(events') <= Len(events) + 1
  <2> DEFINE e == [kind |-> kind, of |-> t]
  <2>1. e \in AnEvent /\ (events' = events \/ events' = Append(events, e))
    BY <1>6 DEF AnEvent, Raised
  <2> HIDE DEF e
  <2>2. Len(Append(events, e)) = Len(events) + 1
    BY <1>2, <2>1, AtAppend
  <2> QED
    BY <1>2, <2>1, <2>2
<1>7. CASE BrokerActs
  <2> SUFFICES ASSUME NEW t \in Tickets,
                      \/ BrokerClose(t, "sl") \/ BrokerClose(t, "tp") \/ HandClose(t)
                      \/ OrderFills(t) \/ OrderExpires(t)
               PROVE  Len(pending') + Len(events') + Ahead' <= Plenty
    BY <1>7 DEF BrokerActs
  <2>1. ASSUME NEW why \in {"sl", "tp"}, BrokerClose(t, why)
        PROVE  Len(pending') + Len(events') + Ahead' <= Plenty
    <3>1. Deal(t, lots[t], why, TRUE) /\ pending' = pending
      BY <2>1 DEF BrokerClose
    <3> QED
      BY <1>5, <3>1, DealFits DEF Whys
  <2>2. CASE HandClose(t)
    <3>1. Deal(t, 1, "hand", FALSE) /\ pending' = pending
      BY <2>2 DEF HandClose
    <3> QED
      BY <1>5, <3>1, DealFits DEF Whys
  <2>3. CASE OrderFills(t)
    <3>1. Ahead' + 1 <= Ahead /\ pending' = pending
      BY <2>3, StageFits DEF OrderFills
    <3>2. Len(events') <= Len(events) + 1
      BY <1>6, <2>3 DEF OrderFills
    <3>3. Len(events') + Ahead' <= Len(events) + Ahead
      BY <1>2, <1>3, <3>1, <3>2, OneMoreOneLess
    <3> QED
      BY <1>5, <3>1, <3>3
  <2>4. CASE OrderExpires(t)
    <3>1. Ahead' + 1 <= Ahead /\ pending' = pending
      BY <2>4, StageFits DEF OrderExpires
    <3>2. Len(events') <= Len(events) + 1
      BY <1>6, <2>4 DEF OrderExpires
    <3>3. Len(events') + Ahead' <= Len(events) + Ahead
      BY <1>2, <1>3, <3>1, <3>2, OneMoreOneLess
    <3> QED
      BY <1>5, <3>1, <3>3
  <2> QED
    BY <2>1, <2>2, <2>3, <2>4
<1>8. CASE \E t \in Tickets, r \in Exits : Ask(t, r)
  BY <1>2, <1>4, <1>8 DEF Ask, terminal
<1>9. CASE OnTradeTransaction
  <2> DEFINE e == Head(events)
  <2>1. /\ UNCHANGED broker /\ events # <<>> /\ events' = Tail(events)
        /\ CASE e.kind = "out" -> OnExitDeal(e.of)
             [] e.kind = "in" -> OnEntryDeal(e.of)
             [] e.kind = "retired" -> OnOrderRetired(e.of)
    BY <1>9 DEF OnTradeTransaction
  <2>2. e \in AnEvent
    BY <1>2, <2>1, RangeTail
  <2>3. Len(events') = Len(events) - 1
    BY <1>2, <2>1, AtTail
  <2> HIDE DEF e
  <2>4. pending' = pending \/ \E r : pending' = Queued(pending, r)
    BY <2>1, <2>2 DEF AnEvent, OnExitDeal, OnEntryDeal, OnOrderRetired
  <2>5. Len(pending') <= Len(pending) + 1
    <3>1. CASE pending' = pending
      BY <1>2, <3>1
    <3>2. ASSUME NEW r, pending' = Queued(pending, r) PROVE Len(pending') <= Len(pending) + 1
      <4>1. /\ \A x \in AReport : x \in AReport \union {r}
            /\ pending \in Seq(AReport \union {r}) /\ r \in AReport \union {r}
        BY <1>2
      <4> QED
        BY <3>2, <4>1, QueuedLength
    <3> QED
      BY <2>4, <3>1, <3>2
  <2>6. Ahead' = Ahead
    BY <2>1, AheadSame
  <2> QED
    BY <1>1, <1>2, <1>3, <2>3, <2>5, <2>6
<1>10. CASE OnTimer
  BY <1>2, <1>4, <1>10 DEF OnTimer
<1>11. CASE OnDeinit \/ OnInit
  BY <1>1, <1>11 DEF OnDeinit, OnInit
<1>12. CASE \E o \in Outcomes : Send(o)
  <2>1. UNCHANGED broker /\ events' = events /\ pending # <<>> /\ pending' = Tail(pending)
    BY <1>12 DEF Send
  <2>2. Len(pending') = Len(pending) - 1
    BY <1>2, <2>1, AtTail
  <2> QED
    BY <1>2, <1>4, <2>1, <2>2
<1>13. CASE Flushed
  <2>1. pending = <<>> /\ pending' = kept /\ events' = events /\ UNCHANGED broker
    BY <1>1, <1>13 DEF Flushed
  <2>2. pending' = pending
    BY <1>1, <2>1
  <2> QED
    BY <1>2, <1>4, <2>1, <2>2
<1>14. CASE \E o \in Outcomes \ {"refused", "timeout"} : ReportPositions(o)
  BY <1>2, <1>4, <1>14 DEF ReportPositions
<1>15. CASE \E m \in wire : LateRequest(m)
  BY <1>1, <1>15
<1>16. CASE Poll
  <2>1. ASSUME NEW t \in Tickets, DoOpen(t)
        PROVE  Len(pending') + Len(events') + Ahead' <= Plenty
    <3>1. Ahead' + 1 <= Ahead /\ events' = events /\ pending' = Queued(pending, Opening(t))
      BY <2>1, StageFits DEF DoOpen
    <3>2. Opening(t) \in AReport
      BY ReportShape DEF TypeInv
    <3>3. Len(pending') <= Len(pending) + 1
      BY <1>2, <3>1, <3>2, QueuedLength
    <3>4. Len(pending') + Ahead' <= Len(pending) + Ahead
      BY <1>2, <1>3, <3>1, <3>3, OneMoreOneLess
    <3>5. Len(events') = Len(events)
      BY <3>1
    <3> QED
      BY <1>1, <1>2, <1>3, <3>4, <3>5
  <2>2. ASSUME NEW t \in Tickets, DoOpenPending(t)
        PROVE  Len(pending') + Len(events') + Ahead' <= Plenty
    <3>1. Ahead' <= Ahead /\ events' = events /\ pending' = pending
      BY <2>2, StageFits DEF DoOpenPending
    <3> QED
      BY <1>2, <1>3, <1>5, <3>1
  <2>3. ASSUME NEW c \in asked, DoClose(c)
        PROVE  Len(pending') + Len(events') + Ahead' <= Plenty
    <3>1. c.ticket \in Tickets /\ pending' = pending
      BY <2>3 DEF TypeInv, OtherInv, Closes, DoClose
    <3>2. CASE UNCHANGED <<broker, events, taken>>
      BY <1>2, <1>4, <2>3, <3>1, <3>2 DEF DoClose
    <3>3. CASE Executed(c)
      <4> DEFINE n == IF c.reason = "time_exit" \/ Rung > lots[c.ticket]
                      THEN lots[c.ticket] ELSE Rung
      <4>1. Deal(c.ticket, n, "expert", TRUE)
        BY <3>3 DEF Executed
      <4> HIDE DEF n
      <4> QED
        BY <1>5, <3>1, <4>1, DealFits DEF Whys
    <3> QED
      BY <2>3, <3>2, <3>3 DEF DoClose
  <2>4. CASE PollOver
    BY <1>2, <1>4, <2>4 DEF PollOver
  <2> QED
    BY <1>16, <2>1, <2>2, <2>3, <2>4 DEF Poll
<1>17. CASE Crash
  BY <1>1, <1>17 DEF Crash
<1>18. CASE UNCHANGED vars
  BY <1>2, <1>4, <1>18 DEF vars, terminal
<1> QED
  BY <1>7, <1>8, <1>9, <1>10, <1>11, <1>12, <1>13, <1>14, <1>15, <1>16, <1>17, <1>18 DEF Next

\* So a buffer that large has room whenever something is to be reported.
LEMMA FitsBuffer ==
    ASSUME TypeInv, FitInv, MaxPending >= Plenty
    PROVE  Clean => RoomToReport
<1> SUFFICES ASSUME Clean PROVE RoomToReport
  OBVIOUS
<1>1. /\ Len(pending) + Len(events) + Ahead <= Plenty
      /\ Len(pending) \in Nat /\ Len(events) \in Nat /\ Ahead \in Nat /\ Plenty \in Nat
      /\ MaxPending \in Nat
  BY CapacityTyped, LenProperties, ReportingAssumption
     DEF FitInv, TypeInv, BrokerInv, BufferInv, EventInv
<1>2. CASE events # <<>>
  <2>1. Len(events) # 0
    BY <1>2, EmptySeq DEF TypeInv, EventInv
  <2> QED
    BY <1>1, <2>1 DEF RoomToReport
<1>3. ASSUME NEW t \in Tickets, stage[t] = "wanted" PROVE RoomToReport
  <2> DEFINE cap == Capacity
  <2>1. cap[t] \in Nat \ {0} /\ \A u \in Tickets : cap[u] \in Nat
    <3>1. cap[t] = Volume + 1 /\ Volume \in Nat
      BY <1>3, ReportingAssumption DEF Capacity
    <3>2. \A u \in Tickets : cap[u] \in Nat
      BY CapacityTyped DEF TypeInv
    <3> QED
      BY <3>1, <3>2
  <2>2. Ahead = SumOver(cap, Tickets)
    BY DEF Ahead
  <2> HIDE DEF cap
  <2>3. SumOver(cap, Tickets) = cap[t] + SumOver(cap, Tickets \ {t})
    BY <2>1, SumOverWithout, TicketsAssumption
  <2>4. SumOver(cap, Tickets \ {t}) \in Nat
    <3>1. IsFiniteSet(Tickets \ {t}) /\ \A u \in Tickets \ {t} : cap[u] \in Nat
      BY <2>1, FS_Subset, TicketsAssumption
    <3> QED
      BY <3>1, SumOverNat
  <2>5. Ahead >= 1
    BY <2>1, <2>2, <2>3, <2>4
  <2> QED
    BY <1>1, <2>5 DEF RoomToReport
<1> QED
  BY <1>2, <1>3 DEF RoomToReport

\* A buffer of a report a lot and one an opening always has that room: the closing deals of
\* the account are then all reported, and FXS_MAX_PENDING drops nothing.
THEOREM FillsNoCloseLostInABigBuffer ==
    ASSUME MaxPending >= Cardinality(Tickets) * (Volume + 1)
    PROVE  Spec => []NoCloseLost
<1>1. Init => TypeInv /\ LostInv /\ FitInv
  BY TypeInit, LostInit, FitInit
<1>2. TypeInv /\ LostInv /\ FitInv /\ [Next]_vars => (TypeInv /\ LostInv /\ FitInv)'
  <2>1. ASSUME TypeInv, FitInv PROVE Clean => RoomToReport
    BY <2>1, FitsBuffer DEF Plenty
  <2> QED
    BY <2>1, TypeStep, LostStep, FitStep
<1>3. Spec => [](TypeInv /\ LostInv /\ FitInv)
  BY <1>1, <1>2, PTL DEF Spec
<1> QED
  BY <1>3, LostImplied, PTL
=============================================================================
