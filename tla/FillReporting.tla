----------------------------- MODULE FillReporting -----------------------------
(***************************************************************************)
(* How what happens at the broker reaches the dashboard's book: the        *)
(* terminal's side of POST /fills and POST /positions, composed with       *)
(* TradeBook for the server's side and with a broker that acts on its own. *)
(*                                                                         *)
(* The EA runs one handler at a time.  A handler that talks to the         *)
(* dashboard is split at its requests, since the broker does not wait for  *)
(* them; trade events raised meanwhile queue up and are handled between    *)
(* handlers.  A request may not get through, be answered with a 4xx and    *)
(* so be given up, time out after the server has done it, or be done by    *)
(* the server later than the terminal waits.  OnInit replays history,      *)
(* flushes and sends a snapshot; OnTimer flushes, sends a snapshot when    *)
(* one is due, and polls for commands; OnDeinit flushes a last time.       *)
(*                                                                         *)
(* TradeManager's part is reduced to which closes it asks for.  The        *)
(* command queue between them is CommandQueue; here every command asked    *)
(* for is handed over at most once at a time.  Left out: the 3-day window  *)
(* of the replay, the bound on remembered closes and resting orders, and   *)
(* an order that fills in several deals.                                   *)
(***************************************************************************)
EXTENDS TradeBook, Sequences

CONSTANTS
    Resting,      \* tickets of positions that begin as an order at a level
    Volume,       \* lots a position is opened with
    Rung,         \* lots one rung of the ladder closes
    Ladder,       \* tickets whose strategy set a third target
    Exits,        \* what TradeManager may ask for: "tp1", "tp2", "time_exit"
    MaxPending,   \* FXS_MAX_PENDING
    Outcomes,     \* what may become of a request
    MaxFaults,    \* bound: requests that go wrong
    MaxCrashes,   \* bound: terminal deaths
    MaxDetaches,  \* bound: orderly detaches
    ByHand        \* TRUE: somebody may close lots by hand in the terminal

ASSUME ReportingAssumption ==
    /\ Resting \subseteq Tickets /\ Ladder \subseteq Tickets
    /\ Volume \in Nat \ {0} /\ Rung \in 1..Volume
    /\ Exits \subseteq {"tp1", "tp2", "time_exit"}
    /\ MaxPending \in Nat \ {0}
    /\ Outcomes \subseteq {"answered", "refused", "unsent", "timeout", "late"}
    /\ MaxFaults \in Nat /\ MaxCrashes \in Nat /\ MaxDetaches \in Nat
    /\ ByHand \in BOOLEAN

\* A deal closes a lot at least: there are numbers for all the deals there can be.
ASSUME TicketsAssumption ==
    IsFiniteSet(Tickets) /\ 1..(Cardinality(Tickets) * Volume) \subseteq Deals

VARIABLES
    \* the broker
    stage,      \* [Tickets -> wanted, resting, unfilled or filled]
    lots,       \* [Tickets -> lots held]
    deals,      \* closing deals in order: ticket, lots, why, and whether it has our magic
    \* the terminal
    handler,    \* what the EA is in: off, idle, or a step of a handler
    events,     \* trade transactions not handled yet
    pending,    \* g_pending: reports to send
    kept,       \* reports this flush could not deliver
    sent,       \* the snapshot under way: [tickets held when it was taken -> lots]
    reasons,    \* g_close_ticket and g_close_reason: [Tickets -> reason, or none]
    placed,     \* g_resting_order: tickets of resting orders remembered
    \* the dashboard and the way to it
    asked,      \* closes asked for and not carried out yet
    taken,      \* closes carried out: their keys are done
    wire,       \* requests the terminal gave up on and the server has yet to do
    discarded,  \* history: tickets whose opening's report was given up on a 4xx
    faults, crashes, detaches

broker   == <<stage, lots, deals>>
terminal == <<handler, events, pending, kept, sent, reasons, placed>>
budget   == <<discarded, faults, crashes, detaches>>
vars     == <<book, broker, terminal, asked, taken, wire, budget>>

Handlers == {"off", "idle", "timer", "attach", "detach", "due", "attached", "poll"}
Closes   == [ticket : Tickets, reason : Exits]
Nothing  == [t \in {} |-> 0]

Opening(t) ==
    [event |-> "opened", ticket |-> t, origin |-> "bot", lots |-> Volume, final |-> t \in Ladder]

\* A deal's number is its place in the broker's history; its pips stand for its money too.
Closing(d, pips, reason, replay) ==
    [event |-> "closed", ticket |-> deals[d].ticket, deal |-> d, lots |-> deals[d].lots,
     pips |-> pips, reason |-> reason, replay |-> replay]

Init ==
    /\ BookInit
    /\ stage = [t \in Tickets |-> "wanted"] /\ lots = [t \in Tickets |-> 0] /\ deals = <<>>
    /\ handler = "idle" /\ events = <<>> /\ pending = <<>> /\ kept = <<>>
    /\ reasons = [t \in Tickets |-> "none"] /\ placed = {}
    /\ asked = {} /\ taken = {} /\ wire = {} /\ discarded = {} /\ sent = Nothing
    /\ faults = 0 /\ crashes = 0 /\ detaches = 0

-----------------------------------------------------------------------------
\* The broker.  What it does on its own raises an event, if the EA is there to get it.

Raised(kind, n) == IF handler = "off" THEN events ELSE Append(events, [kind |-> kind, of |-> n])

\* n lots of position t are closed; ours says whether the deal carries the EA's magic.
Deal(t, n, why, ours) ==
    /\ n \in 1..lots[t]
    /\ lots' = [lots EXCEPT ![t] = @ - n]
    /\ deals' = Append(deals, [ticket |-> t, lots |-> n, why |-> why, ours |-> ours])
    /\ events' = IF ours THEN Raised("out", Len(deals) + 1) ELSE events
    /\ UNCHANGED stage

\* The stop or the final target takes everything that is left.
BrokerClose(t, why) ==
    /\ lots[t] > 0
    /\ Deal(t, lots[t], why, TRUE)
    /\ UNCHANGED <<book, handler, pending, kept, sent, reasons, placed, asked, taken, wire, budget>>

\* Somebody closes one lot by hand: the deal has no magic number.
HandClose(t) ==
    /\ ByHand
    /\ Deal(t, 1, "hand", FALSE)
    /\ UNCHANGED <<book, handler, pending, kept, sent, reasons, placed, asked, taken, wire, budget>>

\* A resting order fills, or expires.
OrderFills(t) ==
    /\ stage[t] = "resting"
    /\ stage' = [stage EXCEPT ![t] = "filled"]
    /\ lots' = [lots EXCEPT ![t] = Volume]
    /\ events' = Raised("in", t)
    /\ UNCHANGED <<book, deals, handler, pending, kept, sent, reasons, placed, asked, taken, wire, budget>>

OrderExpires(t) ==
    /\ stage[t] = "resting"
    /\ stage' = [stage EXCEPT ![t] = "unfilled"]
    /\ events' = Raised("retired", t)
    /\ UNCHANGED <<book, lots, deals, handler, pending, kept, sent, reasons, placed, asked, taken, wire, budget>>

-----------------------------------------------------------------------------
\* TradeManager: a rung when it leaves something of the position, an exit for all of it.
\* Its key is used once: a close carried out is not asked for again.

Ask(t, reason) ==
    /\ reason \in Exits
    /\ trade[t].origin = "bot" /\ trade[t].status \in Live
    /\ [ticket |-> t, reason |-> reason] \notin asked \union taken
    /\ reason # "time_exit" => Rung < trade[t].remaining
    /\ reason = "tp2" => trade[t].final
    /\ asked' = asked \union {[ticket |-> t, reason |-> reason]}
    /\ UNCHANGED <<book, broker, terminal, taken, wire, budget>>

-----------------------------------------------------------------------------
\* OnTradeTransaction, between handlers

\* Mutant: the newest report goes out first.
QueuedFirst(buffer, r) == <<r>> \o IF Len(buffer) < MaxPending THEN buffer ELSE Tail(buffer)

\* Mutant: the buffer has no bound.
QueuedAlways(buffer, r) == Append(buffer, r)

\* FXSQueueReport: a full buffer drops its oldest report.
Queued(buffer, r) == Append(IF Len(buffer) < MaxPending THEN buffer ELSE Tail(buffer), r)

\* The reason reported for a deal: only a deal of the EA's own consults the store.
Reported(d) ==
    CASE deals[d].why = "sl" -> "sl"
      [] deals[d].why = "tp" -> "tp3"
      [] OTHER -> IF reasons[deals[d].ticket] # "none" THEN reasons[deals[d].ticket] ELSE "manual"

\* A closing deal: reported with its pips, the remembered reason consumed.
OnExitDeal(d) ==
    /\ pending' = Queued(pending, Closing(d, d, Reported(d), FALSE))
    /\ reasons' = IF deals[d].why = "expert" THEN [reasons EXCEPT ![deals[d].ticket] = "none"] ELSE reasons
    /\ UNCHANGED placed

\* FXSOnEntryDeal: the fill of a resting order that is remembered.
OnEntryDeal(t) ==
    /\ pending' = IF t \in placed THEN Queued(pending, Opening(t)) ELSE pending
    /\ placed' = placed \ {t}
    /\ UNCHANGED reasons

\* FXSOnOrderRetired: an order that left the book unfilled is forgotten.  The failed result
\* it queues for its command is Retire of CommandQueue.
OnOrderRetired(t) ==
    /\ placed' = placed \ {t}
    /\ UNCHANGED <<pending, reasons>>

OnTradeTransaction ==
    /\ handler = "idle" /\ events # <<>>
    /\ LET e == Head(events)
       IN  CASE e.kind = "out" -> OnExitDeal(e.of)
             [] e.kind = "in" -> OnEntryDeal(e.of)
             [] e.kind = "retired" -> OnOrderRetired(e.of)
    /\ events' = Tail(events)
    /\ UNCHANGED <<book, broker, handler, kept, sent, asked, taken, wire, budget>>

-----------------------------------------------------------------------------
\* The handlers that talk to the dashboard

OnTimer ==
    /\ handler = "idle" /\ handler' = "timer"
    /\ UNCHANGED <<book, broker, events, pending, kept, sent, reasons, placed, asked, taken, wire, budget>>

OnDeinit ==
    /\ handler = "idle" /\ handler' = "detach"
    /\ detaches < MaxDetaches /\ detaches' = detaches + 1
    /\ UNCHANGED <<book, broker, events, pending, kept, sent, reasons, placed, asked, taken, wire, discarded, faults, crashes>>

\* The reason a replay can tell: never a rung.
Broad(d) == CASE deals[d].why = "sl" -> "sl" [] deals[d].why = "tp" -> "tp3" [] OTHER -> "manual"

\* FXSReplayClosedDeals: every closing deal of ours in turn, with its pips or 0, queued like
\* any other report.
Replayed(priced) ==
    LET upTo[n \in 0..Len(deals)] ==
            IF n = 0 THEN <<>>
            ELSE IF deals[n].ours
            THEN Queued(upTo[n - 1], Closing(n, IF priced THEN n ELSE 0, Broad(n), TRUE))
            ELSE upTo[n - 1]
    IN  upTo[Len(deals)]

\* OnInit, with the memory of the last run gone.
OnInit ==
    /\ handler = "off" /\ handler' = "attach"
    /\ \E priced \in BOOLEAN : pending' = Replayed(priced)
    /\ UNCHANGED <<book, broker, events, kept, sent, reasons, placed, asked, taken, wire, budget>>

Flushing == handler \in {"timer", "attach", "detach"}

\* One request of FXSFlushReports: delivered (2xx, or the 404 that is given up on), refused
\* with another 4xx (the throttle's 429 for one) and given up with nothing recorded, or kept
\* and the next one tried: never left, done and unanswered, or done later.
Send(outcome) ==
    /\ Flushing /\ pending # <<>>
    /\ CASE outcome = "answered" -> /\ Record(Head(pending))
                                    /\ UNCHANGED <<kept, wire>>
         [] outcome = "refused"  -> /\ UNCHANGED <<book, kept, wire>>
         [] outcome = "unsent"   -> /\ kept' = Append(kept, Head(pending))
                                    /\ UNCHANGED <<book, wire>>
         [] outcome = "timeout"  -> /\ Record(Head(pending))
                                    /\ kept' = Append(kept, Head(pending))
                                    /\ UNCHANGED wire
         [] outcome = "late"     -> /\ kept' = Append(kept, Head(pending))
                                    /\ wire' = wire \union {Head(pending)}
                                    /\ UNCHANGED book
    /\ discarded' = IF outcome = "refused" /\ Head(pending).event = "opened"
                    THEN discarded \union {Head(pending).ticket} ELSE discarded
    /\ pending' = Tail(pending)
    /\ faults' = IF outcome = "answered" THEN faults ELSE faults + 1
    /\ faults' <= MaxFaults
    /\ UNCHANGED <<broker, handler, events, sent, reasons, placed, asked, taken, crashes, detaches>>

Held == {t \in Tickets : lots[t] > 0}
Snapshot == [t \in Held |-> lots[t]]

\* The terminal stops: its memory is gone.
Forgotten ==
    /\ pending' = <<>> /\ kept' = <<>> /\ events' = <<>> /\ sent' = Nothing
    /\ reasons' = [t \in Tickets |-> "none"] /\ placed' = {}

\* The flush is over: what it kept is what is pending.  A snapshot that is due, or the one
\* of OnInit, is taken and sent.  A detached EA keeps nothing.
Flushed ==
    /\ Flushing /\ pending = <<>>
    /\ \/ /\ handler = "timer" /\ handler' = "poll" /\ sent' = Nothing
          /\ pending' = kept /\ kept' = <<>> /\ UNCHANGED <<events, reasons, placed>>
       \/ /\ handler' = (IF handler = "timer" THEN "due" ELSE "attached")
          /\ handler # "detach" /\ sent' = Snapshot
          /\ pending' = kept /\ kept' = <<>> /\ UNCHANGED <<events, reasons, placed>>
       \/ /\ handler = "detach" /\ handler' = "off" /\ Forgotten
    /\ UNCHANGED <<book, broker, asked, taken, wire, budget>>

\* What becomes of the snapshot under way; any 4xx is as good as "unsent".  The broker has
\* gone on meanwhile.  OnTimer goes on to poll.
ReportPositions(outcome) ==
    /\ handler \in {"due", "attached"}
    /\ handler' = IF handler = "due" THEN "poll" ELSE "idle"
    /\ CASE outcome = "answered" -> Reconcile(sent) /\ UNCHANGED wire
         [] outcome = "unsent"   -> UNCHANGED <<book, wire>>
         [] outcome = "late"     -> /\ wire' = wire \union {[event |-> "snapshot", held |-> sent]}
                                    /\ UNCHANGED book
    /\ sent' = Nothing
    /\ faults' = IF outcome = "answered" THEN faults ELSE faults + 1
    /\ faults' <= MaxFaults
    /\ UNCHANGED <<broker, events, pending, kept, reasons, placed, asked, taken,
                   discarded, crashes, detaches>>

\* The server gets to a request whose sender has given up.
LateRequest(m) ==
    /\ m \in wire
    /\ IF m.event = "snapshot" THEN Reconcile(m.held) ELSE Record(m)
    /\ wire' = wire \ {m}
    /\ UNCHANGED <<broker, terminal, asked, taken, budget>>

-----------------------------------------------------------------------------
\* FXSPollCommands: the commands of one batch, one after the other

\* A market order fills at once and is reported with its command's id.
DoOpen(t) ==
    /\ handler = "poll" /\ stage[t] = "wanted" /\ t \notin Resting
    /\ stage' = [stage EXCEPT ![t] = "filled"]
    /\ lots' = [lots EXCEPT ![t] = Volume]
    /\ pending' = Queued(pending, Opening(t))
    /\ UNCHANGED <<book, deals, handler, events, kept, sent, reasons, placed, asked, taken, wire, budget>>

DoOpenPending(t) ==
    /\ handler = "poll" /\ stage[t] = "wanted" /\ t \in Resting
    /\ stage' = [stage EXCEPT ![t] = "resting"]
    /\ placed' = placed \union {t}
    /\ UNCHANGED <<book, lots, deals, handler, events, pending, kept, sent, reasons, asked, taken, wire, budget>>

\* The close goes through: a rung's lots, or all there are.
Executed(c) ==
    /\ lots[c.ticket] # 0
    /\ reasons' = [reasons EXCEPT ![c.ticket] = c.reason]
    /\ LET n == IF c.reason = "time_exit" \/ Rung > lots[c.ticket] THEN lots[c.ticket] ELSE Rung
       IN  Deal(c.ticket, n, "expert", TRUE)
    /\ taken' = taken \union {c}

\* Mutant: a close that closed nothing leaves its reason behind.
DoCloseLeaving(c) ==
    /\ handler = "poll" /\ c \in asked
    /\ asked' = asked \ {c}
    /\ \/ Executed(c)
       \/ /\ reasons' = [reasons EXCEPT ![c.ticket] = c.reason]
          /\ UNCHANGED <<broker, events, taken>>
    /\ UNCHANGED <<book, handler, pending, kept, sent, placed, wire, budget>>

\* The reason is remembered before the close; if the position is gone, or the broker will
\* not close it, it is dropped again and the command fails, to be asked for anew while the
\* book still shows the trade.
DoClose(c) ==
    /\ handler = "poll" /\ c \in asked
    /\ asked' = asked \ {c}
    /\ \/ Executed(c)
       \/ /\ reasons' = [reasons EXCEPT ![c.ticket] = "none"]
          /\ UNCHANGED <<broker, events, taken>>
    /\ UNCHANGED <<book, handler, pending, kept, sent, placed, wire, budget>>

PollOver ==
    /\ handler = "poll" /\ handler' = "idle"
    /\ UNCHANGED <<book, broker, events, pending, kept, sent, reasons, placed, asked, taken, wire, budget>>

\* The terminal dies, wherever it is.
Crash ==
    /\ handler # "off" /\ handler' = "off"
    /\ crashes < MaxCrashes /\ crashes' = crashes + 1
    /\ Forgotten
    /\ UNCHANGED <<book, broker, asked, taken, wire, discarded, faults, detaches>>

-----------------------------------------------------------------------------
BrokerActs ==
    \E t \in Tickets : BrokerClose(t, "sl") \/ BrokerClose(t, "tp") \/ HandClose(t)
                       \/ OrderFills(t) \/ OrderExpires(t)

Poll ==
    \/ \E t \in Tickets : DoOpen(t) \/ DoOpenPending(t)
    \/ \E c \in asked : DoClose(c)
    \/ PollOver

Next ==
    \/ BrokerActs
    \/ \E t \in Tickets, r \in Exits : Ask(t, r)
    \/ OnTradeTransaction \/ OnTimer \/ OnDeinit \/ OnInit
    \/ \E o \in Outcomes : Send(o)
    \/ Flushed
    \/ \E o \in Outcomes \ {"refused", "timeout"} : ReportPositions(o)
    \/ \E m \in wire : LateRequest(m)
    \/ Poll
    \/ Crash

Spec == Init /\ [][Next]_vars

\* MT5 delivers timer and trade events in turn, a batch of commands is finite, a snapshot
\* is due again and again, a terminal that is off is started again, and the server gets
\* to every request it has received.  The broker owes nothing.
Fairness ==
    /\ SF_vars(OnTradeTransaction) /\ SF_vars(OnTimer) /\ WF_vars(OnInit)
    /\ WF_vars(\E o \in Outcomes : Send(o))
    /\ WF_vars(Flushed) /\ SF_vars(Flushed /\ handler' = "due")
    /\ WF_vars(\E o \in Outcomes \ {"refused", "timeout"} : ReportPositions(o))
    /\ SF_vars(PollOver)
    /\ WF_vars(\E m \in wire : LateRequest(m))

FairSpec == Spec /\ Fairness
-----------------------------------------------------------------------------
(* Properties *)

\* The reports there are to make: openings of what has filled, closings of our own deals.
Reports == UNION {{Opening(t) : t \in {u \in Tickets : stage[u] = "filled"}},
                  {Closing(d, p, w, a) : d \in {c \in DOMAIN deals : deals[c].ours},
                                         p \in 0..Len(deals), w \in CloseReasons, a \in BOOLEAN}}

TypeOK ==
    /\ BookTypeOK
    /\ stage \in [Tickets -> {"wanted", "resting", "unfilled", "filled"}]
    /\ lots \in [Tickets -> 0..Volume]
    /\ handler \in Handlers
    /\ Range(pending) \union Range(kept) \subseteq Reports
    /\ Len(pending) + Len(kept) <= MaxPending
    /\ DOMAIN sent \subseteq Tickets /\ \A t \in DOMAIN sent : sent[t] \in 1..Volume
    /\ reasons \in [Tickets -> Exits \union {"none"}]
    /\ placed \subseteq Resting /\ discarded \subseteq Tickets
    /\ asked \subseteq Closes /\ taken \subseteq Closes /\ asked \cap taken = {}

Shown(t) == trade[t].status \in Live

\* A position the book knows and the broker holds is never shown as closed, nor with fewer
\* lots than are held, through refused and repeated reports, crashes and detaches.  Needs a
\* server that has finished with a request when the terminal gives it up.
HeldIsShown ==
    \A t \in Tickets :
        lots[t] > 0 /\ trade[t].status # "absent" => Shown(t) /\ trade[t].remaining >= lots[t]

\* Once all the lots of a trade have been reported, its money is that of the deals and not
\* the terminal's last floating figure, whichever of the reports and a snapshot came first.
FiguresSettle ==
    \A t \in Tickets :
        trade[t].initial > 0 /\ LotsOf(partial, t) >= trade[t].initial => trade[t].money = "sum"

\* A snapshot that is answered leaves the book in agreement with what the terminal held
\* when it took it, row by row and lot by lot, whatever had been missed before: "the next one
\* states the truth outright".
SnapshotSettles ==
    [][(handler \in {"due", "attached"} /\ handler' \in {"poll", "idle"} /\ faults' = faults)
          => \A t \in Tickets : /\ (trade'[t].status \in Live) <=> (t \in DOMAIN sent)
                                /\ t \in DOMAIN sent => sent[t] = trade'[t].remaining]_vars

\* The report of deal d is in the book, or still to be handled or sent.
Remembered(d) ==
    \/ d \in DOMAIN partial
    \/ \E e \in Range(events) : e.kind = "out" /\ e.of = d
    \/ \E r \in Range(pending) \union Range(kept) \union wire : r.event = "closed" /\ r.deal = d

\* As long as no request has gone wrong and the terminal has kept its memory, no deal it saw
\* is forgotten on the way to the book.
NoCloseLost ==
    faults = 0 /\ crashes = 0 /\ detaches = 0 =>
        \A d \in DOMAIN deals : deals[d].ours => Remembered(d)

\* A remembered reason belongs to a close whose deal is still to be handled, so that it is never
\* attached to whatever closes the position next.  Of two closes in one batch the first deal
\* takes the second one's.
ReasonsAreSpent ==
    \A t \in Tickets : reasons[t] # "none" =>
        \E e \in Range(events) :
            e.kind = "out" /\ deals[e.of].ticket = t /\ deals[e.of].why = "expert"

\* Whatever is lost, a trade whose position is gone does not stay live in the book.
BookSettles == \A t \in Tickets : (lots[t] = 0 /\ Shown(t)) ~> ~Shown(t)

\* The row of a position opened by a command comes to be the bot's, even when a snapshot
\* adopted it before the report of its opening got through.  Needs a terminal that keeps
\* its memory and a report no 4xx has made it give up: after either the row stays adopted.
ComesToBeManaged ==
    \A t \in Tickets :
        lots[t] > 0 ~> \/ lots[t] = 0 \/ trade[t].origin = "bot"
                       \/ crashes + detaches > 0 \/ t \in discarded
=============================================================================
