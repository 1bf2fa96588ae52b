--------------------------------- MODULE Copier ---------------------------------
(***************************************************************************)
(* A copied signal from the message to the position: captured, parsed,     *)
(* perhaps edited by its provider or corrected by a reader, reviewed,      *)
(* executed, placed, and closed; and the fund every order is sized from.   *)
(*                                                                         *)
(* Passes of the scheduler and buttons of the copier page work on the same *)
(* rows.  Each reads a row, asks a model about the copy it holds, and      *)
(* writes to the row whatever has become of it: a worker's step runs from  *)
(* one call of the model to the next.  A pass reads all its rows first.    *)
(* Gates that look at the world (the kill switch, the session, the news,   *)
(* the age of the signal, an executor online) may object at any time; the  *)
(* fund's is modelled.  An executor reads the fund when it sizes an order  *)
(* and asks for the order later: no lock and no transaction joins the two. *)
(*                                                                         *)
(* Levels stand for all that is read out of a message: symbol, direction,  *)
(* entry, stop and targets.  The command queue's races are CommandQueue's  *)
(* and the book's are FillReporting's: here a command is a row under its   *)
(* signal's key, an opening is reported before its close, and one terminal *)
(* polls: the ten commands of a poll are all there are.  Left out:         *)
(* profits, partial closes, the closes an opposite signal asks for, chats  *)
(* that may not trade, and replies, but for the added entries they can ask *)
(* for.                                                                    *)
(***************************************************************************)
EXTENDS AiFund, FiniteSets, Functions

CONSTANTS
    Signals,     \* 1..n, in the order they are captured
    Own,         \* those nobody posted: the autonomous trader's and added entries
    Levels,      \* what can be read out of a message
    NoLevels,    \* it could not be read
    Trusting,    \* TRUE: copier_review is "gates", no model is asked
    AtLevel,     \* signals whose entry is not where the market is: their order rests
    Override,    \* [Signals -> the channel's own risk_percentage, or 0]
    Also,        \* who works on signals besides telegram:review and telegram:execute
    Punctual,    \* TRUE: the terminal places what it took before it expires, and an
                 \* opening is on file before the next order is sized
    ByHand,      \* TRUE: positions are also closed at a loss by hand or by a message
    MaxEdits,    \* bound: edits and corrections
    MaxLost,     \* bound: polls and results lost
    MaxOrders    \* bound: orders of one signal

ASSUME CopierAssumption ==
    /\ Signals = 1..Cardinality(Signals) /\ IsFiniteSet(Signals)
    /\ Own \subseteq Signals /\ AtLevel \subseteq Signals \ Own
    /\ NoLevels \notin Levels
    /\ Override \in [Signals -> 0..(100 \div MaxConcurrent)]
    /\ Also \subseteq {"reviewNow", "executeNow", "decide", "follow"}
    /\ Trusting \in BOOLEAN /\ Punctual \in BOOLEAN /\ ByHand \in BOOLEAN
    /\ MaxEdits \in Nat /\ MaxLost \in Nat /\ MaxOrders \in Nat \ {0}

VARIABLES
    signal,    \* [Signals -> row of telegram_signals]
    copies,    \* [Workers -> the rows it has read and has still to deal with]
    asking,    \* [Workers -> whether the model is being asked about the first of them]
    command,   \* [Signals -> row of trade_commands under "telegram:{id}"]
    taken,     \* the batch in hand: signals whose command the terminal has still to place
    order,     \* [Tickets -> order or position at the broker, and its row of trades]
    sized,     \* [Executors -> the stake of the first of its rows, until it is asked for, or 0]
    raced,     \* an order was sized while another one was still to be asked for
    edits, lost

\* telegram:review and a button; telegram:execute, a button, ai:decide, telegram:follow-up.
Reviewers == {"review"} \union (Also \intersect {"reviewNow"})
Executors == {"execute"} \union (Also \ {"reviewNow"})
Workers   == Reviewers \union Executors
Tickets   == Signals \X (1..MaxOrders)

rows  == <<signal, command>>
money == <<sized, raced>>
vars  == <<rows, copies, asking, taken, order, money, edits, lost>>

Reviews    == {"pending", "approved", "declined", "skipped"}
Executions == {"not_attempted", "queued", "executed", "blocked"}
Signal     == [levels : Levels \union {NoLevels}, review : Reviews, execution : Executions]
Absent     == [levels |-> NoLevels, review |-> "skipped", execution |-> "absent"]
Copy       == [of : Signals, levels : Levels, review : Reviews]

Commands   == {"absent", "pending", "claimed", "done", "failed", "expired"}
Command    == [status : Commands, levels : Levels \union {NoLevels}, stake : 0..Cap]
NoCommand  == [status |-> "absent", levels |-> NoLevels, stake |-> 0]

\* pnl: what it was closed with; stop: TRUE if its stop took it.
Stages  == {"none", "resting", "unfilled", "held", "gone"}
Order   == [stage : Stages, levels : Levels \union {NoLevels}, stake : 0..Cap, pnl : Int,
            stop : BOOLEAN, row : {"absent", "open", "stopped_out", "fully_closed"}]
NoOrder == [stage |-> "none", levels |-> NoLevels, stake |-> 0, pnl |-> 0, stop |-> FALSE,
            row |-> "absent"]

TypeOK ==
    /\ signal \in [Signals -> Signal \union {Absent}]
    /\ copies \in [Workers -> SUBSET Copy]
    /\ asking \in [Workers -> BOOLEAN]
    /\ command \in [Signals -> Command]
    /\ taken \subseteq Signals
    /\ order \in [Tickets -> Order]
    /\ sized \in [Executors -> 0..Cap] /\ raced \in BOOLEAN
    /\ edits \in Nat /\ lost \in Nat

Init ==
    /\ signal = [s \in Signals |-> Absent]
    /\ copies = [w \in Workers |-> {}] /\ asking = [w \in Workers |-> FALSE]
    /\ command = [s \in Signals |-> NoCommand]
    /\ taken = {}
    /\ order = [t \in Tickets |-> NoOrder]
    /\ sized = [w \in Executors |-> 0] /\ raced = FALSE
    /\ edits = 0 /\ lost = 0

-----------------------------------------------------------------------------
\* The fund, as its tables show it

Sum(amount, S) == SumFunction([x \in S |-> amount[x]])
Stakes == [t \in Tickets |-> order[t].stake]
Pnls   == [t \in Tickets |-> order[t].pnl]

\* 'closed' and 'stopped_out' are asked for, and no trade is ever 'closed'.
Realised == Sum(Pnls, {t \in Tickets : order[t].row = "stopped_out"})
Booked   == {t \in Tickets : order[t].row = "open"}
InFlight == {s \in Signals : command[s].status \in {"pending", "claimed"}}

Left == Remaining(Realised, Sum(Stakes, Booked), Cardinality(InFlight))

FundAllows ==
    CanOpen(Realised, Sum(Stakes, Booked), Cardinality(InFlight), Cardinality(Booked))

\* size(): the channel's share, or the account's.
Stake(s) == Risk(Left, IF Override[s] > 0 THEN Override[s] ELSE Percent)

-----------------------------------------------------------------------------
\* SignalIngest and the page's correction form

IsNext(s) == signal[s] = Absent /\ \A r \in Signals : r < s => signal[r] # Absent

\* As a message is parsed: to be reviewed, or never.
Parsed(row, levels) ==
    [row EXCEPT !.levels = levels, !.review = IF levels = NoLevels THEN "skipped" ELSE "pending"]

Capture(s, levels) ==
    /\ s \notin Own /\ IsNext(s)
    /\ signal' = [signal EXCEPT ![s] = Parsed([@ EXCEPT !.execution = "not_attempted"], levels)]
    /\ UNCHANGED <<command, copies, asking, taken, order, money, edits, lost>>

\* editOf: new words for a signal nothing was done about start it over, whatever levels are
\* read in them; once it is queued or blocked, the parsed columns are left alone.
Edit(s, levels) ==
    /\ s \notin Own /\ signal[s].execution = "not_attempted"
    /\ edits < MaxEdits /\ edits' = edits + 1
    /\ signal' = [signal EXCEPT ![s] = Parsed(@, levels)]
    /\ UNCHANGED <<command, copies, asking, taken, order, money, lost>>

\* saveCorrection: only what never parsed and was never acted on.
Correct(s, levels) ==
    /\ s \notin Own /\ signal[s].execution = "not_attempted" /\ signal[s].levels = NoLevels
    /\ edits < MaxEdits /\ edits' = edits + 1
    /\ levels # NoLevels
    /\ signal' = [signal EXCEPT ![s] = Parsed(@, levels)]
    /\ UNCHANGED <<command, copies, asking, taken, order, money, lost>>

-----------------------------------------------------------------------------
\* What the workers read

Readable(s)   == signal[s].levels # NoLevels
Actionable(s) ==
    Readable(s) /\ signal[s].review = "approved" /\ signal[s].execution = "not_attempted"

CopyOf(s) == [of |-> s, levels |-> signal[s].levels, review |-> signal[s].review]

Idle(w) == copies[w] = {}

Reads(w, S) ==
    /\ Idle(w) /\ S # {}
    /\ copies' = [copies EXCEPT ![w] = {CopyOf(s) : s \in S}]
    /\ UNCHANGED <<rows, asking, taken, order, money, edits, lost>>

\* telegram:review and telegram:execute, every minute and never twice at once.
ReviewPass  == Reads("review", {s \in Signals : Readable(s) /\ signal[s].review = "pending"})
ExecutePass == Reads("execute", {s \in Signals : Actionable(s)})

\* The buttons: reviewNow for any signal that parsed, executeNow for an actionable one.
Press(w, s) ==
    /\ w \in Also \intersect {"reviewNow", "executeNow"}
    /\ IF w = "reviewNow" THEN Readable(s) ELSE Actionable(s)
    /\ Reads(w, {s})

\* A pass deals with its rows in the order of their ids.
First(w) == CHOOSE c \in copies[w] : \A d \in copies[w] : c.of <= d.of

Dealt(w) ==
    /\ copies' = [copies EXCEPT ![w] = @ \ {First(w)}]
    /\ asking' = [asking EXCEPT ![w] = FALSE]

-----------------------------------------------------------------------------
\* SignalReviewer::review

GatesAlone(s) == Trusting \/ s \in Own

\* The gates have nothing against it: the model is asked.
AskModel(w) ==
    /\ ~Idle(w) /\ ~asking[w]
    /\ ~GatesAlone(First(w).of) /\ FundAllows
    /\ asking' = [asking EXCEPT ![w] = TRUE]
    /\ UNCHANGED <<rows, copies, taken, order, money, edits, lost>>

\* Approval is the model's, or the gates' where they are all that is asked.
MayApprove(w) == asking[w] \/ (GatesAlone(First(w).of) /\ FundAllows)

\* The verdict is written to the row as it is now; a verdict the copy already had is no
\* change and is not written.
Review(w, verdict) ==
    /\ w \in Reviewers /\ ~Idle(w)
    /\ verdict = "approved" => MayApprove(w)
    /\ LET c == First(w)
       IN  signal' = IF verdict = c.review THEN signal
                     ELSE [signal EXCEPT ![c.of].review = verdict]
    /\ Dealt(w)
    /\ UNCHANGED <<command, taken, order, money, edits, lost>>

-----------------------------------------------------------------------------
\* SignalExecutor::execute

Asked(c, stake) == [status |-> "pending", levels |-> c.levels, stake |-> stake]

\* Mutant: any row but a live one is re-armed.
EnqueuedAgain(c, stake) ==
    IF command[c.of].status \in {"pending", "claimed"} THEN {command[c.of]}
    ELSE {Asked(c, stake)}

\* enqueue() under the signal's key: what the row may be afterwards.  A failed one may
\* still be resting.
Enqueued(c, stake) ==
    CASE command[c.of].status \in {"absent", "expired"} -> {Asked(c, stake)}
      [] command[c.of].status = "failed" -> {Asked(c, stake), command[c.of]}
      [] OTHER -> {command[c.of]}

Unreported == {t \in Tickets : order[t].stage \in {"held", "gone"} /\ order[t].row = "absent"}

\* Reviewed once more, and sized from what the books leave.
Size(w) ==
    /\ w \in Executors /\ ~Idle(w) /\ sized[w] = 0 /\ MayApprove(w)
    /\ Punctual => Unreported = {}
    /\ Stake(First(w).of) > 0
    /\ sized' = [sized EXCEPT ![w] = Stake(First(w).of)]
    /\ raced' = (raced \/ \E v \in Executors : sized[v] > 0)
    /\ UNCHANGED <<rows, copies, asking, taken, order, edits, lost>>

\* Done with the first of its rows, and with the stake it had for it.
Ends(w) == Dealt(w) /\ sized' = [sized EXCEPT ![w] = 0]

\* Asked for, and the row marked, whatever books and row say by now: others size and ask in
\* between, in processes of their own.
Execute(w) ==
    /\ w \in Executors /\ ~Idle(w) /\ sized[w] > 0
    /\ LET c == First(w)
       IN  /\ \E asked \in Enqueued(c, sized[w]) : command' = [command EXCEPT ![c.of] = asked]
           /\ signal' = [signal EXCEPT ![c.of].execution = "queued"]
    /\ Ends(w)
    /\ UNCHANGED <<taken, order, raced, edits, lost>>

\* Mutants: the refusal is returned and not saved; it is saved as a review would be.
BlockUnsaved(w) ==
    /\ w \in Executors /\ ~Idle(w)
    /\ Ends(w)
    /\ UNCHANGED <<rows, taken, order, raced, edits, lost>>
BlockAsDeclined(w) ==
    /\ w \in Executors /\ ~Idle(w)
    /\ signal' = [signal EXCEPT ![First(w).of].execution = "declined"]
    /\ Ends(w)
    /\ UNCHANGED <<command, taken, order, raced, edits, lost>>

\* blocked(): a gate or the model objects, nobody is online, it cannot be sized, or what it
\* may win is not worth the risk.
Block(w) ==
    /\ w \in Executors /\ ~Idle(w)
    /\ signal' = [signal EXCEPT ![First(w).of].execution = "blocked"]
    /\ Ends(w)
    /\ UNCHANGED <<command, taken, order, raced, edits, lost>>

\* A signal is stored approved, and whoever stored it executes it next; telegram:execute
\* may see it first.
Originate(w, s, levels) ==
    /\ w \in Also /\ Idle(w) /\ s \in Own /\ IsNext(s)
    /\ signal' = [signal EXCEPT ![s] =
           [levels |-> levels, review |-> "approved", execution |-> "not_attempted"]]
    /\ copies' = [copies EXCEPT ![w] = {[of |-> s, levels |-> levels, review |-> "approved"]}]
    /\ UNCHANGED <<command, asking, taken, order, money, edits, lost>>

\* ai:decide: the autonomous trader's own levels.
Decide(s) == \E levels \in Levels : Originate("decide", s, levels)

\* FollowUpExecutor::layer: a further entry, with the levels its parent shows.
AddEntry(s, parent) ==
    /\ Readable(parent)
    /\ \E n \in 1..MaxOrders : order[<<parent, n>>].row = "open"
    /\ Originate("follow", s, signal[parent].levels)

-----------------------------------------------------------------------------
\* The terminal, the broker and the book

Status(s, status) == command' = [command EXCEPT ![s].status = status]

Loses == lost < MaxLost /\ lost' = lost + 1

\* The terminal works a batch off in one handler; it polls, and reports what happened at the
\* broker, between two of them.
BetweenBatches == taken = {}

Pending == {s \in Signals : command[s].status = "pending"}

\* A poll, between two batches: it claims whatever is pending.  Its answer may be lost.
Poll ==
    /\ BetweenBatches /\ Pending # {}
    /\ command' = [s \in Signals |-> IF s \in Pending THEN [command[s] EXCEPT !.status = "claimed"]
                                     ELSE command[s]]
    /\ \/ taken' = Pending /\ UNCHANGED lost
       \/ Loses /\ UNCHANGED taken
    /\ UNCHANGED <<signal, copies, asking, order, money, edits>>

\* The order of a command in hand is placed; the result may be lost.
Place(s) ==
    /\ s \in taken /\ taken' = taken \ {s}
    /\ \E n \in 1..MaxOrders :
          /\ order[<<s, n>>].stage = "none" /\ (n > 1 => order[<<s, n - 1>>].stage # "none")
          /\ order' = [order EXCEPT ![<<s, n>>] =
                 [NoOrder EXCEPT !.stage = IF s \in AtLevel THEN "resting" ELSE "held",
                                 !.levels = command[s].levels, !.stake = command[s].stake]]
    /\ \/ Status(s, "done") /\ UNCHANGED lost
       \/ Loses /\ UNCHANGED command
    /\ UNCHANGED <<signal, copies, asking, money, edits>>

\* The broker refuses it.
Refuse(s) ==
    /\ s \in taken /\ taken' = taken \ {s}
    /\ Status(s, "failed")
    /\ UNCHANGED <<signal, copies, asking, order, money, edits, lost>>

\* 120 seconds are over, and the sweep has been.
Expire(s) ==
    /\ command[s].status \in {"pending", "claimed"} /\ (Punctual => s \notin taken)
    /\ Status(s, "expired")
    /\ UNCHANGED <<signal, copies, asking, taken, order, money, edits, lost>>

At(t, stage) == order[t].stage = stage

Fill(t) ==
    /\ At(t, "resting") /\ order' = [order EXCEPT ![t].stage = "held"]
    /\ UNCHANGED <<rows, copies, asking, taken, money, edits, lost>>

\* A resting order goes unfilled, and its command is reported again, as failed.
Retire(t) ==
    /\ At(t, "resting") /\ order' = [order EXCEPT ![t].stage = "unfilled"]
    /\ Status(t[1], "failed")
    /\ UNCHANGED <<signal, copies, asking, taken, money, edits, lost>>

\* recordOpen: the trade is on file, and its signal has been executed.
RecordOpen(t) ==
    /\ t \in Unreported /\ BetweenBatches
    /\ order' = [order EXCEPT ![t].row = "open"]
    /\ signal' = [signal EXCEPT ![t[1]].execution = "executed"]
    /\ UNCHANGED <<command, copies, asking, taken, money, edits, lost>>

\* The position is closed by its stop, which may have been moved to the entry, or otherwise.
Close(t, stop, pnl) ==
    /\ At(t, "held")
    /\ pnl \in {0} \union (IF stop \/ ByHand THEN {-order[t].stake} ELSE {})
    /\ order' = [order EXCEPT ![t].stage = "gone", ![t].stop = stop, ![t].pnl = pnl]
    /\ UNCHANGED <<rows, copies, asking, taken, money, edits, lost>>

RecordClose(t) ==
    /\ At(t, "gone") /\ order[t].row = "open" /\ BetweenBatches
    /\ order' = [order EXCEPT ![t].row = IF order[t].stop THEN "stopped_out" ELSE "fully_closed"]
    /\ UNCHANGED <<rows, copies, asking, taken, money, edits, lost>>

-----------------------------------------------------------------------------
Works(w) ==
    \/ AskModel(w) \/ \E verdict \in {"approved", "declined"} : Review(w, verdict)
    \/ Size(w) \/ Execute(w) \/ Block(w)

Next ==
    \/ \E s \in Signals, l \in Levels \union {NoLevels} :
          Capture(s, l) \/ Edit(s, l) \/ Correct(s, l)
    \/ ReviewPass \/ ExecutePass
    \/ \E w \in Workers, s \in Signals : Press(w, s)
    \/ \E w \in Workers : Works(w)
    \/ \E s \in Signals : Decide(s) \/ \E p \in Signals : AddEntry(s, p)
    \/ Poll
    \/ \E s \in Signals : Place(s) \/ Refuse(s) \/ Expire(s)
    \/ \E t \in Tickets : Fill(t) \/ Retire(t) \/ RecordOpen(t) \/ RecordClose(t)
    \/ \E t \in Tickets, stop \in BOOLEAN : \E pnl \in {0, -order[t].stake} : Close(t, stop, pnl)

Spec == Init /\ [][Next]_vars

\* The scheduler runs both passes, and a call of the model ends.
Fairness ==
    /\ WF_vars(ReviewPass) /\ WF_vars(ExecutePass)
    /\ \A w \in Workers : WF_vars(Works(w))

FairSpec == Spec /\ Fairness
-----------------------------------------------------------------------------
(* Properties *)

\* "A retry, a double poll, or two workers racing produce one command and one position":
\* however passes and buttons overlap, a signal has one order that is not void.  Needs a
\* terminal whose answers get through.
OneOrder ==
    lost = 0 => \A s \in Signals : \A m, n \in 1..MaxOrders :
        {order[<<s, m>>].stage, order[<<s, n>>].stage} \subseteq {"resting", "held", "gone"}
            => m = n

\* What is in the terminal's hands or on the way to it, and what is held.
AtRisk ==
    Sum([s \in Signals |-> command[s].stake],
        {s \in Signals : command[s].status = "pending" \/ s \in taken})
      + Sum(Stakes, {t \in Tickets : order[t].stage \in {"resting", "held"}})

Lost == -Sum(Pnls, {t \in Tickets : order[t].stage = "gone"})

\* "A bounded loss": what has been lost and what can still be lost are within the cap.
LossBounded == Lost + AtRisk <= Cap

\* "Three positions cannot each be sized against the same untouched balance": the cap holds
\* unless two executors sized from one reading of the fund, which nothing in the code prevents.
\* Checked where only stops lose (a loss taken by hand is filed under a status the fund does
\* not sum, Realised), orders are at market (a resting one is charged nowhere), the terminal is
\* punctual, and no channel's share is larger than the account's, which is what an entry in
\* flight is charged.
CapHolds == ~raced => LossBounded

\* Every signal that could be read is decided upon: traded, blocked, or declined.
Decided ==
    \A s \in Signals :
        (Readable(s) /\ signal[s].execution = "not_attempted")
            ~> (~Readable(s) \/ signal[s].review = "declined" \/ signal[s].execution # "not_attempted")
=============================================================================
