---------------------------- MODULE SignalGeneration ----------------------------
(***************************************************************************)
(* From a closed bar to an order, for one strategy on one instrument of    *)
(* one account: the terminal pushes its bars (FXSMaintainSeries), the      *)
(* dashboard stores them and, inside the request or in a queued job,       *)
(* manages the open positions and looks for an entry (CandleController,    *)
(* EvaluateNewBars), and the terminal carries out what was queued.  A      *)
(* request outlives the terminal's patience, is sent again, and may be     *)
(* killed; trades:manage runs every minute beside it.                      *)
(*                                                                         *)
(* Of a bar, what matters is kept: which average is above at its close.    *)
(* Whether the higher timeframe agrees is a choice at each look at it, as  *)
(* its series moves too, and so are the objections, but for max_concurrent *)
(* _trades.  Of the queue: rows in the order they were made, one per key,  *)
(* spent exits re-armed (its races are CommandQueue's).  Left out: rungs,  *)
(* stop moves and time_exit, which TradeManager queues under keys of their *)
(* own in the same pass, and what else closes a position (FillReporting).  *)
(* The window a push re-sends is longer than the bars followed here, so a  *)
(* series has no gaps.  A lock that lapses lets a second job follow the    *)
(* first, which finds what the first has left.                             *)
(***************************************************************************)
EXTENDS Naturals, SequencesExt

CONSTANTS
    MaxBars,         \* bound: bars followed
    Seen,            \* how many of them are over and dealt with at the start
    Before,          \* which average was above before the first of them
    Modes,           \* what trading.queue_evaluation may be: a subset of BOOLEAN
    Requests,        \* bound: pushes under way at once
    Nobody,          \* no request
    MaxConcurrent,   \* max_concurrent_trades
    MaxFaults        \* bound: answers late or lost, orders refused, requests and jobs killed

Sides == {"buy", "sell"}

ASSUME SignalAssumption ==
    /\ MaxBars \in Nat /\ Seen \in 0..MaxBars /\ MaxConcurrent \in Nat
    /\ Before \in Sides
    /\ Modes \subseteq BOOLEAN /\ Modes # {}
    /\ Nobody \notin Requests /\ "worker" \notin Requests
    /\ MaxFaults \in Nat

VARIABLES
    \* the terminal: its closed bars, the newest one acknowledged, the request it waits for,
    \* the commands in its hands, and [bar -> the position that bar's entry opened]
    bars, pushed, awaiting, batch, position,
    \* the dashboard: the newest bar stored, [bar -> its signal], the trades on file, the
    \* commands; whether evaluation is queued, and whether a job is waiting or under way
    stored, signals, filed, rows, queued, job,
    pass,        \* where each request and the worker are
    evaluated,   \* the newest bar any of them has looked for an entry on
    faults,
    killed       \* a request or a job has been

terminal == <<bars, pushed, awaiting, batch, position>>
server   == <<stored, signals, filed, rows, queued, job>>
counts   == <<faults, killed>>
vars     == <<terminal, server, pass, evaluated, counts>>

Bars    == 1..MaxBars
Passes  == Requests \union {"worker"}
Newest  == Len(bars)

\* of: the bar whose entry it is, or whose position it closes; until: the bar in which an
\* entry lapses; sent: whether an answer to a poll has brought it to the terminal.
Row == [what : {"enter", "exit"}, of : Bars,
        status : {"pending", "claimed", "done", "failed", "expired"}, until : Nat,
        sent : {"never", "lost", "received"}]

\* fresh: the push carries a bar there was not; wanted: nothing objects to the entry.
Stages == {"idle", "reading", "storing", "managing", "evaluating", "writing", "answering"}
Pass   == [at : Stages, fresh : BOOLEAN, bar : 0..MaxBars, wanted : BOOLEAN]
Idle   == [at |-> "idle", fresh |-> FALSE, bar |-> 0, wanted |-> FALSE]

\* opened: the bar under way when the opening was reported.
Unfiled == [status |-> "none", opened |-> 0]

\* Of the bars seen the averages crossed on the first; its entry was carried out, and its
\* opening is reported, or still to be.
Turned     == IF Before = "buy" THEN "sell" ELSE "buy"
Carried(b) == Seen > 0 /\ b = 1
OnFile     == [status |-> "open", opened |-> 2]
EntryDone  == [what |-> "enter", of |-> 1, status |-> "done", until |-> 2, sent |-> "received"]

Init ==
    /\ bars = [b \in 1..Seen |-> Turned]
    /\ pushed = Seen /\ awaiting = Nobody /\ batch = {}
    /\ position = [b \in Bars |-> IF Carried(b) THEN "held" ELSE "none"]
    /\ stored = Seen /\ signals = [b \in Bars |-> IF Carried(b) THEN "accepted" ELSE "none"]
    /\ \E first \in {Unfiled, OnFile} :
          filed = [b \in Bars |-> IF Carried(b) THEN first ELSE Unfiled]
    /\ rows = (IF Seen > 0 THEN <<EntryDone>> ELSE <<>>)
    /\ queued \in Modes /\ job = FALSE
    /\ pass = [p \in Passes |-> Idle] /\ evaluated = Seen
    /\ faults = 0 /\ killed = FALSE

Fault == faults < MaxFaults /\ faults' = faults + 1

-----------------------------------------------------------------------------
\* The terminal pushes

\* A request takes less than a bar; a job may take longer.
BarCloses(side) ==
    /\ Newest < MaxBars /\ \A r \in Requests : pass[r].at = "idle"
    /\ bars' = Append(bars, side)
    /\ UNCHANGED <<pushed, awaiting, batch, position, server, pass, evaluated, counts>>

\* Mutant: iTime(..., 0), the bar that is still forming.
ClosedForming == Newest + 1

\* iTime(..., 1): the newest closed bar.
Closed == Newest

\* FXSMaintainSeries: the newest closed bar has changed since the last push that succeeded.
Push(r) ==
    /\ awaiting = Nobody /\ pushed # Closed /\ pass[r].at = "idle"
    /\ awaiting' = r
    /\ pass' = [pass EXCEPT ![r].at = "reading"]
    /\ UNCHANGED <<bars, pushed, batch, position, server, evaluated, counts>>

\* The cursor moves on only on success.
Answer(r) ==
    /\ pass[r].at = "answering"
    /\ pass' = [pass EXCEPT ![r] = Idle]
    /\ IF awaiting = r
       THEN /\ awaiting' = Nobody
            /\ \/ pushed' = Closed /\ UNCHANGED faults
               \/ Fault /\ UNCHANGED pushed
       ELSE UNCHANGED <<awaiting, pushed, faults>>
    /\ UNCHANGED <<bars, batch, position, server, evaluated, killed>>

\* HttpTimeoutMs: the terminal gives up waiting, and will push again.
TimeOut ==
    /\ awaiting # Nobody /\ awaiting' = Nobody
    /\ IF pass[awaiting].at = "idle" THEN UNCHANGED faults ELSE Fault
    /\ UNCHANGED <<bars, pushed, batch, position, server, pass, evaluated, killed>>

-----------------------------------------------------------------------------
\* CandleController::store

\* Mutant: what is new is read after the upsert.
IsFreshStored == Newest > Newest

\* Which of these bars we had not seen.
IsFresh == Newest > stored

ReadKnown(r) ==
    /\ pass[r].at = "reading"
    /\ pass' = [pass EXCEPT ![r].at = "storing", ![r].fresh = IsFresh]
    /\ UNCHANGED <<terminal, server, evaluated, counts>>

\* The upsert; new bars are evaluated here, or by a job: one at a time, as its lock has it.
Store(r) ==
    /\ pass[r].at = "storing"
    /\ stored' = Newest
    /\ LET inline == pass[r].fresh /\ ~queued
       IN  /\ pass' = [pass EXCEPT ![r].at = IF inline THEN "managing" ELSE "answering"]
           /\ job' = (job \/ (pass[r].fresh /\ queued))
    /\ UNCHANGED <<terminal, signals, filed, rows, queued, evaluated, counts>>

-----------------------------------------------------------------------------
\* What a pass does: positions first, then entries

\* crossDirection: the averages have changed places on this bar.
Crosses(b) == bars[b] # (IF b = 1 THEN Before ELSE bars[b - 1])

\* A trade on file with a bar that opened since, when the newest bar crosses against it.
Reversed(b) ==
    /\ filed[b].status = "open" /\ stored > filed[b].opened
    /\ Crosses(stored) /\ bars[stored] # bars[b]

\* Mutant: an exit is good for a bar, as an entry is.
ExitForABar(b) ==
    [what |-> "exit", of |-> b, status |-> "pending", until |-> Newest + 1, sent |-> "never"]

\* "close:{trade}:reversal_exit", without an expiry: there is no bar it lapses in.
Exit(b) == [what |-> "exit", of |-> b, status |-> "pending", until |-> MaxBars + 1, sent |-> "never"]

HasExit(b) == \E i \in DOMAIN rows : rows[i].what = "exit" /\ rows[i].of = b
Unasked    == {b \in Bars : Reversed(b) /\ ~HasExit(b)}

\* A spent row is re-armed, a live or done one holds its key.
Rearmed(row) ==
    IF row.what = "exit" /\ row.status \in {"failed", "expired"} /\ Reversed(row.of)
    THEN [row EXCEPT !.status = "pending"]
    ELSE row

\* TradeManager::manage: the exit of every position the newest bar reverses.
Managed ==
    LET asked == SetToSeq(Unasked)
    IN  [i \in DOMAIN rows |-> Rearmed(rows[i])] \o [i \in DOMAIN asked |-> Exit(asked[i])]

Manage(p) ==
    /\ pass[p].at = "managing"
    /\ rows' = Managed
    /\ pass' = [pass EXCEPT ![p].at = "evaluating"]
    /\ UNCHANGED <<terminal, stored, signals, filed, queued, job, evaluated, counts>>

\* trades:manage, every minute.
ManageTrades ==
    /\ Managed # rows /\ rows' = Managed
    /\ UNCHANGED <<terminal, stored, signals, filed, queued, job, pass, evaluated, counts>>

\* Where a pass is over: a request answers, a job gives its lock back.
Over(p) ==
    /\ pass' = [pass EXCEPT ![p] = IF p \in Requests THEN [Idle EXCEPT !.at = "answering"] ELSE Idle]
    /\ job' = (job /\ p # "worker")

Later(a, b) == IF a < b THEN b ELSE a

\* The averages cross on the newest bar, and it has no signal yet.
Fires == stored > 0 /\ Crosses(stored) /\ signals[stored] = "none"

OpenTrades == Cardinality({b \in Bars : filed[b].status = "open"})

\* SignalGenerator::generate, up to the transaction: the higher timeframe may veto the cross,
\* which leaves no trace, and an objection is recorded.
Evaluate(p) ==
    /\ pass[p].at = "evaluating"
    /\ evaluated' = Later(evaluated, stored)
    /\ \/ Over(p)
       \/ /\ Fires
          /\ \E wanted \in BOOLEAN :
                /\ wanted => OpenTrades < MaxConcurrent
                /\ pass' = [pass EXCEPT ![p].at = "writing", ![p].bar = stored, ![p].wanted = wanted]
          /\ UNCHANGED job
    /\ UNCHANGED <<terminal, stored, signals, filed, rows, queued, counts>>

\* Mutant: create, and no index.
IsCreatedAnyway(b) == TRUE

\* createOrFirst: the index on (strategy, bar) lets one of two passes create the signal.
IsCreated(b) == signals[b] = "none"

\* A market entry is valid for the length of a bar.
Entry(b) == [what |-> "enter", of |-> b, status |-> "pending", until |-> Newest + 1, sent |-> "never"]

\* The transaction: the signal, and the command if nothing objects.
Write(p) ==
    /\ pass[p].at = "writing"
    /\ LET b == pass[p].bar
       IN  IF IsCreated(b)
           THEN /\ signals' = [signals EXCEPT ![b] = IF pass[p].wanted THEN "accepted" ELSE "skipped"]
                /\ rows' = IF pass[p].wanted THEN Append(rows, Entry(b)) ELSE rows
           ELSE UNCHANGED <<signals, rows>>
    /\ Over(p)
    /\ UNCHANGED <<terminal, stored, filed, queued, evaluated, counts>>

-----------------------------------------------------------------------------
\* The other ways to a pass, and the end of one

\* The worker takes the next job.
StartJob ==
    /\ job /\ pass["worker"].at = "idle"
    /\ pass' = [pass EXCEPT !["worker"].at = "managing"]
    /\ UNCHANGED <<terminal, server, evaluated, counts>>

\* A request, or a job that will be tried again, is killed.
Kill(p) ==
    /\ pass[p].at # "idle"
    /\ Fault /\ killed' = TRUE
    /\ pass' = [pass EXCEPT ![p] = Idle]
    /\ UNCHANGED <<terminal, server, evaluated>>

-----------------------------------------------------------------------------
\* The terminal carries out, and reports

Claimable(i) == rows[i].status = "pending" /\ Newest <= rows[i].until

Claimed(i, sent) ==
    IF Claimable(i) THEN [rows[i] EXCEPT !.status = "claimed", !.sent = sent] ELSE rows[i]

\* Received once, an exit stays so.
Missed(i) == IF rows[i].sent = "received" THEN "received" ELSE "lost"

\* claimBatch: what may be claimed, stamped; the answer may be lost.
Poll ==
    /\ awaiting = Nobody /\ batch = {} /\ \E i \in DOMAIN rows : Claimable(i)
    /\ \/ /\ batch' = {i \in DOMAIN rows : Claimable(i)}
          /\ rows' = [i \in DOMAIN rows |-> Claimed(i, "received")]
          /\ UNCHANGED faults
       \/ /\ Fault
          /\ rows' = [i \in DOMAIN rows |-> Claimed(i, Missed(i))]
          /\ UNCHANGED batch
    /\ UNCHANGED <<bars, pushed, awaiting, position, stored, signals, filed, queued, job,
                   pass, evaluated, killed>>

\* Mutant: the newest command comes first.
IsNextLast(i) == i \in batch /\ \A j \in batch : j <= i

\* The commands of a batch come in the order of their ids.
IsNext(i) == i \in batch /\ \A j \in batch : i <= j

\* FXSHandleCommand: the order is placed or the position closed, or the broker refuses; what
\* became of it is answered, or the answer is lost.
Execute(i) ==
    /\ IsNext(i) /\ awaiting = Nobody
    /\ batch' = batch \ {i}
    /\ LET b       == rows[i].of
           can     == rows[i].what = "enter" \/ position[b] = "held"
           after   == IF rows[i].what = "enter" THEN "held" ELSE "closed"
           Says(t) == rows' = [rows EXCEPT ![i].status = t]
       IN  \/ /\ can /\ position' = [position EXCEPT ![b] = after]
              /\ \/ Says("done") /\ UNCHANGED faults
                 \/ Fault /\ UNCHANGED rows
           \/ /\ Says("failed") /\ UNCHANGED position
              /\ IF can THEN Fault ELSE UNCHANGED faults
    /\ UNCHANGED <<bars, pushed, awaiting, stored, signals, filed, queued, job, pass,
                   evaluated, killed>>

\* sweepExpired: an entry whose bar is over, a claim nobody answers for.
Sweep(i) ==
    /\ \/ rows[i].status = "pending" /\ Newest >= rows[i].until
       \/ rows[i].status = "claimed" /\ i \notin batch
    /\ rows' = [rows EXCEPT ![i].status = "expired"]
    /\ UNCHANGED <<terminal, stored, signals, filed, queued, job, pass, evaluated, counts>>

\* FXSFlushReports: the opening, with an opened_at of now, and then the close.
Report(b) ==
    /\ awaiting = Nobody
    /\ \/ /\ position[b] # "none" /\ filed[b].status = "none"
          /\ filed' = [filed EXCEPT ![b] = [status |-> "open", opened |-> Newest + 1]]
       \/ /\ position[b] = "closed" /\ filed[b].status = "open"
          /\ filed' = [filed EXCEPT ![b].status = "closed"]
    /\ UNCHANGED <<terminal, stored, signals, rows, queued, job, pass, evaluated, counts>>

-----------------------------------------------------------------------------
Request(r) == Push(r) \/ ReadKnown(r) \/ Store(r) \/ Answer(r)
Step(p)    == Manage(p) \/ Evaluate(p) \/ Write(p)
Carry      == Poll \/ \E i \in DOMAIN rows : Execute(i)

Next ==
    \/ \E side \in Sides : BarCloses(side)
    \/ \E r \in Requests : Request(r)
    \/ \E p \in Passes : Step(p) \/ Kill(p)
    \/ TimeOut \/ ManageTrades \/ StartJob
    \/ Carry \/ \E i \in DOMAIN rows : Sweep(i)
    \/ \E b \in Bars : Report(b)

Spec == Init /\ [][Next]_vars

\* The timer fires, a request goes on until it answers or is killed, the scheduler runs
\* trades:manage and the sweep.  The market and the worker owe nothing.
Fairness ==
    /\ \A r \in Requests : WF_vars(ReadKnown(r) \/ Store(r) \/ Answer(r) \/ Step(r))
    /\ WF_vars(\E r \in Requests : Push(r)) /\ WF_vars(TimeOut)
    /\ WF_vars(ManageTrades) /\ WF_vars(Carry)
    /\ WF_vars(\E i \in DOMAIN rows : rows[i].status = "claimed" /\ Sweep(i))

FairSpec == Spec /\ Fairness

-----------------------------------------------------------------------------
(* Properties *)

TypeOK ==
    /\ bars \in Seq(Sides) /\ Newest <= MaxBars /\ pushed \in 0..Newest
    /\ awaiting \in Requests \union {Nobody} /\ batch \subseteq DOMAIN rows
    /\ position \in [Bars -> {"none", "held", "closed"}]
    /\ stored \in 0..Newest /\ signals \in [Bars -> {"none", "accepted", "skipped"}]
    /\ filed \in [Bars -> [status : {"none", "open", "closed"}, opened : 0..(MaxBars + 1)]]
    /\ rows \in Seq(Row) /\ queued \in BOOLEAN /\ job \in BOOLEAN
    /\ pass \in [Passes -> Pass] /\ evaluated \in 0..stored
    /\ faults \in Nat /\ killed \in BOOLEAN

\* "One signal per strategy per bar": however many pushes and jobs look at a bar at once, one
\* entry is queued for it, and only if its signal says so.
OneEntryPerBar ==
    \A i, j \in DOMAIN rows :
        rows[i].what = "enter" /\ rows[j].what = "enter" /\ rows[i].of = rows[j].of
            => i = j /\ signals[rows[i].of] = "accepted"

\* "Out of the old trade, then into the new one": when a position is opened, the terminal has
\* had the exit of every position its bar crosses against, on file and with a bar since, and
\* not behind it; unless the answer that carried the exit was lost, for then the entry does
\* not wait for the exit to be asked for again.  A job is another matter: a bar may be stored
\* between the positions it manages and the entry it looks for.
OutBeforeIn ==
    [][\A b, c \in Bars :
          /\ position[b] = "none" /\ position'[b] = "held" /\ ~queued
          /\ position[c] = "held" /\ filed[c].status = "open" /\ filed[c].opened < b
          /\ bars[b] # bars[c]
          => \E i \in DOMAIN rows :
                /\ rows[i].what = "exit" /\ rows[i].of = c
                /\ rows[i].sent = "lost" \/ (rows[i].sent = "received" /\ i \notin batch)
      ]_vars

\* Evaluated in the request, the newest bar comes to be looked at for an entry, although the
\* terminal gives up waiting, pushes again and finds the bar known; unless a request is killed.
Considered == []<>(evaluated = Newest \/ queued \/ killed)

\* "An exit that is late is still the exit": once asked for, the position gets closed.  After
\* an order was refused or an answer lost, only for as long as the newest bar still reverses it.
ExitComesAbout ==
    \A b \in Bars : HasExit(b) ~> (position[b] = "closed" \/ (faults > 0 /\ ~Reversed(b)))
=============================================================================
