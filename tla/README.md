# Gold Digger in TLA+

A verification development for Gold Digger (FXSignalPro): a Laravel dashboard
that decides what an MT5 account should trade, and an expert advisor (EA) in
the terminal that does it. The two share nothing but four HTTP calls, so what
is hard here is what is hard in any two-party system without a common clock or
a common transaction: commands that are handed over and never answered, reports
that arrive late, twice or in the wrong order, a picture of the account that is
a quarter of an hour old, and passes that run every minute over state another
pass is changing.

Every definition is translated from the code; paths below are under `src/`.

## 1. The system

```
 channels --telegram:poll--> telegram_signals --review--> --execute--+
 candles --EvaluateNewBars--> SignalGenerator -----------------------+--> trade_commands
 trades:manage, copier:protect, telegram:follow-up, pages -----------+        |   ^
                                                                GET /commands |   | POST .../result
                                                                              v   |
 trades, trade_partials <---POST /fills, POST /positions------------------  EA in MT5  <--> broker
```

| part | state it keeps | operations | modelled in |
|---|---|---|---|
| command queue (`Models/TradeCommand.php`, `Api/Bot/CommandController.php`) | `trade_commands`, one row per idempotency key | enqueue, claimBatch, markDone, markFailed, sweepExpired | CommandQueue |
| protection queue (`Services/Trading/ProtectionQueue.php`) | none of its own | send, moveStop, close | CommandQueue, StopMoves |
| trade book (`Api/Bot/FillController.php`, `Strategy/PositionReconciler.php`) | `trades`, `trade_partials` | recordOpen, recordClose, reconcile | TradeBook, BookClients |
| fill reporting of the EA (`FXSignalPro.mq5`) | in memory: reports to send, close reasons, resting orders | OnInit, OnTimer, OnTradeTransaction, OnDeinit, flush, replay, snapshot, poll | FillReporting |
| stop management (`StopRules`, `TradeManager`, `PositionManager`, `FollowUpExecutor`) | `trades.sl_price`, `initial_sl_price` | break-even, trail, protect, a provider's stop move | StopMoves |
| trade executor of the EA (`Executor.mqh`) | none | open, open_pending, modify, close, close_all | parts in StopMoves and FillReporting |
| copier entry (`Services/Telegram/*`) | `telegram_signals`: review and execution status | ingest, edit, correct, review, execute, added layers | Copier |
| capped fund (`Services/Ai/AiFund.php`) | none: computed from trades and commands in flight | state, canOpen | AiFund, Copier |
| autonomous trader (`Services/Ai/AutonomousTrader.php`) | a budget of model calls | consider, store, execute | the signal it stores: Copier |
| ladder and exits (`TradeManager`, `PositionManager::profitLock`) | keys of the closes asked for | rung, time, session and Friday exits, profit lock | close keys only |
| health monitoring (`Monitoring/HealthMonitor.php`, `AlertNotifier.php`, `bot:monitor`) | `alerts`; the scheduler's mutex | open, resolveAbsent, send, sendResolution | HealthMonitor |
| price chart (`resources/js/price-chart.js`, `Dashboard/PriceChartCard.php`) | the card's properties, held by the page; the script's chart, series, lines, markers | load, selectTimeframe; init, build, repaint, drawLevels, drawMarkers, destroy | PriceChart |
| signal generation (`Api/Bot/CandleController.php`, `Jobs/EvaluateNewBars.php`, `Strategy/SignalGenerator.php`) | `candles`, `signals`; the job's lock; the EA's cursor per series | FXSMaintainSeries; store, manage, generate, trades:manage | SignalGeneration |
| outcome tracking, prune, login worker | outcomes, offsets | see section 6 | not modelled |
| indicators, sizing in real numbers, backtests, prompts, other pages, admin | | | not modelled |

`PROJECT.json` lists all twenty-six parts with their sources and what is or is
not modelled of each.

**How the parts interact.** The dashboard acts only by putting a row into
`trade_commands`. The EA polls every few seconds, claims a batch, works it off in
order and posts one result per command. What happens at the broker is told on a
second path: a report per deal, kept in the EA's memory until it is delivered,
and every fifteen minutes (and on attach) a snapshot of everything held. The
engines read what those two paths wrote, and by then it may be stale.

**What is hard, and what makes each part right**

* *Queue.* Callers race on one key; two terminals poll one account; a claim ages
  out while its owner still works; results are lost or late; an order that was done turns out
  never to fill. Right: no attempt is
  in two hands; a hand-over always answers a request made since the last; what is
  asked for persistently is done; what stands at the broker stands there once, and once more
  only for each thing that was lost.
* *Book.* Reports are repeated, with less known each time, and snapshots are
  interleaved with them. Right: a deal counts once, nothing known of it is
  forgotten, a held position is shown held, a gone one does not stay live.
* *Fill reporting.* Memory is bounded and dies with the terminal; a flush that
  half fails reorders; a 4xx discards; a snapshot is overtaken by the broker on its way. Right: no closing deal is forgotten, or if it is the
  snapshot squares the book.
* *Stops.* Several rules propose levels against a recorded stop that commands do
  not update; their commands are carried out later, in a batch, and may fail.
  Right: a stop moves only toward profit, never behind the opening risk, and gets
  where the rule wants it.
* *Copier and fund.* Passes, a page and the autonomous trader write one signal's row
  with a model call between read and write, and size orders from a fund that is computed
  from two tables neither of which has the order yet. Right: one order per signal; what
  is lost and at risk never above the cap, which the code keeps only as long as no two sizings
  overlap; every signal decided upon.
* *Signals.* A push outlives the terminal's patience and is sent again while the first is still
  at it; positions are managed and entries looked for in one pass, and a minute's pass runs beside
  it. Right: one entry per bar; out of the old position before into the new one; no bar passed over,
  no exit forgotten.
* *Monitor.* Incidents are looked up and created in two statements with no index behind them,
  and told over a channel that may be down or may not answer, by a run that may be killed and
  leaves its mutex behind. Right: one open incident per condition; told as bad as it is; an
  all-clear exactly for what was told.
* *Chart.* One answer of the server runs three callbacks and a morphing of the page in an order
  nobody fixes, over a series that still shows the answer before. Right: it shows the answer it
  holds and nothing of an earlier one, and comes to show the book as it is.

## 2. The modules

**CommandQueue** (`TradeCommand`, `ProtectionQueue::send`, `CommandController`).
`row` is the table, `calls` the enqueue() calls between two of their statements,
`hand` the batch a terminal works on, `wire` the results it timed out on, `resting` and
`unfilled` what a terminal remembers of orders that rest. One
action per statement or transaction: `Look`/`Read`/`Create`/`Rearm` are the three
queries of send() and enqueue(), which hold no lock; `Poll` is claimBatch(), one
transaction under row locks; `Report`, `ReportLost`, `ReportLate`, `LateResult`
are the ways a result gets, or does not get, to result(). A resting order fills (`Filled`) or leaves
the broker's book (`Retire`), and then a second, failed result is kept until it is answered
(`Flush`), timed out on and kept (`FlushLate`), or discarded on a 4xx (`FlushRefused`); markFailed
applies it whatever the row has become. `Crash` loses the batch and both memories. `Sweep` is
sweepExpired(); `Tick` is time, with ages that saturate where nothing
distinguishes them further. `acted` is history: what the broker has carried out and not let go of.

**CommandMandate** is what the queue promises: a request is a mandate for one
hand-over. `HandsOverWhatWasAsked` is the refinement, `owed` being "the row is
pending" and `handed` its attempt count.

**TradeBook** holds the two tables and one operator per endpoint: `RecordOpen`,
`RecordClose` (with keepingWhatIsKnown, the derived totals and the first-close-wins
rule), `Reconcile` (adopt, refresh, closeVanished). It has no Next of its own:
**BookClients** puts it under arbitrary clients, **FillReporting** under the EA.
**DealLedger** is the abstract ledger BookClients implements.

**FillReporting** is the EA and the broker around the book. The EA runs one handler
at a time, so `handler` says which one and where in it; handlers are split at their
HTTP requests, because the broker does not wait for them. A request is answered, is discarded
on a 4xx, never left, is done but not answered, or is done later (`Outcomes`). A snapshot is
taken in one step (`Flushed`), is in `sent` while it travels, and reconciled in another
(`ReportPositions`); `discarded` is history. A close may be refused by the broker with the position
still held (`DoClose`). `pending` is
g_pending, a sequence that drops its oldest report when it is full (`Queued`). `Crash`
and `OnDeinit` lose what MQL5 globals hold; `OnInit` replays the history as
FXSReplayClosedDeals does, with prices it may fail to read (`Replayed`).

**StopMoves** is one position. A level is a distance from the entry in the
position's favour, so buys and sells are one case. Engines: `TradeManagerPass`
(break-even, then trail), `CopierPass` (protect), `FollowUp`; terminal: `Modify`
with ClampStops, `Refuse`; the queue reduced to its collapse and re-arm rules;
`Snapshot`, the only regular writer of `recorded`.

**AiFund** is the fund's arithmetic, as operators: what remains of the cap after realised
losses, open positions and entries in flight, whether another position may be opened, and
what it may risk. **Copier** has the rows those are computed from. `signal` is the table of
signals, `copies` the rows a worker has read and still has to deal with, `asking` whether
it waits for the model's answer about the first of them. A worker is a scheduler's pass, a
button of the page, ai:decide or the follow-up executor; its step runs from one call of the
model to the next, so an edit, another worker or a fill may come in between. Execution is two steps:
`Size` reads the fund and puts the stake in `sized`, `Execute` writes the command, and any other
process may come in between; `raced` is history: a stake was sized while another was not yet a command. What a worker
writes it writes to the row whatever has become of it. `command`, `taken` and `order` are
the queue, the terminal and the book as far as the fund and a second execution can tell. One
terminal polls: it claims everything pending (the ten of a batch are all there are here), works the
batch off in one handler, and tells what happened at the broker between two batches.

**SignalGeneration** follows one strategy on one instrument from bars to positions. `bars` is the
terminal's series, of which only the side of the averages is kept; `pushed` is its cursor and
`stored` what the dashboard has. `pass` is where each request, and the worker, stands in
CandleController::store and SignalGenerator::generate, split wherever another request may come in
between: known bars read (`ReadKnown`), upsert (`Store`), positions (`Manage`), the look at the bar
(`Evaluate`) and the transaction (`Write`). `rows` is the queue in the order of its ids; a batch is
worked off in that order. `position` is the broker's truth and `filed` the book's, which a report
brings up to date. A row's `sent` says whether an answer to a poll has brought it to the terminal or
only answers that were lost. `evaluated` and `killed` are history. It
starts fresh or, with `Seen` bars over, with the position of the first of them held.

**HealthMonitor** is bot:monitor for one tenant. Of each account it has what its newest heartbeat
says, whether its bars have stopped (`stalled`) and whether it holds positions. `alerts` is the table, `run` the runs of the
command there are (at most one, but for a mutex that expires) and where they are; the loops over
conditions and incidents are split at every statement and message: `Look`/`Create` are open(),
`Resolve` is resolveAbsent(), `Tell` and `TellClear` send a message whose answer may be lost, and
`Record` writes what was answered. `told` is history: what the tenant has been told of each incident.

**PriceChart** is the card and its script. `wire` is the card's properties, which Livewire keeps
in the page and sends along with each request (`Serve` is load() on what the page sent); `due` is
what an answer has set off and is still to run: a watcher per changed property and the morphing of
the page. Each operation of the script (`DrawLevels`, `DrawMarkers`, `Repaint`, `Build`, `Mounted`,
`Destroyed`) is an operator on `component`, which holds the script's own variables beside what the
series really shows, so that the two can disagree, and `stray`, what was drawn since the chart was
removed: destroy() clears the chart and leaves the series.

**The proofs** are in CommandQueueProofs, BookProofs (TradeBook under any clients and under the
EA), StopMovesProofs, CopierProofs, SignalGenerationProofs, HealthMonitorProofs and PriceChartProofs.
**SumLemmas** has the laws of SumFunction over finite sets, by which the models add up lots, stakes
and results: CopierProofs and BookProofs rest on it.

Prices, money and lots are small integers; the queue's payloads, logging, wording
and formats are left out. Each module's head comment names what it leaves out.

## 3. The runs

| run | question | bounds |
|---|---|---|
| queue_races | two callers and two terminals, stalls, late results, resting orders that come to nothing: is an attempt ever in two hands, and does each hand-over answer a request? | 2 keys (a close, a resting order), 2 attempts, 1 fault, 1 refusal; a terminal may stall past the stale-claim age; the two terminals are interchangeable (symmetry) |
| queue_live | one caller, punctual terminal: is what is asked for done in the end, how often does it come to stand at the broker, and do live rows collapse what is asked for again? | 2 keys (with and without expiry), 5 attempts, 2 faults, 1 refusal |
| book_clients | does the book implement the ledger under any reports and snapshots? | 1 position of 2 lots, 2 deals, 4 reasons, priced or not, live or replayed |
| fills_memory | is a held position ever shown closed or short; do figures settle; does an answered snapshot square the book; does a reason outlive its close? | 2 deals, buffer of 2 (it overflows), 2 faults (a 4xx, unsent, unanswered), a crash, a detach, closes by hand |
| fills_live | does a row ever stay live for good; is a deal forgotten while nothing goes wrong; does an adopted row become the bot's? | a resting order, buffer of 3, 1 fault of any kind (late included), a crash, a detach |
| stops_bot | strategy: does the trail loosen, does it get there, does a filled rung protect? | entry -1..+3, 1 lost request |
| stops_copier | copier: is the opening risk kept, is the distance kept? | entry -3..+4, a message asking for more room, a hand, a repeated opening |
| copier | is every signal decided upon? | a posted signal whose order rests, an added entry, two reviewers, 1 edit or correction |
| copier_fund | one order per signal, and the cap, when signals are sized together? | two signals, three executors, 1 lost answer, shares of 60% of a cap of 10, one position; not followed once two have sized at once and an answer is lost (`Claimed`), where both properties are vacuous |
| bars | one entry per bar, out before in, and is every bar and every exit dealt with? | four bars, of which two are over at the start with a position held, two requests and a job, inline or queued, 1 fault (a late or lost answer, a refusal, a kill) |
| monitor | one open incident per condition, told as what it is, and an all-clear for what was told? | two accounts, 2 changes (a heartbeat, the bars, the switch, a position, the channel), 1 lost answer, 1 killed run, repeat after 1 tick |
| chart | does the chart show its answer, once, and does it catch up? | one position, two symbols, two timeframes, 2 changes of the database, 1 click, 1 lost request |

*Why these bounds.* Every hazard of the queue needs at most two parties on one key
and one re-arming between a read and a write: two callers, two terminals and two
attempts give every order of that; a second key is there for batches and ids. Two
deals are the fewest with an order and a partial close; a buffer of two holds a close behind
an opening and overflows, one of three has room for all one position of two lots gives rise to. A stop needs
a level behind, at and beyond the entry, and room for one bucket more after that.
Two signals at 60% are the fewest that pass the cap if one is not charged for the
other, and two executors the fewest that race for one of them. Two accounts are the fewest
that give a key its suffix, two runs the most that one killed run can lead to. A position that has been held
for a bar and two bars more are the fewest on which it is reversed and a bar closes after that: an exit
pending or in hand past its bar, one refused and not asked for again, one lost and aged out, and an entry that
overtakes a lost exit were all seen to be reached. Two changes of the
database move a stop and move it again, or empty a series and fill it. The faults are budgets, not rates: one or two per behaviour, at any place. Each
bound is a CONSTANT whose comment calls it one.

*Fairness.* Queue: a pass runs every minute for each key it still wants (strong
fairness on its call, since a row is only now and then spent), the terminal polls and
works its batch off, the scheduler runs the sweep, time passes. Fills: MT5 gives the
timer and trade events their turn and a batch is finite; a terminal that is off is
started again; the server finishes what it received; the broker is under no
obligation. Stops: the passes and the sweep run; a pending modify is carried out or
refused, strongly fair per key because a batch (Limit 10 in the code) is larger than
the commands one position can have pending; the market is under no obligation.
Copier: both passes run, and a call of the model ends. Monitor: the scheduler starts the command
every minute and each run goes on until it ends or is killed, time passes, and the mutex of a
killed run expires; `TellsHowBad` and `TellsWhenOver` assume that the channel comes back for good,
and say so. Bars: the terminal's timer fires, a request goes on until it answers or is killed and takes less
than a bar, trades:manage and the sweep run; the market and the queue's worker owe nothing. Chart: the page polls, the server answers, and the browser runs what it has queued;
losing a request is under no obligation to stop, but for the bound. `Punctual` says that requests and commands take less than the unit in which claims
age (ten minutes in the code); queue_races drops it.
In Copier it says that an order is placed before its command expires, and is on file before the
next one is sized.

`CHECK_DEADLOCK FALSE` stands in the stops, the copier, the fund and the bars runs only: they follow one
position until it is closed, two signals until they are dealt with, or the bars until nothing is left of
them to do.

## 4. What the runs found

Where the code does something else than a comment or a document says, or than one would expect. All
were met while modelling; the runs check what holds, under the restrictions named here.

Seen with TLC:

* size() reads what is left of the fund and the command is written later, with no lock or transaction
  around the two (`SignalExecutor.php:280` and `:128`); telegram:execute, the page's button and ai:decide
  are processes of their own. Two of them size from one reading, and their orders together risk more than
  the cap, against "so three positions cannot each be sized against the same untouched balance"
  (docs/AI_INTEGRATION.md:86). `LossBounded` fails in the bounds of copier_fund, put in the place
  of `CapHolds`, which is what remains: the bound until two sizings overlap.
* The fund sums what was realised over trades that are 'closed' or 'stopped_out', and the code never
  writes 'closed': everything but a stop ends as 'fully_closed' (`AiFund.php:82`,
  `FillController.php:299`; docs/AI_INTEGRATION.md:81 says "realised losses deplete it"). A loss taken
  by hand or by a message is not deducted, and the next position is sized from the whole cap. With
  `ByHand = TRUE` both `LossBounded` and `CapHolds` fail, one executor being enough.
* The EA discards a report on any 4xx, since "the dashboard rejected it and will keep rejecting it"
  (`FXSignalPro.mq5:344`), but the route is throttled (`routes/api.php:30`, `AppServiceProvider.php:122`) and
  a 429 says nothing of the kind. A discarded opening leaves a row that a snapshot adopts and that never
  becomes the bot's, so the strategy does not manage it: `ComesToBeManaged` without `discarded` fails. A
  discarded close loses the deal's money until the next attach replays it, and one of a resting order
  that went unfilled leaves its command done.
* The watchers of lines and markers ask whether there is a series, and destroy() leaves the one of the
  chart it removes (`price-chart.js:47`, `:109`, `:138`), so they draw on what is left of it:
  `component.stray = {}` fails. What is left is not shown; whether the library complains is its affair.
* An entry does not wait for the exit of its bar once the answer that carried the exit was lost: the
  exit is claimed, in nobody's hands, and only asked for again when its claim has aged out.
* Evaluated by a job, a bar may be stored between the positions the job manages and the entry it looks
  for, so the entry of the newer bar is queued before the exits that bar calls for
  (`EvaluateNewBars.php:75` against the comment at :25): `OutBeforeIn` fails when evaluation is queued.
* A reversal is read off the newest bar (`TradeManager.php:119`), so an exit that was refused, or whose
  claim aged out, is asked for again only until the next bar closes, although "an exit that is late is
  still the exit" (`TradeManager.php:467`). `ExitComesAbout` without its second half fails in bars
  after one fault: the position stays until something else closes it.
* A request killed between storing its bars and evaluating them leaves bars nobody evaluates: the
  repeat finds them known (`CandleController.php:141`). `Considered` without `killed` fails.

* Two rungs in one batch share the position's one slot in the close-reason store, so the first
  deal takes the second one's reason and is filed as the wrong target (`FXSignalPro.mq5:480`); nothing
  keeps them apart (`TradeManager.php:442`). `ReasonsAreSpent` holds: no reason outlives the batch.
* tightens() compares with a stop no modify updates, so break-even after a trail loosens the stop
  (`StopRules.php:45` against docs/TRADE_MANAGEMENT.md:137). The trail alone is safe
  (`TrailNeverLoosens`, proved): its levels only grow and its rows are carried out in order.
* enqueue() re-arms by primary key alone what it read as spent, so a row re-armed by another caller
  and claimed in between goes back to pending while a terminal works on it, and is handed out again:
  `LiveRowsCollapse` fails for two callers (`TradeCommand.php:245`). `HandsOverWhatWasAsked` and
  `AttemptUnique` still hold.
* FXSFlushReports keeps what failed and goes on, so a close passes its own opening, gets a 404 and is
  discarded (`FXSignalPro.mq5:347`): `NoCloseLost` fails after one fault. `BookSettles` holds; the deal's
  money is gone until the next attach replays it.
* A resting order's command is done and it has no position row, so the fund does not see it
  (`TradeCommand.php:132`): `CapHolds` fails with an order at a level.
* A message edited while its execution asks the model is traded at the old levels and shows the new
  ones; nobody is alerted, since the row is not yet marked as acted on (`SignalIngest.php:396`).
* A clamped modify answers done, so its key holds and the level is never sent again
  (`Executor.mqh:652` against `ProtectionQueue.php:20`).
* With a stops level, break-even close to the market is clamped behind the opening stop
  (`Executor.mqh:644` against `StopRules.php:31`). That is why `RiskNeverWidened` is checked and
  proved for a stops level of 0.
* A provider's break-even after the trail loosens the stop (`FollowUpExecutor.php:186`).
* A lost result lets a close be carried out twice (`TradeManager.php:63`); `NeverRepeated` says once more
  for each loss and no more.
* send() answers with a failed row that still rests, and the pass counts it as an action
  (`ProtectionQueue.php:85`).
* A late snapshot closes the row of a position opened since (`PositionReconciler.php:205`);
  the next one gives it its lots back but not its status, unless they are fewer than it opened with;
  only a repeated opening does, and such a repeat also reopens a closed row (`FillController.php:173`).

Met while reading the bars' way to an order:

* A bar that crosses back right after the entry is not an exit: it closes before any bar has opened since
  the position did (`TradeManager.php:175`). The opposite entry is placed beside the old position.
* An exit is only queued when the entry of its bar is looked at, so the position it closes still counts:
  with max_concurrent_trades of one a reversal never gets its entry. Entries in flight do not
  count (`SignalGenerator.php:436`).
* A job's lock names account and timeframe and no symbol (`EvaluateNewBars.php:70`): bars of a second
  symbol that arrive behind a job's back are not evaluated until that symbol's next bar, which is
  then the only one looked at, though the comment says "nothing is lost by giving up" (:40).
* The entry series is pushed before the trend series (`FXSignalPro.mq5:766`), so an entry bar that
  closes together with a trend bar is filtered by the trend bar before.

Met while reading the monitor and the chart:

* A second account's first heartbeat gives every key a suffix, so an incident opened before it is
  resolved, with an all-clear, and opened anew, although the comment says it "is the same incident
  after" (`HealthMonitor.php:116`).
* An incident of a blocked terminal is resolved, with an all-clear, when the terminal falls silent:
  silence is a condition of its own.
* A lost answer repeats the message; if the incident is over before the repeat, it ends without an
  all-clear, because the row says nobody was told. `TellsWhenOver` speaks of the rows that say
  somebody was.
* A warning that becomes critical is told as critical at the next repeat, an hour later.
* A killed run keeps the monitor from running until its mutex expires: with withoutOverlapping()'s
  default, a day.
* The card listens for 'trade-updated', which nothing dispatches: only its poll reloads it.

## 5. What is proved

TLAPS checks these for every value of the constants (under the named ASSUMEs of the
modules, which TLC evaluates on every run).

* **QueueType**, **QueueHandsOutOnce**, **QueueImplementsMandate** (CommandQueueProofs).
  `AttemptUnique` is not inductive: a late result or a batch says nothing of the row
  it came from. `HandsInv == TypeOK /\ Counted /\ AttemptUnique /\ Waiting` adds that no attempt in hand
  or on the wire is beyond the row's count, nor any that rests or waits to be reported unfilled. A poll raises the count by one, so what it
  hands over is new; no other statement changes it (`AttemptsKept`). The refinement maps each
  statement to Ask, Withdraw, HandOver or a stutter, with no restriction on callers: even the
  second write of a race is an Ask.
* **QueueLiveRowsCollapse**, **QueueNeverRepeats**, for one caller and a punctual terminal
  (`OneAtATime`). `RowsInv` follows the row of every claim: while it is in a hand, or a success of it is
  on the wire, its row is claimed, with that attempt's number, not expired and not a tick old (`Handling`,
  `Reporting`), so neither the sweep nor enqueue() touches it; the one call between two statements still
  has the row as it read it (`Calling`). `OwedInv` counts: the attempts of a command that stand at the
  broker, the failures of it still to be recorded and one more while its row is not done are at most
  one and the faults so far (`Owing`), because a result that is lost or late raises the faults, and one of
  an order let go of moves from the first count to the second. Both hypotheses are needed: without either
  TLC finds a repeat, and with two callers a live row that is re-armed.
* **BookImplementsLedger** (BookProofs). `LedgerInv`: every partial fits the deal it is
  filed under, every row has its columns, an absent row has no pips. Each report teaches the
  ledger its deal or stutters (`CloseStep`), because keepingWhatIsKnown never takes away and
  the totals are derived from the stored deals. What SumFunction adds up to is not needed, only
  that equal legs have equal sums (`SameSum`).
* **FillsTyped**, **FillsReasonsSpent** (BookProofs), with no hypothesis at all. `TypeInv` is
  what `TypeOK` needs to be inductive: events name deals of ours, reports waiting or on the wire are
  of openings and deals that happened, and there are no more deals than lots were opened
  (`RoomLeft`), so that every deal has a number. A replay is a recursion over the history;
  `ReplaysTo` says of each of its prefixes what the whole is to have.
* **FillsHeldIsShown**, **FillsFiguresSettle**, **FillsSnapshotSettles**, as long as no request is
  done after the terminal gave it up (`NoLate`; with late requests TLC refutes each of the three).
  `ShowInv`: no position is dealt more lots than it was opened with (`LotsAddUp`); what is on file is
  what happened (`FiledInv`); only what the book manages is asked to close, so a row that starts with
  less than the position had, because a snapshot adopted it, never has a partial close of ours
  counted against it (`AskedInv`, `DealsInv`); and a row shows at least the lots held. `SentInv` says what a
  snapshot under way may have missed: the broker goes on meanwhile, but only downwards, and the book does
  not move until the answer. Crashes, reports discarded on a 4xx, repeats, detaches and a full buffer are
  all allowed. **FillsSnapshotSettles** speaks of what the terminal held when it took the snapshot.
* **FillsNoCloseLost**: while nothing has gone wrong, no closing deal is forgotten, provided the
  buffer is not full when something is to be queued (`RoomToReport`: at 200 reports FXSQueueReport drops
  the oldest). `LostInv` is an ordering argument: an order is remembered until its fill is
  handled (`StageOrder`), the event of a fill stands before those of its position's deals
  (`EventOrder`), and the report of an opening before the closes' (`PendingOrder`). So recordClose
  never meets a position it does not know, whose 404 the terminal takes for an answer.
  **FillsNoCloseLostInABigBuffer** does without the proviso: a buffer of one report a lot and one
  an opening is never full too soon. `FitInv`: what waits, and what the positions can
  still give rise to (`Ahead`), never grows.
* **StopsType** (StopMovesProofs).
* **StopsRiskKept**: with a stops level of 0 no command widens the opening risk. `RiskInv`: no row's
  level and no recorded stop is behind it.
* **StopsDistanceKept**: at any broker the copier's trail keeps its multiple of the opening risk
  from the best price. `DistanceInv` says it of every row.
* **StopsTrailNeverLoosens**: for a strategy, with a stops level of 0, no hand and no repeated
  opening, until the first rung fills. `TrailInv` is the argument: rows are numbered in the order of
  their levels, because the best price only grows and each bucket has one key; the terminal takes
  the lowest id first; so no pending row is behind the stop. The restrictions are those under
  which it is true: beyond them it fails in the ways section 4 lists.

* **CopierTyped** (CopierProofs): what is asked for, copied or at the broker belongs to a signal that was
  captured, and no stake is above the cap.
* **CopierOneOrder**. `IInv` follows a signal's command: unless it is done, the signal has
  nothing at the broker; what the terminal has in hand is claimed; so a command that may be asked for
  again (expired, failed, never asked for) has no order. It needs a punctual terminal and no lost
  answers: otherwise an expired command may have been carried out, and the second order is real.
* **CopierCapHolds**, for any number of signals, workers, positions at a time and answers lost, under
  `OnlyStopsLose`: only stops lose, orders are at market, the terminal is punctual, and no channel's
  share is larger than the account's. TLC refutes `CapHolds` without any one of the four, and without
  `~raced`. `FundInv == ~raced => CapInv /\ Promises`. `Promises`: at most one executor has
  sized and not yet asked, and its stake is still a share of what is left, although fills, closes, edits
  and reviews go on meanwhile. `CapInv` follows the money: an order exposes its stake until its result is booked, and then its result. What is
  exposed and what is in hand are within the cap; a stake in hand is a share of what was
  unspent when it was sized. A terminal works a batch off before it tells of anything else, so the fund
  charges an entry in flight at least that entry's own stake, and the next order is sized from what
  is really left.

* **SignalsType**, **SignalsOneEntryPerBar**, **SignalsOutBeforeIn** (SignalGenerationProofs), for any
  bars, requests, jobs and faults. `OneEntryPerBar` is inductive over the types: the signal and its command
  are one transaction. `OutInv` carries out-before-in from the request to the broker: past its
  positions a request has asked for every exit the newest bar calls for (`AsksFirst`), which is still the
  newest (`AtNewest`); so each entry has its exits before it in the queue (`OutFirst`), they do not
  lapse (`ExitsWait`), a poll that takes the entry takes them too, and a batch is worked off in order. An exit
  whose poll answer was lost is the exception, and **SignalsOutBeforeIn** names it (`sent`).
* **MonitorType**, **MonitorOneOpenIncident**, **MonitorClearsWhatWasTold** (HealthMonitorProofs).
  `OneInv`: at most one run is not idle, and only while the mutex is held (`OneAtATime`), and what
  a run has looked for and not found is still not there (`CreatesNew`). `TellInv`: a row that says it was
  told was (`AnnouncedIsTold`), and what is being cleared is over and announced (`ClearsResolved`).
* **ChartType**, **ChartShowsItsAnswer**, **ChartDrawsOneStop**, **ChartRepaintsNoRemovedChart**
  (PriceChartProofs), for any positions, symbols, timeframes and bounds. The invariant says what each
  callback that is not due has already made true: lines are the script's own lines always, and
  equal the answer's unless their watcher or the repaint is due; a chart the answer removes has no
  bars to repaint. Nothing is said of the overlays' own watchers on a removed chart, which do draw.

*Sums and recursions.* `SumOver` is shown to be a sum (empty, one element more, one value changed,
bounded, split) by induction over the subsets of a finite set, stated with sets: if the law failed, the
well-founded order of subsets would have a least set it fails for, and one element fewer refutes it. The
same form, over numbers, gives the values of the replay's recursive function. The induction theorems of
the library that take a predicate as a parameter are not used.

Only model-checked: liveness under fairness (`Pursued`, `Decided`, `BookSettles`, `ComesToBeManaged`,
`TrailFollows`, `RungProtects`, `Considered`, `ExitComesAbout`, `RecordsSettle`, `TellsHowBad`, `TellsWhenOver`,
`CatchesUp`), which the prover does not do. Every invariant and every action property of the passing runs
is stated by a theorem, some under hypotheses the theorem names.

## 6. Not modelled

* *Arithmetic in real numbers*: indicators, position sizing, target ladders, reward floors, the volumes of
  rungs, NormalizeVolume, outcome scores, backtests. Sequential functions of their inputs, without
  state, and out of both checkers' reach as they stand. One remark from reading them: rungVolume()
  checks each rung against the same remaining lots, so two rungs reached in one pass may together leave
  less than the broker's minimum (`TradeManager.php:307`). Another: a rung's volume is taken from remaining lots
  that may be a snapshot old (`TradeManager.php:330`), and NormalizeVolume() raises a volume below the
  broker's minimum to it although it is documented to round down (`Executor.mqh:247`).
* *Triggers*: that a price is reached, a session is over, a setup is found. Where one matters, its
  outcome is a choice of the model.
* *Overlapping transactions of the book*: TradeBook takes requests one at a time, see the hazard at
  `FillController.php:214`.
* *Thirty-two orders*: the limit on the resting orders a terminal remembers (`FXSignalPro.mq5:130`).
* *Numbers of things*: two added layers count the layers queued before either is marked
  (`FollowUpExecutor.php:222`), and positions count against the number the fund allows while entries in
  flight do not (`AiFund.php:211`). The money is bounded (`CapHolds`); nothing says which number is meant.
* *Model calls*: prompts, and the parsing of what an outside model says; its verdict is a choice.
* *Outcome tracking, pruning, calendar, channel figures*: sequential passes over stored rows, restartable.
* *The login dialogue* between page, worker and Telegram's server: its protocol is in the library and
  the server on the other side.
* *Tenancy and authentication*: every model is of one tenant; a refused request is one of the
  refusals the terminal's models allow.
* *Administration panel and other pages*: forms and tables over the rows modelled here. The scripts
  under `public/js/filament` are the panel's published vendor bundles, generated, and not this
  program's code.
