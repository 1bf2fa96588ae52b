------------------------------- MODULE StopMoves -------------------------------
(***************************************************************************)
(* How the stop of one open position is moved: the engines that decide     *)
(* where it should be (TradeManager for a strategy's own position,         *)
(* PositionManager and FollowUpExecutor for a copied one), the commands    *)
(* they queue, the terminal that carries them out against a moving         *)
(* market, and the snapshot that, a quarter of an hour apart, tells the    *)
(* engines where the stop really is.                                       *)
(*                                                                         *)
(* A level is a distance from the entry in the position's favour, so a buy *)
(* and a sell are the same position here; PipUnits of them make a pip, and *)
(* the twentieth of a pip tightens() tolerates is less than one.  Of the   *)
(* queue, what matters is kept: one row per key, done and pending rows     *)
(* collapse, spent rows are re-armed, lowest id first.  Its races are      *)
(* CommandQueue's.  Every opening report carries its stop, so there is one *)
(* on record.  Left out: the closes (FillReporting has them), the 300-bar  *)
(* window TradeManager reads, and the switches that make a pass do         *)
(* nothing, which are passes that are not run.                             *)
(***************************************************************************)
EXTENDS Integers, FiniteSets

CONSTANTS
    Origin,          \* "bot" or "ai"
    Depth, Ceiling,  \* how far the market goes below and above the entry
    PipUnits,        \* levels to a pip
    Risk,            \* how far behind the entry the opening stop is
    Rungs,           \* TRUE: the strategy closes a part at tp1
    TrailTrigger, TrailDistance,  \* the strategy's, in levels; a distance of 0 is off
    ProtectAtR, TrailR,           \* the copier's, in multiples of the opening risk; 0 is off
    Offset,          \* breakeven_offset_pips, in levels
    Messages,        \* provider messages asking for a stop move: 1..n
    Asks,            \* [Messages -> the level a message names], the entry for break-even
    StopsLevel,      \* how close to the market the broker accepts a stop
    MaxRefusals,     \* bound: modifies the broker refuses
    MaxLost,         \* bound: polls and results lost
    MaxRepeats,      \* bound: repeats of the opening report
    MaxHand          \* bound: moves made by hand in the terminal

Floor  == -Depth
Levels == Floor..Ceiling

ASSUME StopsAssumption ==
    /\ Origin \in {"bot", "ai"} /\ Rungs \in BOOLEAN
    /\ Depth \in Nat /\ Ceiling \in Nat /\ PipUnits \in Nat \ {0}
    /\ Risk \in 1..Depth
    /\ TrailTrigger \in Nat /\ TrailDistance \in Nat /\ ProtectAtR \in Nat /\ TrailR \in Nat
    /\ Offset \in 0..Ceiling /\ StopsLevel \in Nat
    /\ IsFiniteSet(Messages) /\ Asks \in [Messages -> Levels]
    /\ MaxRefusals \in Nat /\ MaxLost \in Nat /\ MaxRepeats \in Nat /\ MaxHand \in Nat

Stops  == (Floor - StopsLevel)..Ceiling
NoStop == Floor - StopsLevel - 1   \* the broker holds no stop
NoBar  == Floor - 1       \* no such bar

VARIABLES
    \* the broker and the market
    open, price, stop,
    \* bars opened since the position was recorded as opened: the best price of the closed
    \* ones and the last close; high is the best of the bar in progress, NoBar if that bar
    \* was already under way, which no engine reads
    best, last, high,
    \* the dashboard: sl_price, whether a tp1 partial is on file, and the commands
    recorded, banked, rows,
    handled,     \* messages acted on or refused
    refusals, lost, repeats, hand

market  == <<open, price, stop>>
bars    == <<best, last, high>>
budget  == <<refusals, lost, repeats, hand>>
vars    == <<market, bars, recorded, banked, rows, handled, budget>>

\* Rounded to the nearest whole pip.
Bucket(level) == (level + PipUnits \div 2) \div PipUnits

\* "modify:{trade}:break_even", "modify:{trade}:trail:{bucket}", "protect:{trade}:{bucket}"
\* and "telegram-followup:{message}".
Buckets == Bucket(Floor - StopsLevel)..Bucket(Ceiling)
Keys ==
    IF Origin = "bot" THEN ({"trail"} \X Buckets) \union {<<"break_even", 0>>}
    ELSE ({"protect"} \X Buckets) \union ({"message"} \X Messages)

\* resting: failed, and still within its backoff.
Statuses == {"absent", "pending", "claimed", "done", "resting", "failed", "expired"}
Row      == [id : Nat, status : Statuses, level : Stops]
Absent   == [id |-> 0, status |-> "absent", level |-> 0]

TypeOK ==
    /\ open \in BOOLEAN /\ price \in Levels /\ stop \in Stops \union {NoStop}
    /\ best \in Levels \union {NoBar} /\ last \in Levels \union {NoBar}
    /\ high \in Levels \union {NoBar}
    /\ recorded \in Stops /\ banked \in BOOLEAN
    /\ rows \in [Keys -> Row] /\ handled \subseteq Messages
    /\ refusals \in Nat /\ lost \in Nat /\ repeats \in Nat /\ hand \in Nat

Init ==
    /\ open = TRUE /\ price = 0 /\ stop = -Risk
    /\ best = NoBar /\ last = NoBar /\ high = NoBar
    /\ recorded = -Risk /\ banked = FALSE
    /\ rows = [k \in Keys |-> Absent] /\ handled = {}
    /\ refusals = 0 /\ lost = 0 /\ repeats = 0 /\ hand = 0

-----------------------------------------------------------------------------
\* The market, and the bars the terminal pushes

Lesser(a, b)  == IF a < b THEN a ELSE b
Greater(a, b) == IF a < b THEN b ELSE a

Move(p) ==
    /\ open /\ p \in Levels /\ p \in {price - 1, price + 1}
    /\ price' = p /\ high' = IF high = NoBar THEN NoBar ELSE Greater(high, p)
    /\ open' = (p > stop)
    /\ UNCHANGED <<stop, best, last, recorded, banked, rows, handled, budget>>

\* Mutant: the trail is set from the last close.
BarClosesForgetting ==
    /\ open /\ best' = (IF high = NoBar THEN NoBar ELSE price) /\ last' = price /\ high' = price
    /\ UNCHANGED <<market, recorded, banked, rows, handled, budget>>

BarCloses ==
    /\ open /\ best' = Greater(best, high) /\ last' = price /\ high' = price
    /\ UNCHANGED <<market, recorded, banked, rows, handled, budget>>

-----------------------------------------------------------------------------
\* StopRules and the queue

\* Mutant: any level will do.
TightensAlways(level) == TRUE

\* tightens: a stop only moves toward profit, from where it is recorded to be.
Tightens(level) == level > recorded

\* breakEven: the padded entry, unless that is past the market on either reading.
BreakEven == IF Offset < Lesser(best, last) THEN Offset ELSE 0

\* Rows are numbered in the order they are created.
Created(table) == {k \in Keys : table[k].status # "absent"}
NextId(table)  == Cardinality(Created(table)) + 1

\* Mutant: a spent row holds its key too.
SentOnce(table, key, level) ==
    IF table[key].status = "absent"
    THEN [table EXCEPT ![key] = [id |-> NextId(table), status |-> "pending", level |-> level]]
    ELSE table

\* ProtectionQueue::moveStop: a live row holds its key, a spent one is re-armed.
Sent(table, key, level) ==
    CASE table[key].status = "absent" ->
            [table EXCEPT ![key] = [id |-> NextId(table), status |-> "pending", level |-> level]]
      [] table[key].status \in {"failed", "expired"} ->
            [table EXCEPT ![key].status = "pending", ![key].level = level]
      [] OTHER -> table

\* A level worth sending is queued under its key.
Proposed(table, wanted, key, level) ==
    IF wanted /\ Tightens(level) THEN Sent(table, key, level) ELSE table

-----------------------------------------------------------------------------
\* The engines

\* TradeManager::actionsFor: break-even once the first rung has been filled, then the trail.
TradeManagerPass ==
    /\ Origin = "bot" /\ open /\ best # NoBar
    /\ LET trails == TrailDistance > 0 /\ best >= TrailTrigger
           trail  == best - TrailDistance
           first  == Proposed(rows, banked, <<"break_even", 0>>, BreakEven)
       IN  rows' = Proposed(first, trails, <<"trail", Bucket(trail)>>, trail)
    /\ rows' # rows
    /\ UNCHANGED <<market, bars, recorded, banked, handled, budget>>

\* A tp1 close comes back as a deal.
RungFilled ==
    /\ Origin = "bot" /\ Rungs /\ open /\ best > 0 /\ ~banked
    /\ banked' = TRUE
    /\ UNCHANGED <<market, bars, recorded, rows, handled, budget>>

\* Mutant: R is measured against the live stop.
OpeningRiskLive == Greater(recorded, -recorded)

\* The risk the position opened with, from initial_sl_price.
OpeningRisk == Risk

\* PositionManager::actionsFor: the trail, or else break-even, once the position has run.
CopierPass ==
    /\ Origin = "ai" /\ open /\ best # NoBar
    /\ ProtectAtR > 0 /\ OpeningRisk > 0 /\ best >= ProtectAtR * OpeningRisk
    /\ LET target == IF TrailR > 0 THEN best - TrailR * OpeningRisk ELSE BreakEven
       IN  rows' = Proposed(rows, TRUE, <<"protect", Bucket(target)>>, target)
    /\ rows' # rows
    /\ UNCHANGED <<market, bars, recorded, banked, handled, budget>>

\* FollowUpExecutor::moveStop: a message is acted on once, or refused.
FollowUp(m) ==
    /\ Origin = "ai" /\ open /\ m \in Messages \ handled
    /\ handled' = handled \union {m}
    /\ rows' = Proposed(rows, TRUE, <<"message", m>>, Asks[m])
    /\ UNCHANGED <<market, bars, recorded, banked, budget>>

-----------------------------------------------------------------------------
\* The terminal and what becomes of a command

First(k) ==
    /\ rows[k].status = "pending"
    /\ \A j \in Keys : rows[j].status = "pending" => rows[k].id <= rows[j].id

\* ClampStops: a stop inside the stops level goes to its edge.
Clamped(level) == Lesser(level, price - StopsLevel)

Becomes(k, status) == rows' = [rows EXCEPT ![k].status = status]

\* ModifyPosition: the stop is where it was asked for, or as near as the broker allows.
Modify(k) ==
    /\ First(k) /\ open
    /\ Clamped(rows[k].level) < price
    /\ stop' = Clamped(rows[k].level)
    /\ \/ Becomes(k, "done") /\ UNCHANGED lost
       \/ Becomes(k, "claimed") /\ lost < MaxLost /\ lost' = lost + 1
    /\ UNCHANGED <<open, price, bars, recorded, banked, handled, refusals, repeats, hand>>

\* The position is gone, the market is past the level, or the broker refuses.
Refuse(k) ==
    /\ First(k)
    /\ IF open /\ Clamped(rows[k].level) < price
       THEN refusals < MaxRefusals /\ refusals' = refusals + 1
       ELSE UNCHANGED refusals
    /\ Becomes(k, "resting")
    /\ UNCHANGED <<market, bars, recorded, banked, handled, lost, repeats, hand>>

\* The answer to a poll is lost.
PollLost(k) ==
    /\ First(k) /\ lost < MaxLost /\ lost' = lost + 1
    /\ Becomes(k, "claimed")
    /\ UNCHANGED <<market, bars, recorded, banked, handled, refusals, repeats, hand>>

\* The backoff of a failed row is over.
Rested(k) ==
    /\ rows[k].status = "resting" /\ Becomes(k, "failed")
    /\ UNCHANGED <<market, bars, recorded, banked, handled, budget>>

\* sweepExpired: a stale claim, or a copier's row past its 120 seconds.
Swept(k) ==
    /\ rows[k].status = "claimed" \/ (Origin = "ai" /\ rows[k].status = "pending")
    /\ Becomes(k, "expired")
    /\ UNCHANGED <<market, bars, recorded, banked, handled, budget>>

\* Mutant: a stop of 0 is taken for a price.
SnapshotOfNoStop ==
    /\ open /\ recorded # stop
    /\ recorded' = stop
    /\ UNCHANGED <<market, bars, banked, rows, handled, budget>>

\* The snapshot: refresh() takes the terminal's stop, if it has one.
Snapshot ==
    /\ open /\ stop # NoStop /\ recorded # stop
    /\ recorded' = stop
    /\ UNCHANGED <<market, bars, banked, rows, handled, budget>>

\* The opening report again: recordOpen writes the opening stop and an opened_at of now, so
\* the bars there have been are before it.
OpenedAgain ==
    /\ open /\ repeats < MaxRepeats /\ repeats' = repeats + 1
    /\ recorded' = -Risk /\ best' = NoBar /\ last' = NoBar /\ high' = NoBar
    /\ UNCHANGED <<market, banked, rows, handled, refusals, lost, hand>>

\* Somebody moves the stop in the terminal, or takes it off.
HandMove(s) ==
    /\ open /\ s \in Levels \union {NoStop} /\ s < price - StopsLevel
    /\ hand < MaxHand /\ hand' = hand + 1
    /\ stop' = s
    /\ UNCHANGED <<open, price, bars, recorded, banked, rows, handled, refusals, lost, repeats>>

-----------------------------------------------------------------------------
Next ==
    \/ \E p \in Levels : Move(p)
    \/ BarCloses
    \/ TradeManagerPass \/ RungFilled \/ CopierPass
    \/ \E m \in Messages : FollowUp(m)
    \/ \E k \in Keys : Modify(k) \/ Refuse(k) \/ PollLost(k) \/ Rested(k) \/ Swept(k)
    \/ Snapshot \/ OpenedAgain
    \/ \E s \in Levels \union {NoStop} : HandMove(s)

Spec == Init /\ [][Next]_vars

\* The scheduler runs the passes and the sweep, time passes for every row, and the terminal
\* polls: a batch holds every row that is pending, so none waits for ever behind another.
\* The market, the terminal's bars and its snapshots owe nothing.
Fairness ==
    /\ WF_vars(TradeManagerPass) /\ WF_vars(CopierPass)
    /\ \A k \in Keys : SF_vars(Modify(k) \/ Refuse(k)) /\ WF_vars(Rested(k)) /\ WF_vars(Swept(k))

FairSpec == Spec /\ Fairness
-----------------------------------------------------------------------------
(* Properties *)

\* "The stop is never loosened": a strategy's trail never moves the broker's stop away from
\* profit, however old the stop it compared its level with, as long as no other rule has
\* put in a word of its own.
TrailNeverLoosens == [][stop' < stop => hand' # hand \/ banked]_vars

\* No command puts the stop further away than the position was opened with, whatever a
\* provider asks for and whatever the engine knew of the stop.
RiskNeverWidened == hand = 0 => stop >= -Risk

\* R is the risk the position opened with: the copier's trail is never closer to the best
\* price than the configured multiple of it, however often the stop has been moved and read
\* back.  A message, a hand and a repeated report, which forgets the best price, are others.
KeepsDistance ==
    hand = 0 /\ repeats = 0 /\ handled = {} /\ stop > -Risk => stop <= best - TrailR * Risk

\* The trail gets there: the level behind the best price is reached to within a pip, unless
\* the position closes, the market comes back to it or goes further first, or a rung fills
\* and break-even has its say.
TrailFollows ==
    \A l \in (TrailTrigger - TrailDistance)..(Ceiling - TrailDistance) :
        (open /\ ~banked /\ best # NoBar /\ best >= TrailTrigger /\ best - TrailDistance = l)
            ~> \/ ~open \/ banked
               \/ stop > l - PipUnits \/ price <= l + StopsLevel \/ best > l + TrailDistance

\* Once the first rung is filled the stop gets to the entry or beyond, unless the position
\* closes or the market is back below the padded entry; a refusal or a loss only delays it.
RungProtects == (open /\ banked /\ best # NoBar) ~> (~open \/ stop >= 0 \/ price <= Offset)
=============================================================================
