------------------------------- MODULE PriceChart -------------------------------
(***************************************************************************)
(* The dashboard's price chart: the candles of one series and, on them, a  *)
(* line for every level of every live position.  The Livewire component    *)
(* (PriceChartCard) reads them from the database on a poll; its properties *)
(* are held by the page, which sends them along with every request.  The   *)
(* Alpine component (price-chart.js) draws them, and is told by a watcher  *)
(* per property, after a round trip, that one of them has changed.         *)
(*                                                                         *)
(* Livewire and Alpine are outside: a component has one request under way  *)
(* at a time; the watchers' callbacks and the morphing of the page run     *)
(* after the properties are set, in an order nothing here relies on, and   *)
(* before the next answer.  A callback that is due when its component is   *)
(* removed still runs.  The page's button, poll and event are one request. *)
(*                                                                         *)
(* A position is what the chart reads of its row: the lots that are left   *)
(* (none once it is closed) and its stop, which may be null; the three     *)
(* targets are levels like the stop.  Colours, the header's price and the  *)
(* resizing, which changes nothing kept here, are left out.                *)
(***************************************************************************)
EXTENDS Naturals

CONSTANTS
    Positions,
    Symbols, SymbolOf,   \* what a broker account calls its instrument, and a position's
    Timeframes,
    Prices,              \* of a stop
    Null,                \* no stop
    Lots,                \* of a live position
    MaxNews,             \* bound: changes of the database
    MaxClicks,           \* bound: timeframes selected
    MaxLost              \* bound: requests without an answer

ASSUME ChartAssumption ==
    /\ SymbolOf \in [Positions -> Symbols]
    /\ Null \notin Prices /\ 0 \notin Lots
    /\ "none" \notin Timeframes
    /\ MaxNews \in Nat /\ MaxClicks \in Nat /\ MaxLost \in Nat

VARIABLES
    \* the database
    ready,      \* there are a strategy and an account
    symbol,     \* what that account calls the strategy's instrument
    bars,       \* [Symbols \X Timeframes -> number of bars on file]
    book,       \* [Positions -> lots left and stop]
    \* Livewire
    wire,       \* the component's properties, as the page holds them
    request,    \* the timeframe asked for, or NoTimeframe
    answer,     \* the properties on their way back, or NoAnswer
    \* Alpine
    registered, \* the script has told Alpine what the template's "priceChart" is
    due,        \* what is still to run for the answer taken in last
    component,
    news, clicks, lost

database == <<ready, symbol, bars, book>>
bounds   == <<news, clicks, lost>>
vars     == <<database, wire, request, answer, registered, due, component, bounds>>

NoTimeframe == "none"
Series   == Symbols \X Timeframes
NoBars   == <<>>
Candles  == {NoBars} \union (Series \X (Nat \ {0}))
Level    == [of : Positions, title : {"Entry", "SL"}, price : Prices \union {Null}]
Marker   == [of : Positions, lots : Lots]
Wire     == [timeframe : Timeframes, hasData : BOOLEAN, candles : Candles,
             levels : SUBSET Level, markers : SUBSET Marker]
NoAnswer == [timeframe |-> NoTimeframe]

Watched  == {"candles", "levels", "markers"}

\* chart, series, priceLines and markersPlugin are the script's; series is TRUE once one was added.
\* bars, lines and marks are what the series shows; stray: what was drawn since the chart was
\* removed, on the series it leaves.
Component == [chart : BOOLEAN, series : BOOLEAN, priceLines : SUBSET Level, plugin : BOOLEAN,
              observed : BOOLEAN, bars : Candles, lines : SUBSET Level, marks : SUBSET Marker,
              stray : SUBSET {"bars", "overlays"}]
Fresh     == [chart |-> FALSE, series |-> FALSE, priceLines |-> {}, plugin |-> FALSE,
              observed |-> FALSE, bars |-> NoBars, lines |-> {}, marks |-> {}, stray |-> {}]

TypeOK ==
    /\ ready \in BOOLEAN /\ symbol \in Symbols
    /\ bars \in [Series -> Nat]
    /\ book \in [Positions -> [lots : Lots \union {0}, sl : Prices \union {Null}]]
    /\ wire \in Wire
    /\ request \in Timeframes \union {NoTimeframe}
    /\ answer \in Wire \union {NoAnswer}
    /\ registered \in BOOLEAN
    /\ due \subseteq Watched \union {"node"}
    /\ component \in Component
    /\ news \in Nat /\ clicks \in Nat /\ lost \in Nat

-----------------------------------------------------------------------------
\* The server: PriceChartCard

OnFile(tf) ==
    IF bars[<<symbol, tf>>] = 0 THEN NoBars ELSE <<<<symbol, tf>>, bars[<<symbol, tf>>]>>

Drawn == {p \in Positions : book[p].lots # 0 /\ SymbolOf[p] = symbol}

LevelsOf(p) ==
    {[of |-> p, title |-> "Entry", price |-> Null]} \union
    (IF book[p].sl = Null THEN {} ELSE {[of |-> p, title |-> "SL", price |-> book[p].sl]})

Overlays == UNION {LevelsOf(p) : p \in Drawn}
Entries  == {[of |-> p, lots |-> book[p].lots] : p \in Drawn}

\* Mutant: a poll that brings no new bar changes nothing.
LoadedIfNewBars(w) ==
    IF ready /\ OnFile(w.timeframe) # w.candles
    THEN [timeframe |-> w.timeframe, hasData |-> OnFile(w.timeframe) # NoBars,
          candles |-> OnFile(w.timeframe), levels |-> Overlays, markers |-> Entries]
    ELSE [w EXCEPT !.hasData = ready /\ w.candles # NoBars]

\* load(), on the properties the page sent.
Loaded(w) ==
    IF ready
    THEN [timeframe |-> w.timeframe, hasData |-> OnFile(w.timeframe) # NoBars,
          candles |-> OnFile(w.timeframe), levels |-> Overlays, markers |-> Entries]
    ELSE [w EXCEPT !.hasData = FALSE]

Unloaded(tf) ==
    [timeframe |-> tf, hasData |-> FALSE, candles |-> NoBars, levels |-> {}, markers |-> {}]

-----------------------------------------------------------------------------
\* The page: price-chart.js

Strays(c, what) == IF c.chart THEN c.stray ELSE c.stray \union {what}

\* Mutant: lines are drawn over those that are there.
DrawLevelsOnTop(c) ==
    IF ~c.series THEN c
    ELSE [c EXCEPT !.lines = @ \union wire.levels, !.priceLines = wire.levels,
                   !.stray = Strays(c, "overlays")]

\* The overlays ask for a series, and not for a chart.
DrawLevels(c) ==
    IF ~c.series THEN c
    ELSE [c EXCEPT !.lines = (@ \ c.priceLines) \union wire.levels, !.priceLines = wire.levels,
                   !.stray = Strays(c, "overlays")]

DrawMarkers(c) ==
    IF ~c.series THEN c
    ELSE [c EXCEPT !.marks = wire.markers, !.plugin = TRUE, !.stray = Strays(c, "overlays")]

SetData(c) == [c EXCEPT !.bars = wire.candles, !.stray = Strays(c, "bars")]

\* Mutants: markers are left to their watcher; an empty window is drawn too.
RepaintWithoutMarkers(c) ==
    IF ~c.series \/ wire.candles = NoBars THEN c ELSE DrawLevels(SetData(c))
RepaintAlways(c) ==
    IF ~c.series THEN c ELSE DrawMarkers(DrawLevels(SetData(c)))

\* Nothing is drawn without bars; fitContent() would fail on a chart that is null.
Repaint(c) ==
    IF ~c.series \/ wire.candles = NoBars THEN c ELSE DrawMarkers(DrawLevels(SetData(c)))

Build(c) == Repaint([c EXCEPT !.chart = TRUE, !.series = TRUE])

\* init() of a new component: the watchers are there from now on.
Mounted == [Build(Fresh) EXCEPT !.observed = TRUE]

\* The series keeps what it shows, out of sight.
Destroyed(c) == [c EXCEPT !.chart = FALSE, !.observed = FALSE]

-----------------------------------------------------------------------------
\* The page is served with the properties mount() loaded, and Alpine starts.

Init ==
    /\ ready \in BOOLEAN /\ symbol \in Symbols
    /\ bars \in [Series -> {0, 1}]
    /\ book \in [Positions -> [lots : Lots \union {0}, sl : Prices \union {Null}]]
    /\ \E tf \in Timeframes : wire = Loaded(Unloaded(tf))
    /\ request = NoTimeframe /\ answer = NoAnswer
    /\ registered = FALSE /\ due = {"node"}
    /\ component = Fresh
    /\ news = 0 /\ clicks = 0 /\ lost = 0

\* alpine:init, heard before Alpine looks at the page for the first time.
AlpineInit ==
    /\ ~registered
    /\ registered' = TRUE
    /\ UNCHANGED <<database, wire, request, answer, due, component, bounds>>

Changes == news < MaxNews /\ news' = news + 1

NewBar(s) ==
    /\ Changes
    /\ bars' = [bars EXCEPT ![s] = @ + 1]
    /\ UNCHANGED <<ready, symbol, book, wire, request, answer, registered, due, component, clicks,
                   lost>>

\* An opening, a partial or last close, a stop that is moved or found missing.
BookChanges(p) ==
    /\ Changes
    /\ \E lots \in Lots \union {0}, sl \in Prices \union {Null} :
        book' = [book EXCEPT ![p] = [lots |-> lots, sl |-> sl]]
    /\ UNCHANGED <<ready, symbol, bars, wire, request, answer, registered, due, component, clicks,
                   lost>>

\* A strategy or account comes or goes, or another account reports.
SetUpChanges ==
    /\ Changes
    /\ ready' \in BOOLEAN /\ symbol' \in Symbols
    /\ UNCHANGED <<bars, book, wire, request, answer, registered, due, component, clicks, lost>>

Idle == request = NoTimeframe /\ answer = NoAnswer /\ due = {}

Poll ==
    /\ Idle
    /\ request' = wire.timeframe
    /\ UNCHANGED <<database, wire, answer, registered, due, component, bounds>>

SelectTimeframe(tf) ==
    /\ Idle /\ clicks < MaxClicks
    /\ clicks' = clicks + 1
    /\ request' = tf
    /\ UNCHANGED <<database, wire, answer, registered, due, component, news, lost>>

Serve ==
    /\ request # NoTimeframe
    /\ answer' = Loaded([wire EXCEPT !.timeframe = request])
    /\ request' = NoTimeframe
    /\ UNCHANGED <<database, wire, registered, due, component, bounds>>

\* The request or its answer is lost: the page keeps the properties it has.
Lose ==
    /\ lost < MaxLost /\ lost' = lost + 1
    /\ request # NoTimeframe \/ answer # NoAnswer
    /\ request' = NoTimeframe /\ answer' = NoAnswer
    /\ UNCHANGED <<database, wire, registered, due, component, news, clicks>>

\* The watchers of a component that is there see what changed; the template has a node for
\* it if, and only if, there are data.
Receive ==
    /\ answer # NoAnswer
    /\ wire' = answer
    /\ answer' = NoAnswer
    /\ due' = {k \in Watched : component.chart /\ answer[k] # wire[k]} \union {"node"}
    /\ UNCHANGED <<database, request, registered, component, bounds>>

WatchCandles ==
    /\ "candles" \in due /\ due' = due \ {"candles"}
    /\ component' = Repaint(component)
    /\ UNCHANGED <<database, wire, request, answer, registered, bounds>>

WatchLevels ==
    /\ "levels" \in due /\ due' = due \ {"levels"}
    /\ component' = DrawLevels(component)
    /\ UNCHANGED <<database, wire, request, answer, registered, bounds>>

WatchMarkers ==
    /\ "markers" \in due /\ due' = due \ {"markers"}
    /\ component' = DrawMarkers(component)
    /\ UNCHANGED <<database, wire, request, answer, registered, bounds>>

\* Livewire puts the node in, takes it out, or (wire:ignore) leaves it as it is.
Morph ==
    /\ registered /\ "node" \in due /\ due' = due \ {"node"}
    /\ component' = CASE wire.hasData /\ ~component.chart -> Mounted
                      [] ~wire.hasData /\ component.chart -> Destroyed(component)
                      [] OTHER -> component
    /\ UNCHANGED <<database, wire, request, answer, registered, bounds>>

Next ==
    \/ \E s \in Series : NewBar(s)
    \/ \E p \in Positions : BookChanges(p)
    \/ SetUpChanges
    \/ AlpineInit
    \/ Poll
    \/ \E tf \in Timeframes : SelectTimeframe(tf)
    \/ Serve \/ Lose \/ Receive
    \/ WatchCandles \/ WatchLevels \/ WatchMarkers \/ Morph

Spec == Init /\ [][Next]_vars

\* The page polls, the server answers, and the browser runs what is queued.
FairSpec ==
    /\ Spec
    /\ WF_vars(AlpineInit) /\ WF_vars(Poll) /\ WF_vars(Serve) /\ WF_vars(Receive)
    /\ WF_vars(WatchCandles) /\ WF_vars(WatchLevels) /\ WF_vars(WatchMarkers) /\ WF_vars(Morph)

-----------------------------------------------------------------------------
\* Properties

\* Once an answer has been worked off, in whatever order, the chart is there exactly if there
\* are data, and shows that answer: its bars, its markers, and no line of an earlier one.
ShowsItsAnswer ==
    due = {} =>
        /\ component.chart <=> wire.hasData
        /\ component.chart => /\ component.bars = wire.candles
                              /\ component.lines = wire.levels
                              /\ component.marks = wire.markers
        /\ component.observed <=> component.chart

\* A position never has two stops on the chart, not even between two callbacks: drawLevels()
\* takes down the lines it put up before it draws.
OneStopDrawn ==
    \A l, m \in component.lines : l.of = m.of /\ l.title = m.title => l = m

\* repaint() never sets bars on, nor fits, a chart that destroy() removed: it can only be due
\* after destroy() when the card went without bars, and then it returns before it draws.  The
\* overlays' own watchers do draw on what is left of one.
NeverRepaintsRemovedChart == "bars" \notin component.stray

\* Whatever was lost or selected on the way, the chart comes to show the book and the bars
\* as they are, and stays with them until they change.
View == IF ready THEN OnFile(wire.timeframe) ELSE NoBars

CatchesUp ==
    <>[](/\ component.chart <=> View # NoBars
         /\ component.chart => /\ component.bars = View
                               /\ component.lines = Overlays
                               /\ component.marks = Entries)
=============================================================================
