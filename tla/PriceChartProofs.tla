---------------------------- MODULE PriceChartProofs ----------------------------
(***************************************************************************)
(* Proofs about PriceChart: what the chart shows once an answer is worked  *)
(* off, for any positions, symbols, timeframes and prices.                 *)
(***************************************************************************)
EXTENDS PriceChart, TLAPS

-----------------------------------------------------------------------------
\* What load() returns

\* Every answer keeps, or truly loads, its candles: a card that goes blank with other candles
\* than before goes blank because there are none.
Answers(a, w) ==
    /\ a.hasData => a.candles # NoBars
    /\ a.candles = w.candles \/ (a.candles # NoBars => a.hasData)

OneEach(S) == \A l, m \in S : l.of = m.of /\ l.title = m.title => l = m

\* What TypeOK says of the database, all that load() reads.
DatabaseOK ==
    /\ ready \in BOOLEAN /\ symbol \in Symbols
    /\ bars \in [Series -> Nat]
    /\ book \in [Positions -> [lots : Lots \union {0}, sl : Prices \union {Null}]]

LEMMA OnFileType ==
    ASSUME DatabaseOK, NEW tf \in Timeframes
    PROVE  OnFile(tf) \in Candles
BY DEF DatabaseOK, OnFile, Candles, Series, NoBars

LEMMA OverlaysType ==
    ASSUME DatabaseOK
    PROVE  /\ Overlays \in SUBSET Level
           /\ Entries \in SUBSET Marker
           /\ OneEach(Overlays)
<1>1. ASSUME NEW p \in Drawn
      PROVE  /\ p \in Positions
             /\ LevelsOf(p) \subseteq Level
             /\ \A l \in LevelsOf(p) : l.of = p
             /\ OneEach(LevelsOf(p))
             /\ [of |-> p, lots |-> book[p].lots] \in Marker
  BY <1>1 DEF DatabaseOK, Drawn, LevelsOf, Level, Marker, OneEach
<1>2. Overlays \in SUBSET Level
  BY <1>1 DEF Overlays
<1>3. Entries \in SUBSET Marker
  BY <1>1 DEF Entries
<1>4. ASSUME NEW l \in Overlays, NEW m \in Overlays, l.of = m.of, l.title = m.title
      PROVE  l = m
  <2>1. PICK p \in Drawn : l \in LevelsOf(p)
    BY <1>4 DEF Overlays
  <2>2. PICK q \in Drawn : m \in LevelsOf(q)
    BY <1>4 DEF Overlays
  <2>3. p = q
    BY <1>1, <1>4, <2>1, <2>2
  <2> QED
    BY <1>1, <1>4, <2>1, <2>2, <2>3 DEF OneEach
<1> QED
  BY <1>2, <1>3, <1>4 DEF OneEach

LEMMA LoadedType ==
    ASSUME DatabaseOK, NEW w \in Wire, OneEach(w.levels), w.hasData => w.candles # NoBars
    PROVE  /\ Loaded(w) \in Wire
           /\ Answers(Loaded(w), w)
           /\ OneEach(Loaded(w).levels)
<1>1. w.timeframe \in Timeframes
  BY DEF Wire
<1>2. OnFile(w.timeframe) \in Candles
  BY <1>1, OnFileType
<1>3. CASE ready
  BY <1>1, <1>2, <1>3, OverlaysType DEF Loaded, Wire, Answers
<1>4. CASE ~ready
  BY <1>4 DEF Loaded, Wire, Answers
<1> QED
  BY <1>3, <1>4

-----------------------------------------------------------------------------
\* What the script draws

LEMMA StraysType ==
    ASSUME NEW c \in Component, NEW what \in {"bars", "overlays"}
    PROVE  /\ Strays(c, what) \in SUBSET {"bars", "overlays"}
           /\ c.chart => Strays(c, what) = c.stray
           /\ what = "overlays" => ("bars" \in Strays(c, what) <=> "bars" \in c.stray)
BY DEF Strays, Component

LEMMA DrawLevelsDoes ==
    ASSUME NEW c \in Component, wire \in Wire, c.lines = c.priceLines
    PROVE  /\ DrawLevels(c) \in Component
           /\ c.series => DrawLevels(c) = [c EXCEPT !.lines = wire.levels,
                                                    !.priceLines = wire.levels,
                                                    !.stray = Strays(c, "overlays")]
           /\ ~c.series => DrawLevels(c) = c
<1>1. (c.lines \ c.priceLines) \union wire.levels = wire.levels
  OBVIOUS
<1>2. wire.levels \in SUBSET Level
  BY DEF Wire
<1> QED
  BY <1>1, <1>2, StraysType DEF DrawLevels, Component

LEMMA DrawMarkersDoes ==
    ASSUME NEW c \in Component, wire \in Wire
    PROVE  /\ DrawMarkers(c) \in Component
           /\ c.series => DrawMarkers(c) = [c EXCEPT !.marks = wire.markers, !.plugin = TRUE,
                                                     !.stray = Strays(c, "overlays")]
           /\ ~c.series => DrawMarkers(c) = c
<1>1. wire.markers \in SUBSET Marker
  BY DEF Wire
<1> QED
  BY <1>1, StraysType DEF DrawMarkers, Component

\* All is drawn anew, on the same chart.
Repainted(r, c) ==
    /\ r.bars = wire.candles /\ r.lines = wire.levels /\ r.priceLines = wire.levels
    /\ r.marks = wire.markers
    /\ r.chart = c.chart /\ r.series = c.series /\ r.observed = c.observed /\ r.stray = c.stray

LEMMA RepaintDoes ==
    ASSUME NEW c \in Component, wire \in Wire, c.lines = c.priceLines
    PROVE  /\ Repaint(c) \in Component
           /\ ~c.series \/ wire.candles = NoBars => Repaint(c) = c
           /\ c.series /\ c.chart /\ wire.candles # NoBars => Repainted(Repaint(c), c)
<1>1. CASE ~c.series \/ wire.candles = NoBars
  BY <1>1 DEF Repaint
<1>2. CASE c.series /\ wire.candles # NoBars
  <2> DEFINE d == SetData(c)
             e == DrawLevels(d)
             f == DrawMarkers(e)
  <2>1. /\ d \in Component /\ d.lines = d.priceLines /\ d.series
        /\ d = [c EXCEPT !.bars = wire.candles, !.stray = Strays(c, "bars")]
    BY <1>2, StraysType DEF SetData, Component, Wire
  <2> HIDE DEF d
  <2>2. /\ e \in Component /\ e.series
        /\ e = [d EXCEPT !.lines = wire.levels, !.priceLines = wire.levels,
                         !.stray = Strays(d, "overlays")]
    <3>1. e = [d EXCEPT !.lines = wire.levels, !.priceLines = wire.levels,
                        !.stray = Strays(d, "overlays")]
      BY <2>1, DrawLevelsDoes
    <3>2. e \in Component
      BY <2>1, DrawLevelsDoes
    <3> HIDE DEF e
    <3>3. e.series
      BY <2>1, <3>1 DEF Component
    <3> QED
      BY <3>1, <3>2, <3>3
  <2> HIDE DEF e
  <2>3. /\ f \in Component
        /\ f = [e EXCEPT !.marks = wire.markers, !.plugin = TRUE,
                         !.stray = Strays(e, "overlays")]
    BY <2>2, DrawMarkersDoes
  <2>4. Repaint(c) = f
    BY <1>2 DEF Repaint, d, e
  <2> HIDE DEF f
  <2>5. ASSUME c.chart PROVE Repainted(f, c)
    <3>1. /\ d.bars = wire.candles /\ d.stray = c.stray
          /\ d.chart = c.chart /\ d.series = c.series /\ d.observed = c.observed
      BY <2>1, <2>5, StraysType DEF Component
    <3>2. /\ e.bars = wire.candles /\ e.lines = wire.levels /\ e.priceLines = wire.levels
          /\ e.chart = c.chart /\ e.series = c.series /\ e.observed = c.observed
          /\ e.stray = c.stray
      <4>1. Strays(d, "overlays") = d.stray
        BY <2>1, <2>5, <3>1, StraysType
      <4> QED
        BY <2>1, <2>2, <3>1, <4>1 DEF Component
    <3>3. /\ f.bars = wire.candles /\ f.lines = wire.levels /\ f.priceLines = wire.levels
          /\ f.marks = wire.markers /\ f.chart = c.chart /\ f.series = c.series
          /\ f.observed = c.observed /\ f.stray = c.stray
      <4>1. Strays(e, "overlays") = e.stray
        BY <2>2, <2>5, <3>2, StraysType
      <4> QED
        BY <2>2, <2>3, <3>2, <4>1 DEF Component
    <3> QED
      BY <3>3 DEF Repainted
  <2> QED
    BY <1>2, <2>3, <2>4, <2>5
<1> QED
  BY <1>1, <1>2

-----------------------------------------------------------------------------
\* The invariant

\* Nothing is under way while callbacks are due.
OneRoundTrip ==
    /\ answer # NoAnswer => due = {} /\ request = NoTimeframe
    /\ request # NoTimeframe => due = {}
    /\ ~registered => "node" \in due

WireLoaded ==
    /\ wire.hasData => wire.candles # NoBars
    /\ OneEach(wire.levels)
    /\ answer # NoAnswer => Answers(answer, wire) /\ OneEach(answer.levels)

Kept ==
    /\ component.lines = component.priceLines
    /\ component.chart => component.series
    /\ component.observed <=> component.chart
    /\ OneEach(component.lines)

\* What is not due has been done; a callback due on a removed chart finds no bars.
Synced ==
    /\ "node" \notin due => (component.chart <=> wire.hasData)
    /\ component.chart =>
        /\ "candles" \in due \/ wire.candles \in {NoBars, component.bars}
        /\ "levels" \in due \/ component.lines = wire.levels
        /\ "markers" \in due \/ component.marks = wire.markers
    /\ "candles" \in due /\ (~component.chart \/ ~wire.hasData) => wire.candles = NoBars
    /\ "bars" \notin component.stray

IInv == TypeOK /\ OneRoundTrip /\ WireLoaded /\ Kept /\ Synced

LEMMA InitHolds ==
    ASSUME ChartAssumption, Init
    PROVE  IInv
<1>1. PICK tf \in Timeframes : wire = Loaded(Unloaded(tf))
  BY DEF Init
<1>2. Unloaded(tf) \in Wire /\ OneEach(Unloaded(tf).levels) /\ ~Unloaded(tf).hasData
  BY DEF Unloaded, Wire, Candles, OneEach
<1>3. Fresh \in Component
  BY DEF Fresh, Component, Candles
<1>4. DatabaseOK
  BY DEF Init, DatabaseOK
<1>5. wire \in Wire /\ OneEach(wire.levels) /\ (wire.hasData => wire.candles # NoBars)
  <2>1. Unloaded(tf).hasData => Unloaded(tf).candles # NoBars
    BY <1>2
  <2>2. Loaded(Unloaded(tf)).hasData => Loaded(Unloaded(tf)).candles # NoBars
    BY <1>2, <1>4, <2>1, LoadedType DEF Answers
  <2> QED
    BY <1>1, <1>2, <1>4, <2>1, <2>2, LoadedType
<1> QED
  BY <1>3, <1>4, <1>5
  DEF Init, DatabaseOK, IInv, TypeOK, OneRoundTrip, WireLoaded, Kept, Synced, Fresh, NoAnswer, NoTimeframe,
      OneEach

\* The parts of the invariant speak of the card only while its properties and the component
\* stay as they are.
LEMMA DatabaseStep ==
    ASSUME IInv, TypeOK', UNCHANGED <<wire, request, answer, registered, due, component>>
    PROVE  IInv'
BY DEF IInv, OneRoundTrip, WireLoaded, Kept, Synced

LEMMA RequestStep ==
    ASSUME IInv, Poll \/ (\E tf \in Timeframes : SelectTimeframe(tf)) \/ Lose
    PROVE  IInv'
BY DEF IInv, TypeOK, OneRoundTrip, WireLoaded, Kept, Synced, Poll, SelectTimeframe, Lose, Idle,
       database, bounds, Wire, NoTimeframe

LEMMA ServeStep ==
    ASSUME ChartAssumption, IInv, Serve
    PROVE  IInv'
<1> DEFINE w == [wire EXCEPT !.timeframe = request]
<1>1. /\ w \in Wire /\ w.candles = wire.candles /\ OneEach(w.levels)
      /\ w.hasData => w.candles # NoBars
  BY DEF IInv, TypeOK, WireLoaded, Serve, Wire, OneEach, NoTimeframe
<1>2. answer' = Loaded(w)
  BY DEF Serve
<1>3. answer' \in Wire /\ Answers(answer', wire) /\ OneEach(answer'.levels)
  <2>1. DatabaseOK
    BY DEF IInv, TypeOK, DatabaseOK
  <2>2. Answers(Loaded(w), w) => Answers(Loaded(w), wire)
    BY <1>1 DEF Answers
  <2> HIDE DEF w
  <2> QED
    BY <1>1, <1>2, <2>1, <2>2, LoadedType
<1> QED
  BY <1>3
  DEF IInv, TypeOK, OneRoundTrip, WireLoaded, Kept, Synced, Serve, database, bounds, Answers

LEMMA ReceiveStep ==
    ASSUME IInv, Receive
    PROVE  IInv'
<1>1. /\ answer \in Wire /\ Answers(answer, wire) /\ OneEach(answer.levels)
      /\ due = {} /\ request = NoTimeframe
  BY DEF IInv, TypeOK, OneRoundTrip, WireLoaded, Receive
<1>2. /\ wire' = answer /\ answer' = NoAnswer /\ component' = component
      /\ due' = {k \in Watched : component.chart /\ answer[k] # wire[k]} \union {"node"}
  BY DEF Receive
<1>3. /\ "candles" \in due' <=> component.chart /\ answer.candles # wire.candles
      /\ "levels" \in due' <=> component.chart /\ answer.levels # wire.levels
      /\ "markers" \in due' <=> component.chart /\ answer.markers # wire.markers
      /\ "node" \in due'
      /\ due' \subseteq Watched \union {"node"}
  BY <1>2 DEF Watched
<1>4. TypeOK'
  BY <1>1, <1>2, <1>3 DEF IInv, TypeOK, Receive, database, bounds
<1>5. OneRoundTrip' /\ WireLoaded' /\ Kept'
  BY <1>1, <1>2, <1>3
  DEF IInv, OneRoundTrip, WireLoaded, Kept, Receive, Answers, OneEach, NoAnswer
<1>6. Synced'
  BY <1>1, <1>2, <1>3 DEF IInv, WireLoaded, Kept, Synced, Answers
<1> QED
  BY <1>4, <1>5, <1>6 DEF IInv

LEMMA CallbackStep ==
    ASSUME IInv, WatchCandles \/ WatchLevels \/ WatchMarkers
    PROVE  IInv'
<1> USE DEF IInv
<1>1. component \in Component /\ wire \in Wire /\ component.lines = component.priceLines
  BY DEF TypeOK, Kept
<1>2. CASE WatchCandles
  <2>1. "candles" \in due /\ due' = due \ {"candles"} /\ component' = Repaint(component)
    BY <1>2 DEF WatchCandles
  <2>2. TypeOK' /\ OneRoundTrip' /\ WireLoaded'
    BY <1>1, <1>2, <2>1, RepaintDoes
    DEF WatchCandles, TypeOK, OneRoundTrip, WireLoaded, database, bounds
  <2>3. CASE ~component.series \/ wire.candles = NoBars
    <3>1. component' = component
      BY <1>1, <2>1, <2>3, RepaintDoes
    <3> QED
      BY <1>2, <2>1, <2>2, <2>3, <3>1 DEF WatchCandles, Kept, Synced
  <2>4. CASE component.series /\ wire.candles # NoBars
    <3>1. component.chart /\ wire.hasData
      BY <2>1, <2>4 DEF Synced
    <3>2. Repainted(component', component)
      BY <1>1, <2>1, <2>4, <3>1, RepaintDoes
    <3> QED
      BY <1>2, <2>1, <2>2, <3>1, <3>2 DEF Repainted, WatchCandles, WireLoaded, Kept, Synced
  <2> QED
    BY <2>2, <2>3, <2>4
<1>3. CASE WatchLevels
  <2>1. due' = due \ {"levels"} /\ component' = DrawLevels(component)
    BY <1>3 DEF WatchLevels
  <2>2. TypeOK' /\ OneRoundTrip' /\ WireLoaded'
    BY <1>1, <1>3, <2>1, DrawLevelsDoes
    DEF WatchLevels, TypeOK, OneRoundTrip, WireLoaded, database, bounds
  <2>3. CASE ~component.series
    <3>1. component' = component
      BY <1>1, <2>1, <2>3, DrawLevelsDoes
    <3> QED
      BY <1>3, <2>1, <2>2, <2>3, <3>1 DEF WatchLevels, Kept, Synced
  <2>4. CASE component.series
    <3>1. component' = [component EXCEPT !.lines = wire.levels, !.priceLines = wire.levels,
                                              !.stray = Strays(component, "overlays")]
      BY <1>1, <2>1, <2>4, DrawLevelsDoes
    <3>2. /\ component'.chart = component.chart /\ component'.series = component.series
          /\ component'.observed = component.observed
          /\ "bars" \in component'.stray <=> "bars" \in component.stray
          /\ component'.bars = component.bars /\ component'.marks = component.marks
          /\ component'.lines = wire.levels /\ component'.priceLines = wire.levels
      BY <1>1, <3>1, StraysType DEF Component
    <3> QED
      BY <1>3, <2>1, <2>2, <3>2 DEF WatchLevels, WireLoaded, Kept, Synced
  <2> QED
    BY <2>3, <2>4
<1>4. CASE WatchMarkers
  <2>1. due' = due \ {"markers"} /\ component' = DrawMarkers(component)
    BY <1>4 DEF WatchMarkers
  <2>2. TypeOK' /\ OneRoundTrip' /\ WireLoaded'
    BY <1>1, <1>4, <2>1, DrawMarkersDoes
    DEF WatchMarkers, TypeOK, OneRoundTrip, WireLoaded, database, bounds
  <2>3. CASE ~component.series
    <3>1. component' = component
      BY <1>1, <2>1, <2>3, DrawMarkersDoes
    <3> QED
      BY <1>4, <2>1, <2>2, <2>3, <3>1 DEF WatchMarkers, Kept, Synced
  <2>4. CASE component.series
    <3>1. component' = [component EXCEPT !.marks = wire.markers, !.plugin = TRUE,
                                              !.stray = Strays(component, "overlays")]
      BY <1>1, <2>1, <2>4, DrawMarkersDoes
    <3>2. /\ component'.chart = component.chart /\ component'.series = component.series
          /\ component'.observed = component.observed
          /\ "bars" \in component'.stray <=> "bars" \in component.stray
          /\ component'.bars = component.bars /\ component'.marks = wire.markers
          /\ component'.lines = component.lines
          /\ component'.priceLines = component.priceLines
      BY <1>1, <3>1, StraysType DEF Component
    <3> QED
      BY <1>4, <2>1, <2>2, <3>2 DEF WatchMarkers, Kept, Synced
  <2> QED
    BY <2>3, <2>4
<1> QED
  BY <1>2, <1>3, <1>4

LEMMA MorphStep ==
    ASSUME IInv, Morph
    PROVE  IInv'
<1> USE DEF IInv
<1>1. component \in Component /\ wire \in Wire /\ Fresh \in Component
  BY DEF TypeOK, Fresh, Component, Candles
<1>2. /\ registered /\ due' = due \ {"node"}
      /\ UNCHANGED <<database, wire, request, answer, registered, bounds>>
  BY DEF Morph
<1>3. OneRoundTrip' /\ WireLoaded'
  BY <1>2 DEF OneRoundTrip, WireLoaded, Answers, OneEach
<1>4. CASE wire.hasData /\ ~component.chart
  <2> DEFINE c == [Fresh EXCEPT !.chart = TRUE, !.series = TRUE]
  <2>1. c \in Component /\ c.lines = c.priceLines /\ c.series /\ c.chart /\ c.stray = {}
    BY <1>1 DEF Fresh, Component
  <2>2. wire.candles # NoBars
    BY <1>4 DEF WireLoaded
  <2>3. component' = [Repaint(c) EXCEPT !.observed = TRUE]
    BY <1>4 DEF Morph, Mounted, Build
  <2>4. Repainted(Repaint(c), c) /\ Repaint(c) \in Component
    BY <1>1, <2>1, <2>2, RepaintDoes
  <2> HIDE DEF c
  <2>5. /\ component' \in Component
        /\ component'.chart /\ component'.series /\ component'.observed /\ component'.stray = {}
        /\ component'.bars = wire.candles
        /\ component'.lines = wire.levels /\ component'.priceLines = wire.levels
        /\ component'.marks = wire.markers
    BY <2>1, <2>3, <2>4 DEF Repainted, Component
  <2> QED
    BY <1>2, <1>3, <1>4, <2>5 DEF TypeOK, WireLoaded, Kept, Synced, database, bounds
<1>5. CASE ~wire.hasData /\ component.chart
  <2>1. component' = [component EXCEPT !.chart = FALSE, !.observed = FALSE]
    BY <1>5 DEF Morph, Destroyed
  <2>2. /\ component' \in Component
        /\ ~component'.chart /\ ~component'.observed /\ component'.stray = component.stray
        /\ component'.lines = component.lines /\ component'.priceLines = component.priceLines
    BY <1>1, <2>1 DEF Component
  <2> QED
    BY <1>2, <1>3, <1>5, <2>2 DEF TypeOK, Kept, Synced, database, bounds
<1>6. CASE wire.hasData = component.chart
  <2>1. component' = component
    BY <1>1, <1>6 DEF Morph, Component, Wire
  <2> QED
    BY <1>2, <1>3, <1>6, <2>1 DEF TypeOK, Kept, Synced, database, bounds
<1> QED
  BY <1>1, <1>4, <1>5, <1>6 DEF Wire, Component

LEMMA NextHolds ==
    ASSUME ChartAssumption, IInv, [Next]_vars
    PROVE  IInv'
<1>1. ASSUME NEW s \in Series, NewBar(s) PROVE IInv'
  <2>1. TypeOK'
    BY <1>1 DEF IInv, TypeOK, NewBar, Changes
  <2> QED
    BY <1>1, <2>1, DatabaseStep DEF NewBar
<1>2. ASSUME NEW p \in Positions, BookChanges(p) PROVE IInv'
  <2>1. TypeOK'
    BY <1>2 DEF IInv, TypeOK, BookChanges, Changes
  <2> QED
    BY <1>2, <2>1, DatabaseStep DEF BookChanges
<1>3. ASSUME SetUpChanges PROVE IInv'
  <2>1. TypeOK'
    BY <1>3 DEF IInv, TypeOK, SetUpChanges, Changes
  <2> QED
    BY <1>3, <2>1, DatabaseStep DEF SetUpChanges
<1>4. ASSUME AlpineInit PROVE IInv'
  BY <1>4 DEF IInv, TypeOK, OneRoundTrip, WireLoaded, Kept, Synced, AlpineInit, database, bounds
<1>5. ASSUME UNCHANGED vars PROVE IInv'
  <2>1. TypeOK'
    BY <1>5 DEF IInv, TypeOK, vars, database, bounds
  <2> QED
    BY <1>5, <2>1, DatabaseStep DEF vars
<1> QED
  BY <1>1, <1>2, <1>3, <1>4, <1>5, RequestStep, ServeStep, ReceiveStep, CallbackStep, MorphStep
  DEF Next

LEMMA Invariance == Spec => []IInv
<1>1. Init => IInv
  BY InitHolds, ChartAssumption
<1>2. IInv /\ [Next]_vars => IInv'
  BY NextHolds, ChartAssumption
<1> QED
  BY <1>1, <1>2, PTL DEF Spec

-----------------------------------------------------------------------------
\* The theorems

\* Type correctness of the card, its properties on the way, and the script's state.
THEOREM ChartType == Spec => []TypeOK
BY Invariance, PTL DEF IInv

\* price-chart.js, worked off in any order after any loss or selection, shows the answer its
\* page holds: a chart exactly if there are data, and no line, marker or bar of an earlier one.
THEOREM ChartShowsItsAnswer == Spec => []ShowsItsAnswer
<1>1. IInv => ShowsItsAnswer
  BY DEF IInv, TypeOK, WireLoaded, Kept, Synced, ShowsItsAnswer
<1> QED
  BY <1>1, Invariance, PTL

\* drawLevels() never leaves a position with two stops, not even between two callbacks.
THEOREM ChartDrawsOneStop == Spec => []OneStopDrawn
<1>1. IInv => OneStopDrawn
  BY DEF IInv, Kept, OneStopDrawn, OneEach
<1> QED
  BY <1>1, Invariance, PTL

\* repaint() never sets bars on, nor fits, a chart that destroy() has removed, although it may
\* run after destroy().
THEOREM ChartRepaintsNoRemovedChart == Spec => []NeverRepaintsRemovedChart
<1>1. IInv => NeverRepaintsRemovedChart
  BY DEF IInv, Synced, NeverRepaintsRemovedChart
<1> QED
  BY <1>1, Invariance, PTL
=============================================================================
