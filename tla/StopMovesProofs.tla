---------------------------- MODULE StopMovesProofs ----------------------------
(***************************************************************************)
(* Theorems about StopMoves, for any market range, distances, keys,        *)
(* messages and bounds.                                                    *)
(***************************************************************************)
EXTENDS StopMoves, FiniteSetTheorems, TLAPS

LEMMA Numbers ==
    /\ Floor \in Int /\ Ceiling \in Nat /\ StopsLevel \in Nat /\ Risk \in Nat /\ Risk > 0
    /\ Floor <= -Risk /\ Offset \in 0..Ceiling /\ TrailDistance \in Nat
    /\ Levels \subseteq Stops /\ 0 \in Levels /\ -Risk \in Levels
    /\ Stops \subseteq Int /\ NoStop \in Int /\ NoBar \in Int
    /\ TrailR * Risk \in Nat
<1>1. TrailR * Risk \in Nat
  BY StopsAssumption
<1> QED
  BY <1>1, StopsAssumption DEF Floor, Levels, Stops, NoStop, NoBar

LEMMA BucketsFinite == IsFiniteSet(Buckets)
<1>1. \A a \in Int : Bucket(a) \in Int
  BY StopsAssumption DEF Bucket
<1> QED
  BY <1>1, Numbers, StopsAssumption, FS_Interval DEF Buckets

LEMMA KeysFinite == IsFiniteSet(Keys)
<1>1. IsFiniteSet({"trail"} \X Buckets) /\ IsFiniteSet({"protect"} \X Buckets)
  BY BucketsFinite, FS_Singleton, FS_Product
<1>2. IsFiniteSet({"message"} \X Messages)
  BY StopsAssumption, FS_Singleton, FS_Product
<1>3. IsFiniteSet({<<"break_even", 0>>})
  BY FS_Singleton
<1> QED
  BY <1>1, <1>2, <1>3, FS_Union DEF Keys

LEMMA NewId ==
    ASSUME NEW table
    PROVE  IsFiniteSet(Created(table)) /\ NextId(table) \in Nat
<1>1. Created(table) \subseteq Keys
  BY DEF Created
<1> QED
  BY <1>1, KeysFinite, FS_Subset, FS_CardinalityType DEF NextId

\* Sending a level keeps the table a table.
LEMMA SentRows ==
    ASSUME NEW table \in [Keys -> Row], NEW key, NEW level \in Stops
    PROVE  Sent(table, key, level) \in [Keys -> Row]
<1>1. NextId(table) \in Nat
  BY NewId
<1>2. \A n \in Nat : [id |-> n, status |-> "pending", level |-> level] \in Row
  BY DEF Row, Statuses
<1>3. \A k \in Keys : [table[k] EXCEPT !.status = "pending", !.level = level] \in Row
  BY DEF Row, Statuses
<1>4. CASE table[key].status = "absent"
  BY <1>1, <1>2, <1>4 DEF Sent
<1>5. CASE table[key].status \in {"failed", "expired"}
  <2>1. Sent(table, key, level)
          = [table EXCEPT ![key] = [table[key] EXCEPT !.status = "pending", !.level = level]]
    BY <1>5 DEF Sent
  <2> QED
    BY <1>3, <2>1
<1>6. CASE table[key].status \notin {"absent", "failed", "expired"}
  BY <1>6 DEF Sent
<1> QED
  BY <1>4, <1>5, <1>6

LEMMA ProposedRows ==
    ASSUME TypeOK, NEW table \in [Keys -> Row], NEW wanted \in BOOLEAN, NEW key,
           NEW level \in Int, level <= Ceiling
    PROVE  Proposed(table, wanted, key, level) \in [Keys -> Row]
<1>1. CASE wanted /\ Tightens(level)
  <2>1. level \in Stops
    BY <1>1, Numbers DEF Tightens, TypeOK, Stops
  <2> QED
    BY <1>1, <2>1, SentRows DEF Proposed
<1>2. CASE ~(wanted /\ Tightens(level))
  BY <1>2 DEF Proposed
<1> QED
  BY <1>1, <1>2

LEMMA Targets ==
    ASSUME TypeOK
    PROVE  /\ BreakEven \in Int /\ BreakEven <= Ceiling
           /\ best - TrailDistance \in Int /\ best - TrailDistance <= Ceiling
           /\ best - TrailR * Risk \in Int /\ best - TrailR * Risk <= Ceiling
<1>1. best \in Int /\ best <= Ceiling
  BY Numbers, StopsAssumption DEF TypeOK, NoBar, Levels, Floor
<1> QED
  BY <1>1, Numbers DEF BreakEven

LEMMA BecomesRows ==
    ASSUME TypeOK, NEW k \in Keys, NEW status \in Statuses, Becomes(k, status)
    PROVE  rows' \in [Keys -> Row]
<1>1. [rows[k] EXCEPT !.status = status] \in Row
  BY DEF TypeOK, Row
<1> QED
  BY <1>1 DEF Becomes, TypeOK

LEMMA TypeInit == Init => TypeOK
<1> SUFFICES ASSUME Init
             PROVE  TypeOK
  OBVIOUS
<1>1. 0 \in Stops
  BY Numbers
<1>2. Absent \in Row
  BY <1>1 DEF Absent, Row, Statuses
<1>3. rows \in [Keys -> Row]
  BY <1>2 DEF Init
<1> QED
  BY <1>3, Numbers DEF Init, TypeOK

LEMMA TypeNext == TypeOK /\ [Next]_vars => TypeOK'
<1> SUFFICES ASSUME TypeOK, [Next]_vars
             PROVE  TypeOK'
  OBVIOUS
<1> USE Numbers
<1>1. ASSUME NEW p \in Levels, Move(p)
      PROVE  TypeOK'
  <2>1. high' \in Levels \union {NoBar} /\ open' \in BOOLEAN
    BY <1>1 DEF Move, TypeOK, Greater
  <2> QED
    BY <1>1, <2>1 DEF Move, TypeOK, budget
<1>2. ASSUME BarCloses
      PROVE  TypeOK'
  <2>1. best' \in Levels \union {NoBar}
    BY <1>2 DEF BarCloses, TypeOK, Greater, NoBar, Levels
  <2> QED
    BY <1>2, <2>1 DEF BarCloses, TypeOK, market, budget
<1>3. ASSUME TradeManagerPass
      PROVE  TypeOK'
  <2> DEFINE first == Proposed(rows, banked, <<"break_even", 0>>, BreakEven)
  <2>1. first \in [Keys -> Row]
    BY Targets, ProposedRows DEF TypeOK
  <2>2. rows' \in [Keys -> Row]
    BY <1>3, <2>1, Targets, ProposedRows DEF TradeManagerPass
  <2> QED
    BY <1>3, <2>2 DEF TradeManagerPass, TypeOK, market, bars, budget
<1>4. ASSUME RungFilled
      PROVE  TypeOK'
  BY <1>4 DEF RungFilled, TypeOK, market, bars, budget
<1>5. ASSUME CopierPass
      PROVE  TypeOK'
  <2> DEFINE target == IF TrailR > 0 THEN best - TrailR * OpeningRisk ELSE BreakEven
  <2>1. target \in Int /\ target <= Ceiling
    BY Targets DEF OpeningRisk
  <2>2. rows' \in [Keys -> Row]
    BY <1>5, <2>1, ProposedRows DEF CopierPass, TypeOK
  <2> QED
    BY <1>5, <2>2 DEF CopierPass, TypeOK, market, bars, budget
<1>6. ASSUME NEW m \in Messages, FollowUp(m)
      PROVE  TypeOK'
  <2>1. Asks[m] \in Int /\ Asks[m] <= Ceiling
    BY StopsAssumption DEF Levels
  <2>2. rows' \in [Keys -> Row]
    BY <1>6, <2>1, ProposedRows DEF FollowUp, TypeOK
  <2> QED
    BY <1>6, <2>2 DEF FollowUp, TypeOK, market, bars, budget
<1>7. ASSUME NEW k \in Keys, Modify(k)
      PROVE  TypeOK'
  <2>1. rows' \in [Keys -> Row]
    BY <1>7, BecomesRows DEF Modify, Statuses
  <2>2. rows[k].level \in Stops
    BY DEF TypeOK, Row
  <2>3. stop' \in Stops
    BY <1>7, <2>2, StopsAssumption DEF Modify, Clamped, Lesser, TypeOK, Stops, Levels
  <2>4. lost' \in Nat
    BY <1>7 DEF Modify, TypeOK
  <2> QED
    BY <1>7, <2>1, <2>3, <2>4 DEF Modify, TypeOK, bars
<1>8. ASSUME NEW k \in Keys, Refuse(k)
      PROVE  TypeOK'
  <2>1. rows' \in [Keys -> Row]
    BY <1>8, BecomesRows DEF Refuse, Statuses
  <2>2. refusals' \in Nat
    BY <1>8 DEF Refuse, TypeOK
  <2> QED
    BY <1>8, <2>1, <2>2 DEF Refuse, TypeOK, market, bars
<1>9. ASSUME NEW k \in Keys, PollLost(k)
      PROVE  TypeOK'
  <2>1. rows' \in [Keys -> Row]
    BY <1>9, BecomesRows DEF PollLost, Statuses
  <2> QED
    BY <1>9, <2>1 DEF PollLost, TypeOK, market, bars
<1>10. ASSUME NEW k \in Keys, Rested(k) \/ Swept(k)
       PROVE  TypeOK'
  <2>1. rows' \in [Keys -> Row]
    BY <1>10, BecomesRows DEF Rested, Swept, Statuses
  <2> QED
    BY <1>10, <2>1 DEF Rested, Swept, TypeOK, market, bars, budget
<1>11. ASSUME Snapshot
       PROVE  TypeOK'
  BY <1>11 DEF Snapshot, TypeOK, market, bars, budget
<1>12. ASSUME OpenedAgain
       PROVE  TypeOK'
  BY <1>12 DEF OpenedAgain, TypeOK, market
<1>13. ASSUME NEW s \in Levels \union {NoStop}, HandMove(s)
       PROVE  TypeOK'
  BY <1>13 DEF HandMove, TypeOK, bars
<1>14. ASSUME UNCHANGED vars
       PROVE  TypeOK'
  BY <1>14 DEF vars, TypeOK, market, bars, budget
<1> QED
  BY <1>1, <1>2, <1>3, <1>4, <1>5, <1>6, <1>7, <1>8, <1>9, <1>10, <1>11, <1>12, <1>13, <1>14
     DEF Next

\* Every price, stop and level a command names stays in its range, whatever the providers
\* ask for and however often the terminal clamps.
THEOREM StopsType == Spec => []TypeOK
  BY TypeInit, TypeNext, PTL DEF Spec

-----------------------------------------------------------------------------
\* What sending a level can do to a row: nothing, or, if it is the key's and the level is
\* an improvement, make it pending at that level.
LEMMA ProposedRow ==
    ASSUME NEW table \in [Keys -> Row], NEW wanted \in BOOLEAN, NEW key, NEW level,
           NEW result, result = Proposed(table, wanted, key, level),
           NEW k \in Keys
    PROVE  \/ result[k] = table[k]
           \/ /\ wanted /\ Tightens(level) /\ k = key
              /\ result[k].status = "pending" /\ result[k].level = level
              /\ \/ table[k].status = "absent" /\ result[k].id = NextId(table)
                 \/ table[k].status \in {"failed", "expired"} /\ result[k].id = table[k].id
<1>1. CASE ~(wanted /\ Tightens(level))
  BY <1>1 DEF Proposed
<1>2. CASE wanted /\ Tightens(level)
  <2>1. result = Sent(table, key, level)
    BY <1>2 DEF Proposed
  <2>2. CASE table[key].status = "absent"
    <3>1. result = [table EXCEPT ![key] = [id |-> NextId(table), status |-> "pending", level |-> level]]
      BY <2>1, <2>2 DEF Sent
    <3>2. CASE k = key
      <4>1. result[k] = [id |-> NextId(table), status |-> "pending", level |-> level]
        BY <3>1, <3>2
      <4>2. result[k].id = NextId(table) /\ result[k].status = "pending" /\ result[k].level = level
        BY <4>1
      <4> QED
        BY <1>2, <2>2, <3>2, <4>2
    <3>3. CASE k # key
      BY <3>1, <3>3
    <3> QED
      BY <3>2, <3>3
  <2>3. CASE table[key].status \in {"failed", "expired"}
    <3>1. result = [table EXCEPT ![key].status = "pending", ![key].level = level]
      BY <2>1, <2>3 DEF Sent
    <3>2. CASE k = key
      <4>1. result[k] = [table[k] EXCEPT !.status = "pending", !.level = level]
        BY <3>1, <3>2
      <4>2. result[k].id = table[k].id /\ result[k].status = "pending" /\ result[k].level = level
        BY <4>1 DEF Row
      <4> QED
        BY <1>2, <2>3, <3>2, <4>2
    <3>3. CASE k # key
      BY <3>1, <3>3
    <3> QED
      BY <3>2, <3>3
  <2>4. CASE table[key].status \notin {"absent", "failed", "expired"}
    BY <2>1, <2>4 DEF Sent
  <2> QED
    BY <2>2, <2>3, <2>4
<1> QED
  BY <1>1, <1>2

\* A change of status is all that becomes of a row.
LEMMA BecomesRow ==
    ASSUME TypeOK, NEW k \in Keys, NEW status, Becomes(k, status), NEW j \in Keys
    PROVE  /\ rows'[j].level = rows[j].level /\ rows'[j].id = rows[j].id
           /\ rows'[j].status = IF j = k THEN status ELSE rows[j].status
  BY DEF Becomes, TypeOK, Row

-----------------------------------------------------------------------------
\* Levels are compared with the recorded stop, so by induction neither the record nor a
\* command nor the broker's stop is ever behind the opening stop, unless a hand put it there.
RiskInv ==
    hand = 0 => /\ stop >= -Risk /\ recorded >= -Risk
                /\ \A k \in Keys : rows[k].level >= -Risk

LEMMA ProposedRisk ==
    ASSUME TypeOK, recorded >= -Risk,
           NEW table \in [Keys -> Row], \A k \in Keys : table[k].level >= -Risk,
           NEW wanted \in BOOLEAN, NEW key, NEW level \in Int,
           NEW result, result = Proposed(table, wanted, key, level)
    PROVE  \A k \in Keys : result[k].level >= -Risk
<1>1. Tightens(level) => level >= -Risk
  BY Numbers DEF Tightens, TypeOK
<1>2. ASSUME NEW k \in Keys
      PROVE  result[k].level >= -Risk
  <2>1. result[k] = table[k] \/ (Tightens(level) /\ result[k].level = level)
    BY ProposedRow
  <2> QED
    BY <1>1, <2>1
<1> QED
  BY <1>2

LEMMA RiskInit == Init => RiskInv
  BY Numbers DEF Init, RiskInv, Absent

LEMMA RiskNext ==
    ASSUME StopsLevel = 0, TypeOK, RiskInv, [Next]_vars
    PROVE  RiskInv'
<1> USE Numbers
<1> SUFFICES ASSUME hand' = 0
             PROVE  /\ stop' >= -Risk /\ recorded' >= -Risk
                    /\ \A k \in Keys : rows'[k].level >= -Risk
  BY DEF RiskInv
<1>0. ASSUME hand = 0
      PROVE  /\ stop >= -Risk /\ recorded >= -Risk /\ \A k \in Keys : rows[k].level >= -Risk
  BY <1>0 DEF RiskInv
<1>1. ASSUME \/ \E p \in Levels : Move(p)
             \/ BarCloses \/ RungFilled \/ UNCHANGED vars
      PROVE  UNCHANGED <<stop, recorded, rows, hand>>
  BY <1>1 DEF Move, BarCloses, RungFilled, vars, market, budget
<1>2. ASSUME TradeManagerPass
      PROVE  RiskInv'
  <2> DEFINE first == Proposed(rows, banked, <<"break_even", 0>>, BreakEven)
  <2>1. hand = 0 /\ UNCHANGED <<stop, recorded, hand>>
    BY <1>2 DEF TradeManagerPass, market, budget
  <2>2. first \in [Keys -> Row] /\ \A k \in Keys : first[k].level >= -Risk
    BY <1>0, <2>1, Targets, ProposedRows, ProposedRisk DEF TypeOK
  <2>3. \A k \in Keys : rows'[k].level >= -Risk
    <3> DEFINE wanted == TrailDistance > 0 /\ best >= TrailTrigger
               trail  == best - TrailDistance
    <3>1. rows' = Proposed(first, wanted, <<"trail", Bucket(trail)>>, trail)
      BY <1>2 DEF TradeManagerPass
    <3> HIDE DEF first
    <3> QED
      BY <1>0, <2>1, <2>2, <3>1, Targets, ProposedRisk
  <2> QED
    BY <1>0, <2>1, <2>3 DEF RiskInv
<1>3. ASSUME CopierPass
      PROVE  RiskInv'
  <2> DEFINE target == IF TrailR > 0 THEN best - TrailR * OpeningRisk ELSE BreakEven
  <2>1. hand = 0 /\ UNCHANGED <<stop, recorded, hand>>
    BY <1>3 DEF CopierPass, market, budget
  <2>2. target \in Int
    BY Targets DEF OpeningRisk
  <2>3. rows' = Proposed(rows, TRUE, <<"protect", Bucket(target)>>, target)
    BY <1>3 DEF CopierPass
  <2> HIDE DEF target
  <2>4. \A k \in Keys : rows'[k].level >= -Risk
    BY <1>0, <2>1, <2>2, <2>3, ProposedRisk DEF TypeOK
  <2> QED
    BY <1>0, <2>1, <2>4 DEF RiskInv
<1>4. ASSUME NEW m \in Messages, FollowUp(m)
      PROVE  RiskInv'
  <2>1. hand = 0 /\ UNCHANGED <<stop, recorded, hand>>
    BY <1>4 DEF FollowUp, market, budget
  <2>2. Asks[m] \in Int
    BY StopsAssumption DEF Levels
  <2>3. \A k \in Keys : rows'[k].level >= -Risk
    BY <1>0, <1>4, <2>1, <2>2, ProposedRisk DEF FollowUp, TypeOK
  <2> QED
    BY <1>0, <2>1, <2>3 DEF RiskInv
<1>5. ASSUME NEW k \in Keys, Modify(k)
      PROVE  RiskInv'
  <2>1. hand = 0 /\ UNCHANGED <<recorded, hand>>
    BY <1>5 DEF Modify
  <2>2. \A j \in Keys : rows'[j].level = rows[j].level
    BY <1>5, BecomesRow DEF Modify
  <2>3. rows[k].level \in Int /\ price \in Int
    BY DEF TypeOK, Row, Levels
  <2>4. stop' = rows[k].level
    BY <1>5, <2>3 DEF Modify, Clamped, Lesser
  <2> QED
    BY <1>0, <2>1, <2>2, <2>4 DEF RiskInv
<1>6. ASSUME NEW k \in Keys, Refuse(k) \/ PollLost(k) \/ Rested(k) \/ Swept(k)
      PROVE  RiskInv'
  <2>1. hand = 0 /\ UNCHANGED <<stop, recorded, hand>>
    BY <1>6 DEF Refuse, PollLost, Rested, Swept, market, budget
  <2>2. \A j \in Keys : rows'[j].level = rows[j].level
    BY <1>6, BecomesRow DEF Refuse, PollLost, Rested, Swept
  <2> QED
    BY <1>0, <2>1, <2>2 DEF RiskInv
<1>7. ASSUME Snapshot
      PROVE  RiskInv'
  BY <1>7 DEF Snapshot, RiskInv, market, budget
<1>8. ASSUME OpenedAgain
      PROVE  RiskInv'
  BY <1>8 DEF OpenedAgain, RiskInv, market
<1>9. ASSUME NEW s \in Levels \union {NoStop}, HandMove(s)
      PROVE  FALSE
  BY <1>9 DEF HandMove, TypeOK
<1> QED
  BY <1>0, <1>1, <1>2, <1>3, <1>4, <1>5, <1>6, <1>7, <1>8, <1>9 DEF Next, RiskInv

\* With a broker that takes a stop right up to the market, no command ever puts the stop
\* further away than the position was opened with: tightens() and moveStop() compare with a
\* record that is out of date, but never one that is behind the opening stop.
THEOREM StopsRiskKept ==
    ASSUME StopsLevel = 0
    PROVE  Spec => []RiskNeverWidened
<1>1. RiskInv => RiskNeverWidened
  BY DEF RiskInv, RiskNeverWidened
<1>2. TypeOK /\ RiskInv /\ [Next]_vars => RiskInv'
  BY RiskNext
<1> QED
  BY <1>1, <1>2, RiskInit, StopsType, PTL DEF Spec

-----------------------------------------------------------------------------
\* The copier's commands keep the distance from the best price at which they were queued,
\* the best price only grows, and the stop is where one of them put it.
Undisturbed == hand = 0 /\ repeats = 0 /\ handled = {}

DistanceInv ==
    Undisturbed =>
        /\ stop > -Risk => stop <= best - TrailR * Risk
        /\ \A k \in Keys : rows[k].status # "absent" => rows[k].level <= best - TrailR * Risk

LEMMA DistanceInit == Init => DistanceInv
  BY Numbers DEF Init, DistanceInv, Absent

LEMMA DistanceNext ==
    ASSUME Origin = "ai", TypeOK, DistanceInv, [Next]_vars
    PROVE  DistanceInv'
<1> DEFINE D == TrailR * Risk
<1> D \in Nat
  BY Numbers
<1> HIDE DEF D
<1> best \in Int /\ stop \in Int
  BY Numbers DEF TypeOK, Levels
<1> SUFFICES ASSUME Undisturbed'
             PROVE  /\ stop' > -Risk => stop' <= best' - D
                    /\ \A k \in Keys : rows'[k].status # "absent" => rows'[k].level <= best' - D
  BY DEF DistanceInv, D
<1>0. ASSUME Undisturbed
      PROVE  /\ stop > -Risk => stop <= best - D
             /\ \A k \in Keys : rows[k].status # "absent" => rows[k].level <= best - D
  BY <1>0 DEF DistanceInv, D
<1>1. ASSUME \/ \E p \in Levels : Move(p)
             \/ RungFilled \/ Snapshot \/ UNCHANGED vars
      PROVE  Undisturbed /\ UNCHANGED <<stop, rows, best>>
  BY <1>1 DEF Move, RungFilled, Snapshot, Undisturbed, vars, market, bars, budget
<1>2. ASSUME BarCloses
      PROVE  DistanceInv'
  <2>1. Undisturbed /\ UNCHANGED <<stop, rows>>
    BY <1>2 DEF BarCloses, Undisturbed, market, budget
  <2>2. best' \in Int /\ best' >= best
    BY <1>2, Numbers DEF BarCloses, Greater, TypeOK, Levels
  <2>3. \A k \in Keys : rows[k].level \in Int
    BY Numbers DEF TypeOK, Row
  <2> QED
    BY <1>0, <2>1, <2>2, <2>3 DEF DistanceInv, D
<1>3. ASSUME TradeManagerPass
      PROVE  FALSE
  BY <1>3 DEF TradeManagerPass
<1>4. ASSUME CopierPass
      PROVE  DistanceInv'
  <2> DEFINE target == IF TrailR > 0 THEN best - TrailR * OpeningRisk ELSE BreakEven
  <2>1. Undisturbed /\ UNCHANGED <<stop, best>>
    BY <1>4 DEF CopierPass, Undisturbed, market, bars, budget
  <2>2. target <= best - D
    <3>1. CASE TrailR > 0
      BY <3>1 DEF D, OpeningRisk
    <3>2. CASE ~(TrailR > 0)
      <4>1. TrailR = 0
        BY <3>2, StopsAssumption
      <4>1a. D = 0
        BY <4>1, Numbers DEF D
      <4>2. ProtectAtR * Risk \in Nat
        BY StopsAssumption
      <4>3. best >= 0
        BY <1>4, <4>2 DEF CopierPass, OpeningRisk
      <4>4. last \in Int /\ Offset \in Int
        BY Numbers DEF TypeOK, Levels
      <4>5. BreakEven <= best
        BY <4>3, <4>4 DEF BreakEven, Lesser
      <4> QED
        BY <3>2, <4>1a, <4>5
    <3> QED
      BY <3>1, <3>2
  <2>3. rows' = Proposed(rows, TRUE, <<"protect", Bucket(target)>>, target)
    BY <1>4 DEF CopierPass
  <2> HIDE DEF target
  <2>4. ASSUME NEW k \in Keys, rows'[k].status # "absent"
        PROVE  rows'[k].level <= best - D
    <3> DEFINE key == <<"protect", Bucket(target)>>
    <3>1. rows \in [Keys -> Row]
      BY DEF TypeOK
    <3>2. PICK w \in BOOLEAN : rows' = Proposed(rows, w, key, target)
      BY <2>3
    <3> HIDE DEF key
    <3>3. \/ rows'[k] = rows[k]
          \/ rows'[k].level = target
      BY <3>1, <3>2, ProposedRow
    <3> QED
      BY <1>0, <2>1, <2>2, <2>4, <3>3
  <2> QED
    BY <1>0, <2>1, <2>4 DEF DistanceInv, D
<1>5. ASSUME NEW m \in Messages, FollowUp(m)
      PROVE  FALSE
  BY <1>5 DEF FollowUp, Undisturbed
<1>6. ASSUME NEW k \in Keys, Modify(k)
      PROVE  DistanceInv'
  <2>1. Undisturbed /\ UNCHANGED best
    BY <1>6 DEF Modify, Undisturbed, bars
  <2>2. \A j \in Keys : /\ rows'[j].level = rows[j].level
                        /\ rows'[j].status # "absent" => rows[j].status # "absent"
    BY <1>6, BecomesRow DEF Modify, First
  <2>3. rows[k].level \in Int /\ price \in Int /\ rows[k].level <= best - D
    BY <1>0, <1>6, <2>1, Numbers DEF Modify, First, TypeOK, Row, Levels
  <2>4. stop' <= rows[k].level /\ stop' \in Int
    BY <1>6, <2>3, Numbers DEF Modify, Clamped, Lesser
  <2>5. stop' <= best - D
    BY <2>3, <2>4
  <2> QED
    BY <1>0, <2>1, <2>2, <2>5 DEF DistanceInv, D
<1>7. ASSUME NEW k \in Keys, Refuse(k) \/ PollLost(k) \/ Rested(k) \/ Swept(k)
      PROVE  DistanceInv'
  <2>1. Undisturbed /\ UNCHANGED <<stop, best>>
    BY <1>7 DEF Refuse, PollLost, Rested, Swept, Undisturbed, market, bars, budget
  <2>2. \A j \in Keys : /\ rows'[j].level = rows[j].level
                        /\ rows'[j].status # "absent" => rows[j].status # "absent"
    BY <1>7, BecomesRow DEF Refuse, PollLost, Rested, Swept, First
  <2> QED
    BY <1>0, <2>1, <2>2 DEF DistanceInv, D
<1>8. ASSUME OpenedAgain
      PROVE  FALSE
  BY <1>8 DEF OpenedAgain, Undisturbed, TypeOK
<1>9. ASSUME NEW s \in Levels \union {NoStop}, HandMove(s)
      PROVE  FALSE
  BY <1>9 DEF HandMove, Undisturbed, TypeOK
<1> QED
  BY <1>0, <1>1, <1>2, <1>3, <1>4, <1>5, <1>6, <1>7, <1>8, <1>9 DEF Next, DistanceInv, D

\* Unless a message, a hand or a repeated report steps in, the copier's stop is never closer
\* to the best price than the configured multiple of the opening risk, at any broker.
THEOREM StopsDistanceKept ==
    ASSUME Origin = "ai"
    PROVE  Spec => []KeepsDistance
<1>1. DistanceInv => KeepsDistance
  BY DEF DistanceInv, KeepsDistance, Undisturbed
<1>2. TypeOK /\ DistanceInv /\ [Next]_vars => DistanceInv'
  BY DistanceNext
<1> QED
  BY <1>1, <1>2, DistanceInit, StopsType, PTL DEF Spec

-----------------------------------------------------------------------------
\* The trail alone: rows are numbered in the order of their levels, so the lowest pending
\* one is never behind the stop.
LEMMA BucketMonotone ==
    ASSUME NEW a \in Int, NEW b \in Int, a <= b
    PROVE  Bucket(a) <= Bucket(b) /\ Bucket(a) \in Int /\ Bucket(b) \in Int
<1> DEFINE n == PipUnits
           x == a + PipUnits \div 2
           y == b + PipUnits \div 2
           p == x \div n
           q == y \div n
<1>0. n \in Nat /\ n > 0 /\ x \in Int /\ y \in Int /\ x <= y
  BY StopsAssumption
<1> HIDE DEF n, x, y
<1>1. p \in Int /\ q \in Int
  BY <1>0
<1>2. n * p <= x /\ x < n * p + n
  BY <1>0, SMT
<1>3. n * q <= y /\ y < n * q + n
  BY <1>0, SMT
<1> HIDE DEF p, q
<1>4. ~(p >= q + 1)
  <2> SUFFICES ASSUME p >= q + 1
               PROVE  FALSE
    OBVIOUS
  <2>1. n * p >= n * (q + 1)
    BY <1>0, <1>1
  <2>2. n * (q + 1) = n * q + n
    BY <1>0, <1>1
  <2>3. n * p \in Int /\ n * q \in Int
    BY <1>0, <1>1
  <2> QED
    BY <1>0, <1>2, <1>3, <2>1, <2>2, <2>3
<1>5. p <= q
  BY <1>1, <1>4
<1> QED
  BY <1>1, <1>5 DEF p, q, x, y, n, Bucket

TrailInv ==
    ~banked =>
        /\ hand = 0 /\ repeats = 0
        /\ stop = -Risk \/ stop <= best - TrailDistance
        /\ \A k \in Keys : rows[k].status # "absent" =>
              /\ k = <<"trail", Bucket(rows[k].level)>>
              /\ rows[k].level <= best - TrailDistance
              /\ rows[k].id < NextId(rows)
        /\ \A j, k \in Keys :
              rows[j].status # "absent" /\ rows[k].status # "absent" /\ rows[j].id <= rows[k].id
                  => rows[j].level <= rows[k].level
        /\ \A k \in Keys : rows[k].status = "pending" => stop <= rows[k].level

LEMMA TrailInit == Init => TrailInv
  BY Numbers DEF Init, TrailInv, Absent

\* The number of the next row never falls.
LEMMA NextIdGrows ==
    ASSUME NEW table, NEW result,
           \A k \in Keys : table[k].status # "absent" => result[k].status # "absent"
    PROVE  /\ NextId(table) \in Nat /\ NextId(result) \in Nat /\ NextId(table) <= NextId(result)
           /\ \A k \in Keys : table[k].status = "absent" /\ result[k].status # "absent"
                                  => NextId(table) < NextId(result)
<1>1. Created(table) \subseteq Created(result)
  BY DEF Created
<1>2. IsFiniteSet(Created(result)) /\ NextId(table) \in Nat /\ NextId(result) \in Nat
  BY NewId
<1>3. /\ Cardinality(Created(table)) <= Cardinality(Created(result))
      /\ Cardinality(Created(table)) = Cardinality(Created(result))
            => Created(table) = Created(result)
      /\ Cardinality(Created(table)) \in Nat /\ Cardinality(Created(result)) \in Nat
  BY <1>1, <1>2, FS_Subset, FS_CardinalityType
<1>4. NextId(table) <= NextId(result)
  BY <1>3 DEF NextId
<1>5. ASSUME NEW k \in Keys, table[k].status = "absent", result[k].status # "absent"
      PROVE  NextId(table) < NextId(result)
  <2>1. k \notin Created(table) /\ k \in Created(result)
    BY <1>5 DEF Created
  <2> QED
    BY <1>3, <2>1 DEF NextId
<1> QED
  BY <1>2, <1>4, <1>5

\* The levels and numbers in the table are numbers.
LEMMA RowFacts ==
    ASSUME TypeOK, NEW k \in Keys
    PROVE  rows[k].level \in Int /\ rows[k].id \in Nat
  BY Numbers DEF TypeOK, Row

\* A pass of TradeManager before any rung has filled: at most the trail's row changes, to
\* the level of the trail, which no row and no stop is beyond.
LEMMA TrailPass ==
    ASSUME Origin = "bot", StopsLevel = 0, TypeOK, RiskInv, TrailInv, ~banked, TradeManagerPass
    PROVE  TrailInv'
<1> DEFINE t == best - TrailDistance
           key == <<"trail", Bucket(t)>>
           trails == TrailDistance > 0 /\ best >= TrailTrigger
<1> USE Numbers
<1>0. /\ UNCHANGED <<stop, best, recorded, banked, hand, repeats>>
      /\ t \in Int /\ stop \in Int /\ recorded \in Int /\ trails \in BOOLEAN
      /\ rows \in [Keys -> Row]
  BY Targets DEF TradeManagerPass, market, bars, budget, TypeOK
<1>1. PICK w \in BOOLEAN : rows' = Proposed(rows, w, key, t)
  <2>1. Proposed(rows, banked, <<"break_even", 0>>, BreakEven) = rows
    BY DEF Proposed
  <2> QED
    BY <1>0, <2>1 DEF TradeManagerPass
<1> HIDE DEF key
<1>2. \A k \in Keys :
         \/ rows'[k] = rows[k]
         \/ /\ Tightens(t) /\ k = key /\ rows'[k].status = "pending" /\ rows'[k].level = t
            /\ \/ rows[k].status = "absent" /\ rows'[k].id = NextId(rows)
               \/ rows[k].status \in {"failed", "expired"} /\ rows'[k].id = rows[k].id
  BY <1>0, <1>1, ProposedRow
<1>3. /\ NextId(rows) \in Nat /\ NextId(rows') \in Nat /\ NextId(rows) <= NextId(rows')
      /\ \A k \in Keys : rows[k].status = "absent" /\ rows'[k].status # "absent"
                            => NextId(rows) < NextId(rows')
  <2>1. \A k \in Keys : rows[k].status # "absent" => rows'[k].status # "absent"
    BY <1>2
  <2> QED
    BY <2>1, NextIdGrows
<1>4. /\ hand = 0 /\ repeats = 0
      /\ stop = -Risk \/ stop <= t
      /\ \A k \in Keys : rows[k].status # "absent" =>
            /\ k = <<"trail", Bucket(rows[k].level)>>
            /\ rows[k].level <= t
            /\ rows[k].id < NextId(rows)
      /\ \A j, k \in Keys :
            rows[j].status # "absent" /\ rows[k].status # "absent" /\ rows[j].id <= rows[k].id
                => rows[j].level <= rows[k].level
      /\ \A k \in Keys : rows[k].status = "pending" => stop <= rows[k].level
  BY DEF TrailInv
<1> HIDE DEF t
<1>5. \A k \in Keys : rows[k].level \in Int /\ rows[k].id \in Nat
  BY RowFacts
<1>6. ASSUME NEW k \in Keys, rows'[k].status # "absent"
      PROVE  /\ k = <<"trail", Bucket(rows'[k].level)>>
             /\ rows'[k].level <= t
             /\ rows'[k].id < NextId(rows')
  <2>1. CASE rows'[k] = rows[k]
    BY <1>3, <1>4, <1>5, <1>6, <2>1
  <2>2. CASE /\ k = key /\ rows'[k].level = t
             /\ \/ rows[k].status = "absent" /\ rows'[k].id = NextId(rows)
                \/ rows[k].status \in {"failed", "expired"} /\ rows'[k].id = rows[k].id
    BY <1>0, <1>3, <1>4, <1>5, <1>6, <2>2 DEF key
  <2> QED
    BY <1>2, <2>1, <2>2
<1>7. ASSUME NEW j \in Keys, NEW k \in Keys, rows'[j].status # "absent",
             rows'[k].status # "absent", rows'[j].id <= rows'[k].id
      PROVE  rows'[j].level <= rows'[k].level
  <2>1. CASE rows'[j] = rows[j] /\ rows'[k] = rows[k]
    BY <1>4, <1>7, <2>1
  <2>2. CASE k = key /\ rows'[k].level = t
    BY <1>6, <1>7, <2>2
  <2>3. CASE /\ rows'[k] = rows[k] /\ j = key /\ rows'[j].level = t
             /\ rows[j].status = "absent" /\ rows'[j].id = NextId(rows)
    BY <1>3, <1>4, <1>5, <1>7, <2>3
  <2>4. CASE /\ rows'[k] = rows[k] /\ j = key /\ rows'[j].level = t
             /\ rows[j].status \in {"failed", "expired"} /\ rows'[j].id = rows[j].id
    <3>1. rows[j].level <= rows[k].level /\ rows[k].level <= t
      BY <1>4, <1>7, <2>4
    <3>2. Bucket(rows[j].level) <= Bucket(rows[k].level) /\ Bucket(rows[k].level) <= Bucket(t)
          /\ Bucket(rows[j].level) \in Int /\ Bucket(rows[k].level) \in Int
      BY <1>0, <1>5, <3>1, BucketMonotone
    <3>3. j = <<"trail", Bucket(rows[j].level)>> /\ k = <<"trail", Bucket(rows[k].level)>>
      BY <1>4, <1>7, <2>4
    <3>4. Bucket(rows[j].level) = Bucket(t)
      BY <2>4, <3>3 DEF key
    <3>5. k = j
      BY <3>2, <3>3, <3>4
    <3> QED
      BY <1>0, <2>4, <3>5
  <2> QED
    BY <1>2, <2>1, <2>2, <2>3, <2>4
<1>8. ASSUME NEW k \in Keys, rows'[k].status = "pending"
      PROVE  stop <= rows'[k].level
  <2>1. CASE rows'[k] = rows[k]
    BY <1>4, <1>8, <2>1
  <2>2. CASE Tightens(t) /\ rows'[k].level = t
    <3>1. recorded >= -Risk
      BY <1>4 DEF RiskInv
    <3>2. t > -Risk
      BY <1>0, <2>2, <3>1 DEF Tightens
    <3> QED
      BY <1>0, <1>4, <2>2, <3>2
  <2> QED
    BY <1>2, <2>1, <2>2
<1> QED
  BY <1>0, <1>4, <1>6, <1>7, <1>8 DEF TrailInv, t

\* Whatever only changes the status of a row, and makes none pending, keeps the order.
LEMMA TrailStatus ==
    ASSUME TypeOK, TrailInv, NEW k \in Keys, rows[k].status # "absent",
           NEW status \in Statuses \ {"absent", "pending"}, Becomes(k, status),
           UNCHANGED <<stop, best, banked, hand, repeats>>
    PROVE  TrailInv'
<1>1. \A j \in Keys :
         /\ rows'[j].level = rows[j].level /\ rows'[j].id = rows[j].id
         /\ rows'[j].status # "absent" <=> rows[j].status # "absent"
         /\ rows'[j].status = "pending" => rows[j].status = "pending"
  BY BecomesRow
<1>2. NextId(rows) <= NextId(rows') /\ NextId(rows) \in Nat /\ NextId(rows') \in Nat
  BY <1>1, NextIdGrows
<1>3. \A j \in Keys : rows[j].id < NextId(rows) => rows'[j].id < NextId(rows')
  BY <1>1, <1>2, RowFacts
<1> QED
  BY <1>1, <1>3 DEF TrailInv

\* The terminal executes the lowest row, whose level the stop is not beyond.
LEMMA TrailModify ==
    ASSUME StopsLevel = 0, TypeOK, TrailInv, ~banked, NEW k \in Keys, Modify(k)
    PROVE  TrailInv' /\ stop' >= stop
<1> USE Numbers
<1>0. /\ rows[k].level \in Int /\ price \in Int /\ stop \in Int
      /\ UNCHANGED <<best, banked, hand, repeats>>
  BY RowFacts DEF Modify, bars, TypeOK, Levels
<1>1. stop' = rows[k].level
  BY <1>0 DEF Modify, Clamped, Lesser
<1>2. \A j \in Keys :
         /\ rows'[j].level = rows[j].level /\ rows'[j].id = rows[j].id
         /\ rows'[j].status # "absent" <=> rows[j].status # "absent"
         /\ rows'[j].status = "pending" => rows[j].status = "pending"
  BY BecomesRow DEF Modify, First
<1>3. NextId(rows) <= NextId(rows') /\ NextId(rows) \in Nat /\ NextId(rows') \in Nat
  BY <1>2, NextIdGrows
<1>4. \A j \in Keys : rows[j].id < NextId(rows) => rows'[j].id < NextId(rows')
  BY <1>2, <1>3, RowFacts
<1>5. rows[k].status = "pending" /\ stop <= rows[k].level
  BY DEF Modify, First, TrailInv
<1>6. stop' <= best' - TrailDistance
  BY <1>0, <1>1, <1>5 DEF TrailInv
<1>7. \A j \in Keys : rows'[j].status = "pending" => stop' <= rows'[j].level
  <2>1. \A j \in Keys : rows[j].status = "pending" => rows[k].id <= rows[j].id
    BY DEF Modify, First
  <2> QED
    BY <1>1, <1>2, <1>5, <2>1 DEF TrailInv
<1> QED
  BY <1>0, <1>1, <1>2, <1>4, <1>5, <1>6, <1>7 DEF TrailInv

LEMMA TrailNext ==
    ASSUME Origin = "bot", StopsLevel = 0, MaxHand = 0, MaxRepeats = 0,
           TypeOK, RiskInv, TrailInv, [Next]_vars
    PROVE  TrailInv' /\ (stop' < stop => hand' # hand \/ banked)
<1> USE Numbers
<1>0. stop \in Int
  BY DEF TypeOK
<1>1. CASE banked
  <2>1. banked'
    BY <1>1 DEF Next, Move, BarCloses, TradeManagerPass, RungFilled, CopierPass, FollowUp, Modify,
                Refuse, PollLost, Rested, Swept, Snapshot, OpenedAgain, HandMove, vars
  <2> QED
    BY <1>1, <2>1 DEF TrailInv
<1>2. CASE ~banked
  <2>1. ASSUME \/ \E p \in Levels : Move(p)
               \/ Snapshot \/ UNCHANGED vars
        PROVE  UNCHANGED <<stop, rows, best, banked, hand, repeats>>
    BY <2>1 DEF Move, Snapshot, vars, market, bars, budget
  <2>2. ASSUME UNCHANGED <<stop, rows, best, banked, hand, repeats>>
        PROVE  TrailInv' /\ stop' = stop
    BY <2>2 DEF TrailInv, NextId, Created
  <2>3. ASSUME BarCloses
        PROVE  TrailInv' /\ stop' = stop
    <3>1. UNCHANGED <<stop, rows, banked, hand, repeats>>
      BY <2>3 DEF BarCloses, market, budget
    <3>2. best \in Int /\ best' \in Int /\ best <= best'
      BY <2>3 DEF BarCloses, Greater, TypeOK, Levels
    <3>3. \A k \in Keys : rows[k].level \in Int
      BY RowFacts
    <3>4. /\ best - TrailDistance <= best' - TrailDistance
          /\ best - TrailDistance \in Int
          /\ best' - TrailDistance \in Int
      <4>1. TrailDistance \in Int
        BY Numbers
      <4>2. \A old, new, d \in Int : old <= new => old - d <= new - d /\ old - d \in Int /\ new - d \in Int
        OBVIOUS
      <4> QED
        BY <3>2, <4>1, <4>2
    <3>5. NextId(rows') = NextId(rows)
      BY <3>1 DEF NextId, Created
    <3> QED
      BY <1>0, <3>1, <3>3, <3>4, <3>5 DEF TrailInv
  <2>4. ASSUME TradeManagerPass
        PROVE  TrailInv' /\ stop' = stop
    BY <1>2, <2>4, TrailPass DEF TradeManagerPass, market
  <2>5. ASSUME RungFilled
        PROVE  TrailInv' /\ stop' = stop
    BY <2>5 DEF RungFilled, TrailInv, market
  <2>6. ASSUME CopierPass \/ \E m \in Messages : FollowUp(m)
        PROVE  FALSE
    BY <2>6 DEF CopierPass, FollowUp
  <2>7. ASSUME NEW k \in Keys, Modify(k)
        PROVE  TrailInv' /\ stop' >= stop
    BY <1>2, <2>7, TrailModify
  <2>8. ASSUME NEW k \in Keys, Refuse(k) \/ PollLost(k) \/ Rested(k) \/ Swept(k)
        PROVE  TrailInv' /\ stop' = stop
    <3>1. UNCHANGED <<stop, best, banked, hand, repeats>>
      BY <2>8 DEF Refuse, PollLost, Rested, Swept, market, bars, budget
    <3>2. PICK status \in Statuses \ {"absent", "pending"} : Becomes(k, status)
      BY <2>8 DEF Refuse, PollLost, Rested, Swept, Statuses
    <3>3. rows[k].status # "absent"
      BY <2>8 DEF Refuse, PollLost, Rested, Swept, First
    <3> QED
      BY <3>1, <3>2, <3>3, TrailStatus
  <2>9. ASSUME OpenedAgain \/ \E s \in Levels \union {NoStop} : HandMove(s)
        PROVE  FALSE
    BY <2>9 DEF OpenedAgain, HandMove, TypeOK
  <2>10. TrailInv' /\ (stop' = stop \/ stop' >= stop)
    BY <2>1, <2>2, <2>3, <2>4, <2>5, <2>6, <2>7, <2>8, <2>9 DEF Next
  <2>11. stop' \in Int
    BY TypeNext DEF TypeOK
  <2> QED
    BY <1>0, <2>10, <2>11
<1> QED
  BY <1>1, <1>2

\* A strategy's trail never loosens the stop, although every level is compared with a record
\* up to a quarter of an hour old: for any market, distances, refusals and losses, at a
\* broker with no stops level, as long as the opening report is not repeated.
THEOREM StopsTrailNeverLoosens ==
    ASSUME Origin = "bot", StopsLevel = 0, MaxHand = 0, MaxRepeats = 0
    PROVE  Spec => TrailNeverLoosens
<1>1. TypeOK /\ RiskInv /\ [Next]_vars => RiskInv'
  BY RiskNext
<1>2. TypeOK /\ RiskInv /\ TrailInv /\ [Next]_vars => TrailInv'
  BY TrailNext
<1>3. TypeOK /\ RiskInv /\ TrailInv /\ [Next]_vars => [stop' < stop => hand' # hand \/ banked]_vars
  BY TrailNext
<1> QED
  BY <1>1, <1>2, <1>3, RiskInit, TrailInit, StopsType, PTL DEF Spec, TrailNeverLoosens
=============================================================================
