-------------------------- MODULE HealthMonitorProofs --------------------------
(***************************************************************************)
(* Proofs about HealthMonitor: one open incident per condition, and no     *)
(* all-clear nobody needs, for any accounts, runs and faults.              *)
(***************************************************************************)
EXTENDS HealthMonitor, SequenceTheorems, TLAPS

-----------------------------------------------------------------------------
\* The types

LEMMA RowsAreSeq ==
    ASSUME NEW S, NEW n \in Nat, NEW f \in [1..n -> S]
    PROVE  f \in Seq(S) /\ Len(f) = n
<1>1. f \in Seq(S)
  BY SeqDef
<1> QED
  BY <1>1, LenProperties

LEMMA ConditionsType == TypeOK => Conditions \subseteq Condition
<1> SUFFICES ASSUME TypeOK PROVE Conditions \subseteq Condition
  OBVIOUS
<1>1. LevelIf(carrying # {}) \in Grades
  BY DEF LevelIf, Grades
<1>2. ASSUME NEW a \in Reporting
      PROVE  OfAccount(a) \subseteq Condition
  <2>1. Suffix(a) \in Accounts \union {Everyone} /\ LevelIf(a \in carrying) \in Grades
    BY DEF Suffix, LevelIf, Grades, Reporting
  <2>2. Offline(a) \in Condition
    BY <2>1 DEF Offline, Condition, Keys, Kinds
  <2>3. CannotTrade(a) \in Condition
    BY <2>1 DEF CannotTrade, Condition, Keys, Kinds, Grades
  <2>4. FeedStalled(a) \in Condition
    BY <2>1 DEF FeedStalled, Condition, Keys, Kinds
  <2> QED
    BY <2>2, <2>3, <2>4 DEF OfAccount
<1>3. [key |-> <<"executor_missing", Everyone>>, level |-> LevelIf(carrying # {})] \in Condition
  BY <1>1 DEF Condition, Keys, Kinds
<1> QED
  BY <1>2, <1>3 DEF Conditions

\* Everything an action may do to the rows but add to them.
Kept ==
    /\ Len(alerts') = Len(alerts)
    /\ \A i \in Ids : alerts'[i].key = alerts[i].key
                      /\ (alerts[i].resolved => alerts'[i].resolved)

LEMMA RowChanged ==
    ASSUME TypeOK, NEW i \in Ids, NEW x \in Incident,
           x.key = alerts[i].key, alerts[i].resolved => x.resolved,
           alerts' = [alerts EXCEPT ![i] = x]
    PROVE  alerts' \in Seq(Incident) /\ Kept
<1>1. alerts \in [1..Len(alerts) -> Incident] /\ Len(alerts) \in Nat
  BY LenProperties DEF TypeOK
<1>2. alerts' \in [1..Len(alerts) -> Incident]
  BY <1>1 DEF Ids
<1>3. alerts' \in Seq(Incident) /\ Len(alerts') = Len(alerts)
  BY <1>1, <1>2, RowsAreSeq
<1> QED
  BY <1>1, <1>3 DEF Kept, Ids

LEMMA RowsMapped ==
    ASSUME TypeOK, NEW f \in [Ids -> Incident], alerts' = f,
           \A i \in Ids : f[i].key = alerts[i].key /\ (alerts[i].resolved => f[i].resolved)
    PROVE  alerts' \in Seq(Incident) /\ Kept
<1>1. Len(alerts) \in Nat
  BY LenProperties DEF TypeOK
<1>2. alerts' \in Seq(Incident) /\ Len(alerts') = Len(alerts)
  BY <1>1, RowsAreSeq DEF Ids
<1> QED
  BY <1>2 DEF Kept

\* What an action leaves to be said of the types once the rows are dealt with.
RunsOK == /\ run \in [Runs -> Run]
          /\ \A r \in Runs : run[r].list \subseteq Ids /\ run[r].sent \subseteq Ids

LEMMA RowType ==
    ASSUME TypeOK, NEW i \in Ids
    PROVE  /\ alerts[i] \in Incident
           /\ told[i] \in Told /\ Ids \subseteq Nat
<1>1. i \in 1..Len(alerts) /\ i \in 1..Len(told) /\ Len(alerts) \in Nat
  BY LenProperties DEF TypeOK, Ids
<1> QED
  BY <1>1, ElementOfSeq DEF TypeOK, Ids

LEMMA ToldChanged ==
    ASSUME TypeOK, NEW i \in Ids, NEW x \in Told, told' = [told EXCEPT ![i] = x]
    PROVE  told' \in Seq(Told) /\ Len(told') = Len(told)
<1>1. i \in 1..Len(told)
  BY DEF TypeOK, Ids
<1> QED
  BY <1>1, ExceptSeq DEF TypeOK

LEMMA LookKeeps ==
    ASSUME TypeOK, NEW r \in Runs, Look(r)
    PROVE  alerts' \in Seq(Incident) /\ Kept
           /\ \A i \in Ids : alerts'[i].resolved = alerts[i].resolved
<1>1. PICK c \in run[r].todo :
        alerts' = [i \in Ids |->
                      IF i \in OpenOf(c.key) /\ \A j \in OpenOf(c.key) : i <= j
                      THEN [alerts[i] EXCEPT !.level = c.level] ELSE alerts[i]]
  BY DEF Look
<1>2. c \in Condition
  BY DEF TypeOK, Run
<1> DEFINE f == [i \in Ids |->
                    IF i \in OpenOf(c.key) /\ \A j \in OpenOf(c.key) : i <= j
                    THEN [alerts[i] EXCEPT !.level = c.level] ELSE alerts[i]]
<1>3. ASSUME NEW i \in Ids
      PROVE  /\ f[i] \in Incident
             /\ f[i].key = alerts[i].key /\ f[i].resolved = alerts[i].resolved
  BY <1>2, RowType DEF Incident, Condition
<1>4. f \in [Ids -> Incident]
  BY <1>3
<1> HIDE DEF f
<1> QED
  BY <1>1, <1>3, <1>4, RowsMapped DEF f

LEMMA ResolveKeeps ==
    ASSUME TypeOK, NEW r \in Runs, Resolve(r)
    PROVE  alerts' \in Seq(Incident) /\ Kept
<1> DEFINE f == ResolvedAbsent(run[r].keys)
<1>1. ASSUME NEW i \in Ids
      PROVE  /\ f[i] \in Incident
             /\ f[i].key = alerts[i].key /\ (alerts[i].resolved => f[i].resolved)
  BY RowType DEF Incident, ResolvedAbsent
<1>2. f \in [Ids -> Incident]
  BY <1>1 DEF ResolvedAbsent
<1>3. alerts' = f
  BY DEF Resolve
<1> HIDE DEF f
<1> QED
  BY <1>1, <1>2, <1>3, RowsMapped

LEMMA TickKeeps ==
    ASSUME TypeOK, Tick
    PROVE  alerts' \in Seq(Incident) /\ Kept
           /\ \A i \in Ids : alerts'[i].resolved = alerts[i].resolved
                             /\ alerts'[i].announced = alerts[i].announced
<1> DEFINE f == [i \in Ids |-> [alerts[i] EXCEPT !.age = IF @ < Repeat THEN @ + 1 ELSE @]]
<1>1. ASSUME NEW i \in Ids
      PROVE  /\ f[i] \in Incident
             /\ f[i].key = alerts[i].key /\ f[i].resolved = alerts[i].resolved
             /\ f[i].announced = alerts[i].announced
  BY RowType, MonitorAssumption DEF Incident, Never
<1>2. f \in [Ids -> Incident]
  BY <1>1
<1>3. alerts' = f
  BY DEF Tick
<1> HIDE DEF f
<1> QED
  BY <1>1, <1>2, <1>3, RowsMapped

LEMMA CreateType ==
    ASSUME TypeOK, NEW r \in Runs, Create(r)
    PROVE  /\ alerts' \in Seq(Incident) /\ told' \in Seq(Told)
           /\ Len(alerts') = Len(alerts) + 1 /\ Len(told') = Len(told) + 1
           /\ \A i \in Ids : alerts'[i] = alerts[i] /\ told'[i] = told[i]
           /\ told'[Len(told')] = [level |-> "none", clear |-> FALSE]
           /\ \E c \in run[r].creating : alerts'[Len(alerts')] = Opened(c)
<1>1. PICK c \in run[r].creating :
        /\ alerts' = Append(alerts, Opened(c))
        /\ told' = Append(told, [level |-> "none", clear |-> FALSE])
  BY DEF Create
<1>2. c \in Condition
  BY DEF TypeOK, Run
<1>3. Opened(c) \in Incident
  BY <1>2, MonitorAssumption DEF Opened, Condition, Incident, Never
<1>4. [level |-> "none", clear |-> FALSE] \in Told
  BY DEF Told
<1>5. alerts \in Seq(Incident) /\ told \in Seq(Told) /\ Len(told) = Len(alerts)
      /\ Len(alerts) \in Nat
  BY LenProperties DEF TypeOK
<1>6. /\ alerts' \in Seq(Incident) /\ Len(alerts') = Len(alerts) + 1
      /\ \A i \in 1..Len(alerts) : alerts'[i] = alerts[i]
      /\ alerts'[Len(alerts) + 1] = Opened(c)
  BY <1>1, <1>3, <1>5, AppendProperties
<1>7. /\ told' \in Seq(Told) /\ Len(told') = Len(told) + 1
      /\ \A i \in 1..Len(told) : told'[i] = told[i]
      /\ told'[Len(told) + 1] = [level |-> "none", clear |-> FALSE]
  BY <1>1, <1>4, <1>5, AppendProperties
<1> QED
  BY <1>5, <1>6, <1>7 DEF Ids

\* A row of run, its stage, list and what is out changed, is one.
LEMMA SentType ==
    ASSUME TypeOK, NEW r \in Runs, NEW i \in Ids,
           \/ run' = [run EXCEPT ![r].sent = {i}]
           \/ Dropped(r, i)
           \/ run' = [run EXCEPT ![r].sent = NoOne, ![r].list = @ \ {i}]
    PROVE  /\ run' \in [Runs -> Run]
           /\ \A q \in Runs : run'[q].list \subseteq Ids /\ run'[q].sent \subseteq Ids
<1>1. Ids \subseteq Nat /\ \A q \in Runs : run[q] \in Run
  BY RowType DEF TypeOK
<1>2. \A q \in Runs : run[q].list \subseteq Ids /\ run[q].sent \subseteq Ids
  BY DEF TypeOK
<1>3. CASE run' = [run EXCEPT ![r].sent = {i}]
  BY <1>1, <1>2, <1>3 DEF TypeOK, Run
<1>4. CASE Dropped(r, i)
  BY <1>1, <1>2, <1>4 DEF TypeOK, Run, Dropped
<1>5. CASE run' = [run EXCEPT ![r].sent = NoOne, ![r].list = @ \ {i}]
  BY <1>1, <1>2, <1>5 DEF TypeOK, Run, NoOne
<1> QED
  BY <1>3, <1>4, <1>5

LEMMA TellingType ==
    ASSUME TypeOK, NEW r \in Runs, NEW i \in Ids,
           NotDue(r, i) \/ Tell(r, i) \/ TellClear(r, i) \/ NoneTold(r, i) \/ Undelivered(r, i)
    PROVE  TypeOK'
<1>1. \/ run' = [run EXCEPT ![r].sent = {i}]
      \/ Dropped(r, i)
  BY DEF NotDue, Tell, TellClear, NoneTold, Undelivered
<1>2. /\ run' \in [Runs -> Run]
      /\ \A q \in Runs : run'[q].list \subseteq Ids /\ run'[q].sent \subseteq Ids
  BY <1>1, SentType
<1>3. told' \in Seq(Told) /\ Len(told') = Len(told)
  <2>1. CASE Tell(r, i)
    <3>1. [told[i] EXCEPT !.level = alerts[i].level] \in Told
      BY RowType DEF Told, Incident
    <3> QED
      BY <2>1, <3>1, ToldChanged DEF Tell
  <2>2. CASE TellClear(r, i)
    <3>1. [told[i] EXCEPT !.clear = TRUE] \in Told
      BY RowType DEF Told
    <3> QED
      BY <2>2, <3>1, ToldChanged DEF TellClear
  <2>3. CASE told' = told
    BY <2>3 DEF TypeOK
  <2> QED
    BY <2>1, <2>2, <2>3 DEF NotDue, NoneTold, Undelivered
<1>4. alerts' \in Seq(Incident) /\ Len(alerts') = Len(alerts)
  <2>1. CASE NoneTold(r, i)
    <3>1. [alerts[i] EXCEPT !.settled = TRUE] \in Incident
      BY RowType DEF Incident
    <3> QED
      BY <2>1, <3>1, RowType, RowChanged DEF NoneTold, Kept, Incident
  <2>2. CASE alerts' = alerts
    BY <2>2 DEF TypeOK
  <2> QED
    BY <2>1, <2>2 DEF NotDue, Tell, TellClear, Undelivered
<1>5. /\ UNCHANGED <<watched, mutex, up, changes, crashes>>
      /\ lost' \in Nat
  BY DEF NotDue, Tell, TellClear, NoneTold, Undelivered, bounds, TypeOK
<1> QED
  BY <1>2, <1>3, <1>4, <1>5 DEF TypeOK, watched, Ids

LEMMA RecordKeeps ==
    ASSUME TypeOK, NEW r \in Runs, Record(r)
    PROVE  /\ alerts' \in Seq(Incident) /\ Kept
           /\ \A i \in Ids : alerts'[i].resolved = alerts[i].resolved
           /\ \E i \in run[r].sent :
                /\ i \in Ids
                /\ alerts' = IF In(r, "telling")
                             THEN [alerts EXCEPT ![i].age = 0, ![i].announced = TRUE]
                             ELSE [alerts EXCEPT ![i].settled = TRUE]
                /\ run' = [run EXCEPT ![r].sent = NoOne, ![r].list = @ \ {i}]
<1>1. PICK i \in run[r].sent :
                /\ alerts' = IF In(r, "telling")
                             THEN [alerts EXCEPT ![i].age = 0, ![i].announced = TRUE]
                             ELSE [alerts EXCEPT ![i].settled = TRUE]
                /\ run' = [run EXCEPT ![r].sent = NoOne, ![r].list = @ \ {i}]
  BY DEF Record
<1>2. i \in Ids
  BY DEF TypeOK
<1>3. alerts[i] \in Incident
  BY <1>2, RowType
<1> DEFINE x == IF In(r, "telling") THEN [alerts[i] EXCEPT !.age = 0, !.announced = TRUE]
                ELSE [alerts[i] EXCEPT !.settled = TRUE]
<1>4. x \in Incident /\ x.key = alerts[i].key /\ x.resolved = alerts[i].resolved
  <2>1. 0 \in 0..Never
    BY MonitorAssumption DEF Never
  <2>2. CASE In(r, "telling")
    BY <1>3, <2>1, <2>2 DEF Incident
  <2>3. CASE ~In(r, "telling")
    BY <1>3, <2>3 DEF Incident
  <2> QED
    BY <2>2, <2>3
<1>5. alerts \in [1..Len(alerts) -> Incident] /\ Len(alerts) \in Nat
  BY LenProperties DEF TypeOK
<1>6. alerts' = [alerts EXCEPT ![i] = x]
  BY <1>1, <1>2, <1>5 DEF Ids
<1>7. \A j \in Ids : alerts'[j].resolved = alerts[j].resolved
  BY <1>2, <1>4, <1>5, <1>6 DEF Ids
<1>8. alerts' \in Seq(Incident) /\ Kept
  BY <1>2, <1>4, <1>6, RowChanged
<1> QED
  BY <1>1, <1>2, <1>7, <1>8

LEMMA TypeStep == TypeOK /\ [Next]_vars => TypeOK'
<1> SUFFICES ASSUME TypeOK, [Next]_vars PROVE TypeOK'
  OBVIOUS
<1> USE DEF watched, bounds
<1>1. ASSUME NEW r \in Runs, Start(r) PROVE TypeOK'
  <2> DEFINE K == {c.key : c \in Conditions}
  <2>1. K \in SUBSET Keys /\ Conditions \in SUBSET Condition
    BY ConditionsType DEF Condition
  <2>2. run' = [run EXCEPT ![r] = [Idle EXCEPT !.stage = "opening", !.todo = Conditions,
                                               !.keys = K]]
    BY <1>1 DEF Start
  <2> HIDE DEF K
  <2>3. /\ run' \in [Runs -> Run]
        /\ \A q \in Runs : run'[q].list \subseteq Ids /\ run'[q].sent \subseteq Ids
    BY <2>1, <2>2 DEF TypeOK, Idle, Run, Stages, NoOne
  <2> QED
    BY <1>1, <2>3 DEF Start, TypeOK, Ids
<1>2. ASSUME NEW r \in Runs, Look(r) PROVE TypeOK'
  <2>1. alerts' \in Seq(Incident) /\ Len(alerts') = Len(alerts)
    BY <1>2, LookKeeps DEF Kept
  <2>2. run[r] \in Run
    BY DEF TypeOK
  <2>3. PICK c \in run[r].todo :
          run' = [run EXCEPT ![r].todo = @ \ {c},
                             ![r].creating = IF OpenOf(c.key) = {} THEN {c} ELSE NoOne]
    BY <1>2 DEF Look
  <2>4. /\ run' \in [Runs -> Run]
        /\ \A q \in Runs : run'[q].list = run[q].list /\ run'[q].sent = run[q].sent
    BY <2>2, <2>3 DEF TypeOK, Run, NoOne
  <2> QED
    BY <1>2, <2>1, <2>4 DEF Look, TypeOK, Ids
<1>3. ASSUME NEW r \in Runs, Create(r) PROVE TypeOK'
  <2>1. /\ run' \in [Runs -> Run]
        /\ \A q \in Runs : run'[q].list = run[q].list /\ run'[q].sent = run[q].sent
    BY <1>3 DEF Create, TypeOK, Run, NoOne
  <2>2. Ids \subseteq Ids'
    BY <1>3, CreateType, LenProperties DEF Ids, TypeOK
  <2> QED
    BY <1>3, <2>1, <2>2, CreateType DEF Create, TypeOK
<1>4. ASSUME NEW r \in Runs, Resolve(r) PROVE TypeOK'
  <2>1. alerts' \in Seq(Incident) /\ Len(alerts') = Len(alerts)
    BY <1>4, ResolveKeeps DEF Kept
  <2>2. Len(alerts) \in Nat /\ run[r] \in Run
    BY LenProperties DEF TypeOK
  <2> DEFINE l == {i \in Ids : ~alerts'[i].resolved}
  <2>3. l \subseteq Ids /\ l \in SUBSET Nat
    BY <2>2 DEF Ids
  <2>4. run' = [run EXCEPT ![r].stage = "telling", ![r].list = l]
    BY <1>4 DEF Resolve
  <2> HIDE DEF l
  <2>5. /\ run' \in [Runs -> Run]
        /\ \A q \in Runs : run'[q].list \subseteq Ids /\ run'[q].sent \subseteq Ids
    BY <2>2, <2>3, <2>4 DEF TypeOK, Run, Stages
  <2> QED
    BY <1>4, <2>1, <2>5 DEF Resolve, TypeOK, Ids
<1>5. ASSUME NEW r \in Runs, NEW i \in Ids,
             NotDue(r, i) \/ Tell(r, i) \/ TellClear(r, i) \/ NoneTold(r, i) \/ Undelivered(r, i)
      PROVE  TypeOK'
  BY <1>5, TellingType
<1>6. ASSUME NEW r \in Runs, Record(r) PROVE TypeOK'
  <2>1. alerts' \in Seq(Incident) /\ Len(alerts') = Len(alerts)
    BY <1>6, RecordKeeps DEF Kept
  <2>2. /\ run' \in [Runs -> Run]
        /\ \A q \in Runs : run'[q].list \subseteq Ids /\ run'[q].sent \subseteq Ids
    BY <1>6, RecordKeeps, SentType
  <2> QED
    BY <1>6, <2>1, <2>2 DEF Record, TypeOK, Ids
<1>7. ASSUME NEW r \in Runs, TurnToCleared(r) PROVE TypeOK'
  <2>1. Len(alerts) \in Nat /\ run[r] \in Run
    BY LenProperties DEF TypeOK
  <2> DEFINE l == {i \in Ids : alerts[i].resolved /\ ~alerts[i].settled}
  <2>2. l \subseteq Ids /\ l \in SUBSET Nat
    BY <2>1 DEF Ids
  <2>3. run' = [run EXCEPT ![r].stage = "clearing", ![r].list = l]
    BY <1>7 DEF TurnToCleared
  <2> HIDE DEF l
  <2>4. /\ run' \in [Runs -> Run]
        /\ \A q \in Runs : run'[q].list \subseteq Ids /\ run'[q].sent \subseteq Ids
    BY <2>1, <2>2, <2>3 DEF TypeOK, Run, Stages
  <2> QED
    BY <1>7, <2>4 DEF TurnToCleared, TypeOK, Ids
<1>8. ASSUME NEW r \in Runs, Finish(r) \/ Crash(r) PROVE TypeOK'
  <2>1. run' = [run EXCEPT ![r] = Idle]
    BY <1>8 DEF Finish, Crash
  <2>2. /\ run' \in [Runs -> Run]
        /\ \A q \in Runs : run'[q].list \subseteq Ids /\ run'[q].sent \subseteq Ids
    BY <2>1 DEF TypeOK, Run, Idle, Stages, NoOne
  <2>3. CASE Finish(r)
    BY <2>2, <2>3 DEF Finish, TypeOK, Ids
  <2>4. CASE Crash(r)
    BY <2>2, <2>4 DEF Crash, TypeOK, Ids
  <2> QED
    BY <1>8, <2>3, <2>4
<1>9. CASE MutexExpires
  BY <1>9 DEF MutexExpires, TypeOK, Ids
<1>10. CASE Tick
  BY <1>10, TickKeeps DEF Tick, Kept, TypeOK, Ids
<1>11. ASSUME NEW a \in Accounts, Beat(a) \/ Stall(a) \/ Carry(a) PROVE TypeOK'
  BY <1>11 DEF Beat, Stall, Carry, Change, TypeOK, Ids, Beats
<1>12. CASE Switch \/ Channel
  <2>1. active' \in BOOLEAN /\ up' \in BOOLEAN
    BY <1>12 DEF Switch, Channel, TypeOK
  <2>2. changes' \in Nat
    BY <1>12 DEF Switch, Channel, Change, TypeOK
  <2>3. UNCHANGED <<beat, stalled, carrying, alerts, mutex, run, told, lost, crashes>>
    BY <1>12 DEF Switch, Channel
  <2> QED
    BY <2>1, <2>2, <2>3 DEF TypeOK, Ids
<1>13. CASE UNCHANGED vars
  BY <1>13 DEF vars, TypeOK, Ids
<1> QED
  BY <1>1, <1>2, <1>3, <1>4, <1>5, <1>6, <1>7, <1>8, <1>9, <1>10, <1>11, <1>12, <1>13
  DEF Next, RunStep

LEMMA TypeInit == Init => TypeOK
<1> SUFFICES ASSUME Init PROVE TypeOK
  OBVIOUS
<1>1. run \in [Runs -> Run] /\ \A r \in Runs : run[r].list = {} /\ run[r].sent = {}
  BY DEF Init, Idle, Run, Stages, NoOne
<1>2. alerts \in Seq(Incident) /\ told \in Seq(Told) /\ Len(told) = Len(alerts)
  BY EmptySeq DEF Init
<1>3. active \in BOOLEAN /\ up \in BOOLEAN /\ mutex \in BOOLEAN
  BY DEF Init
<1>4. beat \in [Accounts -> Beats] /\ carrying \subseteq Accounts
  BY DEF Init, Beats
<1> QED
  BY <1>1, <1>2, <1>3, <1>4 DEF Init, TypeOK

\* The rows, the runs and what has been told stay in their types, for any accounts, runs,
\* faults and order of steps.
THEOREM MonitorType == Spec => []TypeOK
<1>1. Init => TypeOK
  BY TypeInit
<1>2. TypeOK /\ [Next]_vars => TypeOK'
  BY TypeStep
<1> QED
  BY <1>1, <1>2, PTL DEF Spec

-----------------------------------------------------------------------------
\* One open incident per condition

\* Runs exclude each other, so that what one of them has looked for and not found is still not
\* there when it creates it.
OneAtATime ==
    \A r \in Runs : ~In(r, "idle") => mutex /\ \A q \in Runs : q # r => In(q, "idle")
CreatesAtWork == \A r \in Runs : In(r, "idle") => run[r].creating = NoOne
CreatesNew    == \A r \in Runs : \A c \in run[r].creating : OpenOf(c.key) = {}

OneInv == TypeOK /\ OneAtATime /\ CreatesAtWork /\ CreatesNew /\ OneOpenIncident

LEMMA KeptOpens ==
    ASSUME Kept
    PROVE  /\ \A k : OpenOf(k)' \subseteq OpenOf(k)
           /\ OneOpenIncident => OneOpenIncident'
BY DEF Kept, OpenOf, Firing, Ids, OneOpenIncident

\* A step that neither begins nor ends a run, and looks for nothing.
LEMMA OneKept ==
    ASSUME OneInv, Kept, mutex' = mutex,
           \A q \in Runs : /\ run'[q].creating \subseteq run[q].creating
                           /\ In(q, "idle")' <=> In(q, "idle")
    PROVE  (OneAtATime /\ CreatesAtWork /\ CreatesNew /\ OneOpenIncident)'
<1>1. OneAtATime'
  BY DEF OneInv, OneAtATime
<1>2. CreatesAtWork'
  BY DEF OneInv, CreatesAtWork, NoOne
<1>3. CreatesNew'
  BY KeptOpens DEF OneInv, CreatesNew
<1> QED
  BY <1>1, <1>2, <1>3, KeptOpens DEF OneInv

LEMMA SameRowsKept == ASSUME TypeOK, alerts' = alerts PROVE Kept
BY DEF Kept, Ids

LEMMA OneEnds ==
    ASSUME OneInv, NEW r \in Runs, Finish(r) \/ Crash(r)
    PROVE  (OneAtATime /\ CreatesAtWork /\ CreatesNew /\ OneOpenIncident)'
<1>1. run' = [run EXCEPT ![r] = Idle] /\ alerts' = alerts /\ ~In(r, "idle")
  BY DEF Finish, Crash, In
<1>2. \A q \in Runs : In(q, "idle")' /\ run'[q].creating = NoOne
  BY <1>1 DEF OneInv, TypeOK, OneAtATime, CreatesAtWork, In, Idle
<1>3. OneOpenIncident'
  BY <1>1, KeptOpens, SameRowsKept DEF OneInv
<1> QED
  BY <1>2, <1>3 DEF OneAtATime, CreatesAtWork, CreatesNew, NoOne

LEMMA OneStarts ==
    ASSUME OneInv, NEW r \in Runs, Start(r)
    PROVE  (OneAtATime /\ CreatesAtWork /\ CreatesNew /\ OneOpenIncident)'
<1>1. \A q \in Runs : In(q, "idle") /\ run[q].creating = NoOne
  BY DEF OneInv, OneAtATime, CreatesAtWork, Start, MayStart
<1> DEFINE K == {c.key : c \in Conditions}
<1>2. run' = [run EXCEPT ![r] = [Idle EXCEPT !.stage = "opening", !.todo = Conditions,
                                             !.keys = K]]
  BY DEF Start
<1> HIDE DEF K
<1>3. /\ \A q \in Runs : q # r => In(q, "idle")'
      /\ \A q \in Runs : run'[q].creating = NoOne
      /\ mutex'
  BY <1>1, <1>2 DEF OneInv, TypeOK, In, Idle, Start
<1>4. OneOpenIncident'
  BY KeptOpens, SameRowsKept DEF OneInv, Start
<1> QED
  BY <1>3, <1>4 DEF OneAtATime, CreatesAtWork, CreatesNew, NoOne

LEMMA OneLooks ==
    ASSUME OneInv, NEW r \in Runs, Look(r)
    PROVE  (OneAtATime /\ CreatesAtWork /\ CreatesNew /\ OneOpenIncident)'
<1>1. PICK c \in run[r].todo :
        run' = [run EXCEPT ![r].todo = @ \ {c},
                           ![r].creating = IF OpenOf(c.key) = {} THEN {c} ELSE NoOne]
  BY DEF Look
<1>2. Kept
  BY LookKeeps DEF OneInv
<1>3. /\ \A q \in Runs : run'[q].stage = run[q].stage
      /\ \A q \in Runs : q # r => run'[q].creating = run[q].creating
      /\ run'[r].creating = IF OpenOf(c.key) = {} THEN {c} ELSE NoOne
  BY <1>1 DEF OneInv, TypeOK, Run
<1>4. OneAtATime'
  BY <1>3 DEF OneInv, OneAtATime, In, Look
<1>5. CreatesAtWork'
  BY <1>3 DEF OneInv, CreatesAtWork, In, Look
<1>6. \A q \in Runs : \A d \in run'[q].creating : OpenOf(d.key) = {}
  BY <1>3 DEF OneInv, CreatesNew, NoOne
<1>7. CreatesNew'
  BY <1>2, <1>6, KeptOpens DEF CreatesNew
<1> QED
  BY <1>2, <1>4, <1>5, <1>7, KeptOpens DEF OneInv

LEMMA OneCreates ==
    ASSUME OneInv, NEW r \in Runs, Create(r)
    PROVE  (OneAtATime /\ CreatesAtWork /\ CreatesNew /\ OneOpenIncident)'
<1>1. run' = [run EXCEPT ![r].creating = NoOne] /\ mutex' = mutex
  BY DEF Create
<1>2. run[r].creating # NoOne
  BY DEF Create, NoOne
<1>3. ~In(r, "idle") /\ \A q \in Runs : q # r => run[q].creating = NoOne
  BY <1>2 DEF OneInv, OneAtATime, CreatesAtWork
<1>4. \A q \in Runs : run'[q].creating = NoOne /\ run'[q].stage = run[q].stage
  BY <1>1, <1>3 DEF OneInv, TypeOK, Run
<1>5. OneAtATime' /\ CreatesAtWork' /\ CreatesNew'
  BY <1>1, <1>4 DEF OneInv, OneAtATime, CreatesAtWork, CreatesNew, In, NoOne
<1>6. PICK c \in run[r].creating : alerts'[Len(alerts')] = Opened(c)
  BY CreateType DEF OneInv
<1>7. OpenOf(c.key) = {}
  BY DEF OneInv, CreatesNew
<1>8. /\ Len(alerts') = Len(alerts) + 1 /\ Len(alerts) \in Nat
      /\ \A i \in Ids : alerts'[i] = alerts[i]
  BY CreateType, LenProperties DEF OneInv, TypeOK
<1>9. \A i \in Ids : Firing(i) => alerts[i].key # c.key
  BY <1>7 DEF OpenOf
<1>10. alerts'[Len(alerts) + 1].key = c.key
  BY <1>6, <1>8 DEF Opened
<1>11. ASSUME NEW i \in Ids', NEW j \in Ids', Firing(i)', Firing(j)',
              alerts'[i].key = alerts'[j].key
       PROVE  i = j
  <2>1. (i \in Ids \/ i = Len(alerts) + 1) /\ (j \in Ids \/ j = Len(alerts) + 1)
    BY <1>8 DEF Ids
  <2> QED
    BY <1>8, <1>9, <1>10, <1>11, <2>1 DEF OneInv, OneOpenIncident, Firing
<1> QED
  BY <1>5, <1>11 DEF OneOpenIncident

LEMMA OneStep == OneInv /\ [Next]_vars => OneInv'
<1> SUFFICES ASSUME OneInv, [Next]_vars
             PROVE  (OneAtATime /\ CreatesAtWork /\ CreatesNew /\ OneOpenIncident)'
  BY TypeStep DEF OneInv
<1> USE DEF watched, bounds
<1>1. ASSUME NEW r \in Runs, Start(r) \/ Look(r) \/ Create(r) \/ Finish(r) \/ Crash(r)
      PROVE  (OneAtATime /\ CreatesAtWork /\ CreatesNew /\ OneOpenIncident)'
  BY <1>1, OneStarts, OneLooks, OneCreates, OneEnds
<1>2. ASSUME NEW r \in Runs, Resolve(r)
      PROVE  (OneAtATime /\ CreatesAtWork /\ CreatesNew /\ OneOpenIncident)'
  <2> DEFINE l == {i \in Ids : ~alerts'[i].resolved}
  <2>1. run' = [run EXCEPT ![r].stage = "telling", ![r].list = l] /\ In(r, "opening")
    BY <1>2 DEF Resolve
  <2> HIDE DEF l
  <2>2. \A q \in Runs : run'[q].creating \subseteq run[q].creating
                        /\ (In(q, "idle")' <=> In(q, "idle"))
    BY <2>1 DEF OneInv, TypeOK, Run, In
  <2> QED
    BY <1>2, <2>2, OneKept, ResolveKeeps DEF OneInv, Resolve
<1>3. ASSUME NEW r \in Runs, NEW i \in Ids,
             NotDue(r, i) \/ Tell(r, i) \/ TellClear(r, i) \/ NoneTold(r, i) \/ Undelivered(r, i)
      PROVE  (OneAtATime /\ CreatesAtWork /\ CreatesNew /\ OneOpenIncident)'
  <2>1. run' = [run EXCEPT ![r].sent = {i}] \/ run' = [run EXCEPT ![r].list = @ \ {i}]
    BY <1>3 DEF NotDue, Tell, TellClear, NoneTold, Undelivered, Dropped
  <2>2. \A q \in Runs : run'[q].creating \subseteq run[q].creating
                        /\ (In(q, "idle")' <=> In(q, "idle"))
    <3>1. \A q \in Runs : run'[q].creating = run[q].creating /\ run'[q].stage = run[q].stage
      <4>1. CASE run' = [run EXCEPT ![r].sent = {i}]
        BY <4>1 DEF OneInv, TypeOK, Run
      <4>2. CASE run' = [run EXCEPT ![r].list = @ \ {i}]
        BY <4>2 DEF OneInv, TypeOK, Run
      <4> QED
        BY <2>1, <4>1, <4>2
    <3> QED
      BY <3>1 DEF In
  <2>3. Kept
    <3>1. CASE NoneTold(r, i)
      <4>1. [alerts[i] EXCEPT !.settled = TRUE] \in Incident
        BY RowType DEF Incident, OneInv
      <4> QED
        BY <3>1, <4>1, RowType, RowChanged DEF NoneTold, Incident, OneInv
    <3>2. CASE alerts' = alerts
      BY <3>2, SameRowsKept DEF OneInv
    <3> QED
      BY <1>3, <3>1, <3>2 DEF NotDue, Tell, TellClear, Undelivered
  <2>4. mutex' = mutex
    BY <1>3 DEF NotDue, Tell, TellClear, NoneTold, Undelivered
  <2> QED
    BY <2>2, <2>3, <2>4, OneKept
<1>4. ASSUME NEW r \in Runs, Record(r)
      PROVE  (OneAtATime /\ CreatesAtWork /\ CreatesNew /\ OneOpenIncident)'
  <2>1. PICK i \in run[r].sent : run' = [run EXCEPT ![r].sent = NoOne, ![r].list = @ \ {i}]
    BY <1>4 DEF Record
  <2>2. \A q \in Runs : run'[q].creating \subseteq run[q].creating
                        /\ (In(q, "idle")' <=> In(q, "idle"))
    BY <2>1 DEF OneInv, TypeOK, Run, In
  <2> QED
    BY <1>4, <2>2, RecordKeeps, OneKept DEF OneInv, Record
<1>5. ASSUME NEW r \in Runs, TurnToCleared(r)
      PROVE  (OneAtATime /\ CreatesAtWork /\ CreatesNew /\ OneOpenIncident)'
  <2> DEFINE l == {i \in Ids : alerts[i].resolved /\ ~alerts[i].settled}
  <2>1. run' = [run EXCEPT ![r].stage = "clearing", ![r].list = l] /\ In(r, "telling")
    BY <1>5 DEF TurnToCleared
  <2> HIDE DEF l
  <2>2. \A q \in Runs : run'[q].creating \subseteq run[q].creating
                        /\ (In(q, "idle")' <=> In(q, "idle"))
    BY <2>1 DEF OneInv, TypeOK, Run, In
  <2> QED
    BY <1>5, <2>2, OneKept, SameRowsKept DEF OneInv, TurnToCleared
<1>6. CASE MutexExpires
  <2>1. run' = run /\ alerts' = alerts /\ \A r \in Runs : In(r, "idle")
    BY <1>6 DEF MutexExpires
  <2>2. OneAtATime' /\ CreatesAtWork'
    BY <2>1 DEF OneInv, OneAtATime, CreatesAtWork, In
  <2>3. CreatesNew' /\ OneOpenIncident'
    BY <2>1, KeptOpens, SameRowsKept DEF OneInv, CreatesNew
  <2> QED
    BY <2>2, <2>3
<1>7. CASE Tick
  BY <1>7, TickKeeps, OneKept DEF OneInv, Tick, In
<1>8. CASE UNCHANGED <<alerts, run, mutex>>
  BY <1>8, OneKept, SameRowsKept DEF OneInv, In
<1>9. ASSUME NEW a \in Accounts, Beat(a) \/ Stall(a) \/ Carry(a)
      PROVE  UNCHANGED <<alerts, run, mutex>>
  BY <1>9 DEF Beat, Stall, Carry
<1>10. Switch \/ Channel \/ UNCHANGED vars => UNCHANGED <<alerts, run, mutex>>
  BY DEF Switch, Channel, vars
<1> QED
  BY <1>1, <1>2, <1>3, <1>4, <1>5, <1>6, <1>7, <1>8, <1>9, <1>10 DEF Next, RunStep

\* However many runs are killed and however long their mutex stays, two rows of one condition
\* are never firing at once.
THEOREM MonitorOneOpenIncident == Spec => []OneOpenIncident
<1>1. Init => OneInv
  <2> SUFFICES ASSUME Init PROVE OneInv
    OBVIOUS
  <2>1. \A r \in Runs : In(r, "idle") /\ run[r].creating = NoOne
    BY DEF Init, In, Idle
  <2>2. Ids = {}
    BY EmptySeq DEF Init, Ids
  <2> QED
    BY <2>1, <2>2, TypeInit
    DEF OneInv, OneAtATime, CreatesAtWork, CreatesNew, OneOpenIncident, NoOne
<1>2. OneInv /\ [Next]_vars => OneInv'
  BY OneStep
<1>3. OneInv => OneOpenIncident
  BY DEF OneInv
<1> QED
  BY <1>1, <1>2, <1>3, PTL DEF Spec

-----------------------------------------------------------------------------
\* No all-clear nobody needs

IsTold(i) == told[i].level # "none"

\* What is on record as announced, or out and not yet on record, has been told.
AnnouncedIsTold == \A i \in Ids : alerts[i].announced => IsTold(i)
OutIsTold       == \A r \in Runs : ~In(r, "clearing") => \A i \in run[r].sent : IsTold(i)
\* What a run is clearing stays resolved.
ClearsResolved  == \A r \in Runs : In(r, "clearing") => \A i \in run[r].list : ~Firing(i)

TellInv == TypeOK /\ AnnouncedIsTold /\ OutIsTold /\ ClearsResolved /\ ClearsWhatWasTold

\* A step of a run that tells nobody anything.
LEMMA TellKept ==
    ASSUME TellInv, Kept, told' = told,
           \A i \in Ids : alerts'[i].announced => alerts[i].announced,
           \A q \in Runs : /\ In(q, "clearing") \/ ~In(q, "clearing")'
                           /\ ~In(q, "clearing")' /\ In(q, "clearing") => run'[q].sent = {}
                           /\ run'[q].sent \subseteq run[q].sent
                           /\ run'[q].list \subseteq run[q].list \/ ~In(q, "clearing")'
    PROVE  (AnnouncedIsTold /\ OutIsTold /\ ClearsResolved /\ ClearsWhatWasTold)'
<1>1. Ids' = Ids /\ \A i \in Ids : (IsTold(i)' <=> IsTold(i)) /\ (~Firing(i) => ~Firing(i)')
  BY DEF Kept, Ids, IsTold, Firing
<1>2. AnnouncedIsTold'
  BY <1>1 DEF TellInv, AnnouncedIsTold
<1>3. OutIsTold'
  <2> SUFFICES ASSUME NEW q \in Runs, ~In(q, "clearing")', NEW i \in run'[q].sent
               PROVE  IsTold(i)'
    BY DEF OutIsTold
  <2>1. ~In(q, "clearing") /\ i \in run[q].sent
    OBVIOUS
  <2> QED
    BY <1>1, <2>1 DEF TellInv, OutIsTold, TypeOK
<1>4. ClearsResolved'
  <2> SUFFICES ASSUME NEW q \in Runs, In(q, "clearing")', NEW i \in run'[q].list
               PROVE  ~Firing(i)'
    BY DEF ClearsResolved
  <2>1. In(q, "clearing") /\ i \in run[q].list
    OBVIOUS
  <2> QED
    BY <1>1, <2>1 DEF TellInv, ClearsResolved, TypeOK
<1>5. ClearsWhatWasTold'
  BY <1>1 DEF TellInv, ClearsWhatWasTold, IsTold
<1> QED
  BY <1>2, <1>3, <1>4, <1>5

LEMMA TellTells ==
    ASSUME TellInv, NEW r \in Runs, NEW i \in Ids, Tell(r, i)
    PROVE  (AnnouncedIsTold /\ OutIsTold /\ ClearsResolved /\ ClearsWhatWasTold)'
<1>1. /\ alerts' = alerts /\ told' = [told EXCEPT ![i].level = alerts[i].level]
      /\ In(r, "telling") /\ Firing(i)
      /\ run' = [run EXCEPT ![r].sent = {i}] \/ run' = [run EXCEPT ![r].list = @ \ {i}]
  BY DEF Tell, NeedsNotifying, Dropped
<1>2. alerts[i].level \in Grades /\ Ids' = Ids
  BY <1>1, RowType DEF TellInv, Incident, Ids
<1>3. DOMAIN told = Ids /\ \A j \in Ids : told[j] \in Told
  BY RowType, LenProperties DEF TellInv, TypeOK, Ids
<1>4. /\ IsTold(i)' /\ \A j \in Ids : IsTold(j) => IsTold(j)'
      /\ \A j \in Ids : told'[j].clear = told[j].clear
  BY <1>1, <1>2, <1>3 DEF IsTold, Told, Grades
<1>5. \A q \in Runs : /\ run'[q].stage = run[q].stage
                      /\ run'[q].list \subseteq run[q].list
                      /\ run'[q].sent \subseteq run[q].sent \/ run'[q].sent = {i}
  <2>1. CASE run' = [run EXCEPT ![r].sent = {i}]
    BY <2>1 DEF TellInv, TypeOK, Run
  <2>2. CASE run' = [run EXCEPT ![r].list = @ \ {i}]
    BY <2>2 DEF TellInv, TypeOK, Run
  <2> QED
    BY <1>1, <2>1, <2>2
<1>6. AnnouncedIsTold'
  BY <1>1, <1>2, <1>4 DEF TellInv, AnnouncedIsTold
<1>7. OutIsTold'
  BY <1>4, <1>5 DEF TellInv, OutIsTold, In, TypeOK
<1>8. ClearsResolved'
  BY <1>1, <1>5 DEF TellInv, ClearsResolved, In, Firing
<1>9. ClearsWhatWasTold'
  BY <1>1, <1>2, <1>4 DEF TellInv, ClearsWhatWasTold, IsTold, Firing
<1> QED
  BY <1>6, <1>7, <1>8, <1>9

LEMMA TellClears ==
    ASSUME TellInv, NEW r \in Runs, NEW i \in Ids, TellClear(r, i)
    PROVE  (AnnouncedIsTold /\ OutIsTold /\ ClearsResolved /\ ClearsWhatWasTold)'
<1>1. /\ alerts' = alerts /\ told' = [told EXCEPT ![i].clear = TRUE]
      /\ In(r, "clearing") /\ i \in run[r].list /\ alerts[i].announced
      /\ run' = [run EXCEPT ![r].sent = {i}] \/ run' = [run EXCEPT ![r].list = @ \ {i}]
  BY DEF TellClear, Next1, Dropped
<1>2. IsTold(i) /\ ~Firing(i) /\ Ids' = Ids
  BY <1>1 DEF TellInv, AnnouncedIsTold, ClearsResolved, Ids
<1>3. DOMAIN told = Ids /\ \A j \in Ids : told[j] \in Told
  BY RowType, LenProperties DEF TellInv, TypeOK, Ids
<1>4. /\ \A j \in Ids : told'[j].level = told[j].level
      /\ \A j \in Ids : j # i => told'[j].clear = told[j].clear
  BY <1>1, <1>3 DEF Told
<1>5. \A q \in Runs : /\ run'[q].stage = run[q].stage
                      /\ run'[q].list \subseteq run[q].list
                      /\ q # r => run'[q].sent = run[q].sent
  <2>1. CASE run' = [run EXCEPT ![r].sent = {i}]
    BY <2>1 DEF TellInv, TypeOK, Run
  <2>2. CASE run' = [run EXCEPT ![r].list = @ \ {i}]
    BY <2>2 DEF TellInv, TypeOK, Run
  <2> QED
    BY <1>1, <2>1, <2>2
<1>6. AnnouncedIsTold'
  BY <1>1, <1>2, <1>4 DEF TellInv, AnnouncedIsTold, IsTold
<1>7. OutIsTold'
  <2> SUFFICES ASSUME NEW q \in Runs, ~In(q, "clearing")', NEW j \in run'[q].sent
               PROVE  IsTold(j)'
    BY DEF OutIsTold
  <2>1. ~In(q, "clearing") /\ q # r
    BY <1>1, <1>5 DEF In
  <2>2. j \in run[q].sent /\ j \in Ids
    BY <1>5, <2>1 DEF TellInv, TypeOK
  <2> QED
    BY <1>4, <2>1, <2>2 DEF TellInv, OutIsTold, IsTold
<1>8. ClearsResolved'
  BY <1>1, <1>5 DEF TellInv, ClearsResolved, In, Firing
<1>9. ClearsWhatWasTold'
  BY <1>1, <1>2, <1>4 DEF TellInv, ClearsWhatWasTold, IsTold, Firing
<1> QED
  BY <1>6, <1>7, <1>8, <1>9

LEMMA TellCreates ==
    ASSUME TellInv, NEW r \in Runs, Create(r)
    PROVE  (AnnouncedIsTold /\ OutIsTold /\ ClearsResolved /\ ClearsWhatWasTold)'
<1>1. PICK c \in run[r].creating : alerts'[Len(alerts')] = Opened(c)
  BY CreateType DEF TellInv
<1>2. /\ Len(alerts') = Len(alerts) + 1 /\ Len(alerts) \in Nat /\ Len(told) = Len(alerts)
      /\ Len(told') = Len(told) + 1
      /\ told'[Len(told')] = [level |-> "none", clear |-> FALSE]
      /\ \A i \in Ids : alerts'[i] = alerts[i] /\ told'[i] = told[i]
  BY CreateType, LenProperties DEF TellInv, TypeOK
<1>3. \A i \in Ids' : \/ i \in Ids
                      \/ ~alerts'[i].announced /\ ~told'[i].clear
  BY <1>1, <1>2 DEF Ids, Opened
<1>4. \A q \in Runs : /\ run'[q].stage = run[q].stage /\ run'[q].list = run[q].list
                      /\ run'[q].sent = run[q].sent
  BY DEF Create, TellInv, TypeOK, Run
<1>5. AnnouncedIsTold'
  BY <1>2, <1>3 DEF TellInv, AnnouncedIsTold, IsTold
<1>6. OutIsTold'
  BY <1>2, <1>4 DEF TellInv, OutIsTold, IsTold, In, TypeOK
<1>7. ClearsResolved'
  BY <1>2, <1>4 DEF TellInv, ClearsResolved, Firing, In, TypeOK
<1>8. ClearsWhatWasTold'
  BY <1>2, <1>3 DEF TellInv, ClearsWhatWasTold, Firing
<1> QED
  BY <1>5, <1>6, <1>7, <1>8

LEMMA TellRecords ==
    ASSUME TellInv, NEW r \in Runs, Record(r)
    PROVE  (AnnouncedIsTold /\ OutIsTold /\ ClearsResolved /\ ClearsWhatWasTold)'
<1>1. PICK i \in run[r].sent :
        /\ i \in Ids
        /\ alerts' = IF In(r, "telling")
                     THEN [alerts EXCEPT ![i].age = 0, ![i].announced = TRUE]
                     ELSE [alerts EXCEPT ![i].settled = TRUE]
        /\ run' = [run EXCEPT ![r].sent = NoOne, ![r].list = @ \ {i}]
  BY RecordKeeps DEF TellInv
<1>2. Kept /\ told' = told /\ \A j \in Ids : alerts'[j].resolved = alerts[j].resolved
  BY RecordKeeps DEF TellInv, Record
<1>3. DOMAIN alerts = Ids /\ \A j \in Ids : alerts[j] \in Incident
  BY RowType, LenProperties DEF TellInv, TypeOK, Ids
<1>4. In(r, "telling") => IsTold(i)
  BY DEF TellInv, OutIsTold, In
<1>5. \A j \in Ids : alerts'[j].announced => alerts[j].announced \/ (In(r, "telling") /\ j = i)
  <2>1. CASE In(r, "telling")
    BY <1>1, <1>3, <2>1 DEF Incident
  <2>2. CASE ~In(r, "telling")
    BY <1>1, <1>3, <2>2 DEF Incident
  <2> QED
    BY <2>1, <2>2
<1>6. Ids' = Ids
  BY <1>2 DEF Kept, Ids
<1>7. \A q \in Runs : /\ run'[q].stage = run[q].stage
                      /\ run'[q].list \subseteq run[q].list
                      /\ run'[q].sent \subseteq run[q].sent
  BY <1>1 DEF TellInv, TypeOK, Run, NoOne
<1>8. AnnouncedIsTold'
  BY <1>2, <1>4, <1>5, <1>6 DEF TellInv, AnnouncedIsTold, IsTold
<1>9. OutIsTold'
  BY <1>2, <1>7 DEF TellInv, OutIsTold, IsTold, In
<1>10. ClearsResolved'
  BY <1>2, <1>7 DEF TellInv, ClearsResolved, In, Firing, TypeOK
<1>11. ClearsWhatWasTold'
  BY <1>2, <1>6 DEF TellInv, ClearsWhatWasTold, Firing
<1> QED
  BY <1>8, <1>9, <1>10, <1>11

LEMMA TellTurns ==
    ASSUME TellInv, NEW r \in Runs, TurnToCleared(r)
    PROVE  (AnnouncedIsTold /\ OutIsTold /\ ClearsResolved /\ ClearsWhatWasTold)'
<1> DEFINE l == {i \in Ids : alerts[i].resolved /\ ~alerts[i].settled}
<1>1. run' = [run EXCEPT ![r].stage = "clearing", ![r].list = l]
      /\ alerts' = alerts /\ told' = told
  BY DEF TurnToCleared
<1>2. \A i \in l : ~Firing(i)'
  BY <1>1 DEF Firing
<1> HIDE DEF l
<1>3. /\ run'[r].stage = "clearing" /\ run'[r].list = l
      /\ \A q \in Runs : q # r => run'[q] = run[q]
  BY <1>1 DEF TellInv, TypeOK, Run
<1>4. AnnouncedIsTold' /\ ClearsWhatWasTold'
  BY <1>1 DEF TellInv, AnnouncedIsTold, ClearsWhatWasTold, IsTold, Firing, Ids
<1>5. OutIsTold'
  BY <1>1, <1>3 DEF TellInv, OutIsTold, IsTold, In
<1>6. ClearsResolved'
  BY <1>1, <1>2, <1>3 DEF TellInv, ClearsResolved, Firing, In
<1> QED
  BY <1>4, <1>5, <1>6

LEMMA TellStep == TellInv /\ [Next]_vars => TellInv'
<1> SUFFICES ASSUME TellInv, [Next]_vars
             PROVE  (AnnouncedIsTold /\ OutIsTold /\ ClearsResolved /\ ClearsWhatWasTold)'
  BY TypeStep DEF TellInv
<1> USE DEF watched, bounds
<1>1. ASSUME NEW r \in Runs, Create(r) \/ Record(r) \/ TurnToCleared(r)
      PROVE  (AnnouncedIsTold /\ OutIsTold /\ ClearsResolved /\ ClearsWhatWasTold)'
  BY <1>1, TellCreates, TellRecords, TellTurns
<1>2. ASSUME NEW r \in Runs, Start(r)
      PROVE  (AnnouncedIsTold /\ OutIsTold /\ ClearsResolved /\ ClearsWhatWasTold)'
  <2> DEFINE K == {c.key : c \in Conditions}
  <2>1. run' = [run EXCEPT ![r] = [Idle EXCEPT !.stage = "opening", !.todo = Conditions,
                                               !.keys = K]] /\ In(r, "idle")
    BY <1>2 DEF Start
  <2> HIDE DEF K
  <2>2. /\ run'[r].stage = "opening" /\ run'[r].sent = {} /\ run[r].stage = "idle"
        /\ \A q \in Runs : q # r => run'[q] = run[q]
    BY <2>1 DEF TellInv, TypeOK, Idle, NoOne, In
  <2>3. Kept /\ told' = told /\ alerts' = alerts
    BY <1>2, SameRowsKept DEF Start, TellInv
  <2> QED
    BY <2>2, <2>3, TellKept DEF In
<1>3. ASSUME NEW r \in Runs, Look(r)
      PROVE  (AnnouncedIsTold /\ OutIsTold /\ ClearsResolved /\ ClearsWhatWasTold)'
  <2>1. PICK c \in run[r].todo :
          /\ run' = [run EXCEPT ![r].todo = @ \ {c},
                                ![r].creating = IF OpenOf(c.key) = {} THEN {c} ELSE NoOne]
          /\ alerts' = [i \in Ids |->
                          IF i \in OpenOf(c.key) /\ \A j \in OpenOf(c.key) : i <= j
                          THEN [alerts[i] EXCEPT !.level = c.level] ELSE alerts[i]]
    BY <1>3 DEF Look
  <2>2. \A q \in Runs : /\ run'[q].stage = run[q].stage /\ run'[q].list = run[q].list
                        /\ run'[q].sent = run[q].sent
    BY <2>1 DEF TellInv, TypeOK, Run
  <2>3. \A i \in Ids : alerts'[i].announced = alerts[i].announced
    BY <2>1, RowType DEF TellInv, Incident
  <2>4. told' = told
    BY <1>3 DEF Look
  <2> QED
    BY <1>3, <2>2, <2>3, <2>4, LookKeeps, TellKept DEF In, TellInv
<1>4. ASSUME NEW r \in Runs, Resolve(r)
      PROVE  (AnnouncedIsTold /\ OutIsTold /\ ClearsResolved /\ ClearsWhatWasTold)'
  <2> DEFINE l == {i \in Ids : ~alerts'[i].resolved}
  <2>1. /\ run' = [run EXCEPT ![r].stage = "telling", ![r].list = l]
        /\ In(r, "opening") /\ told' = told /\ alerts' = ResolvedAbsent(run[r].keys)
    BY <1>4 DEF Resolve
  <2> HIDE DEF l
  <2>2. /\ run'[r].stage = "telling" /\ run'[r].sent = run[r].sent
        /\ \A q \in Runs : q # r => run'[q] = run[q]
    BY <2>1 DEF TellInv, TypeOK, Run
  <2>3. \A i \in Ids : alerts'[i].announced = alerts[i].announced
    BY <2>1, RowType DEF TellInv, Incident, ResolvedAbsent
  <2> QED
    BY <1>4, <2>1, <2>2, <2>3, ResolveKeeps, TellKept DEF In, TellInv
<1>5. ASSUME NEW r \in Runs, NEW i \in Ids, Tell(r, i) \/ TellClear(r, i)
      PROVE  (AnnouncedIsTold /\ OutIsTold /\ ClearsResolved /\ ClearsWhatWasTold)'
  BY <1>5, TellTells, TellClears
<1>6. ASSUME NEW r \in Runs, NEW i \in Ids,
             NotDue(r, i) \/ NoneTold(r, i) \/ Undelivered(r, i)
      PROVE  (AnnouncedIsTold /\ OutIsTold /\ ClearsResolved /\ ClearsWhatWasTold)'
  <2>1. run' = [run EXCEPT ![r].list = @ \ {i}] /\ told' = told
    BY <1>6 DEF NotDue, NoneTold, Undelivered, Dropped
  <2>2. \A q \in Runs : /\ run'[q].stage = run[q].stage /\ run'[q].sent = run[q].sent
                        /\ run'[q].list \subseteq run[q].list
    BY <2>1 DEF TellInv, TypeOK, Run
  <2>3. Kept /\ \A j \in Ids : alerts'[j].announced = alerts[j].announced
    <3>1. CASE NoneTold(r, i)
      <4>1. [alerts[i] EXCEPT !.settled = TRUE] \in Incident
        BY RowType DEF Incident, TellInv
      <4>2. DOMAIN alerts = Ids /\ \A j \in Ids : alerts[j] \in Incident
        BY RowType, LenProperties DEF TellInv, TypeOK, Ids
      <4>3. \A j \in Ids : alerts'[j].announced = alerts[j].announced
        BY <3>1, <4>2 DEF NoneTold, Incident
      <4> QED
        BY <3>1, <4>1, <4>3, RowType, RowChanged DEF NoneTold, Incident, TellInv
    <3>2. CASE alerts' = alerts
      BY <3>2, SameRowsKept DEF TellInv
    <3> QED
      BY <1>6, <3>1, <3>2 DEF NotDue, Undelivered
  <2> QED
    BY <2>1, <2>2, <2>3, TellKept DEF In
<1>7. ASSUME NEW r \in Runs, Finish(r) \/ Crash(r)
      PROVE  (AnnouncedIsTold /\ OutIsTold /\ ClearsResolved /\ ClearsWhatWasTold)'
  <2>1. run' = [run EXCEPT ![r] = Idle] /\ alerts' = alerts /\ told' = told
    BY <1>7 DEF Finish, Crash
  <2>2. /\ run'[r].stage = "idle" /\ run'[r].sent = {}
        /\ \A q \in Runs : q # r => run'[q] = run[q]
    BY <2>1 DEF TellInv, TypeOK, Idle, NoOne
  <2> QED
    BY <2>1, <2>2, SameRowsKept, TellKept DEF In, TellInv
<1>8. CASE Tick
  BY <1>8, TickKeeps, TellKept DEF Tick, In, TellInv
<1>9. CASE UNCHANGED <<alerts, run, told>>
  BY <1>9, SameRowsKept, TellKept DEF In, TellInv
<1>10. ASSUME NEW a \in Accounts, Beat(a) \/ Stall(a) \/ Carry(a)
       PROVE  UNCHANGED <<alerts, run, told>>
  BY <1>10 DEF Beat, Stall, Carry
<1>11. MutexExpires \/ Switch \/ Channel \/ UNCHANGED vars => UNCHANGED <<alerts, run, told>>
  BY DEF MutexExpires, Switch, Channel, vars
<1> QED
  BY <1>1, <1>2, <1>3, <1>4, <1>5, <1>6, <1>7, <1>8, <1>9, <1>10, <1>11 DEF Next, RunStep

\* Whatever is lost or killed, an all-clear is only ever sent of an incident that was told and
\* is over.
THEOREM MonitorClearsWhatWasTold == Spec => []ClearsWhatWasTold
<1>1. Init => TellInv
  <2> SUFFICES ASSUME Init PROVE TellInv
    OBVIOUS
  <2>1. \A r \in Runs : In(r, "idle") /\ run[r].sent = {}
    BY DEF Init, In, Idle, NoOne
  <2>2. Ids = {}
    BY EmptySeq DEF Init, Ids
  <2> QED
    BY <2>1, <2>2, TypeInit
    DEF TellInv, AnnouncedIsTold, OutIsTold, ClearsResolved, ClearsWhatWasTold, In
<1>2. TellInv /\ [Next]_vars => TellInv'
  BY TellStep
<1>3. TellInv => ClearsWhatWasTold
  BY DEF TellInv
<1> QED
  BY <1>1, <1>2, <1>3, PTL DEF Spec
=============================================================================
