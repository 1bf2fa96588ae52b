------------------------------ MODULE HealthMonitor ------------------------------
(***************************************************************************)
(* bot:monitor, for one tenant: what is wrong is derived anew every minute *)
(* (HealthMonitor), kept as incidents in `alerts`, and told to the tenant  *)
(* over a channel that may be down or may not answer (AlertNotifier).      *)
(*                                                                         *)
(* One open incident per condition rests on the scheduler's mutex alone:   *)
(* open() looks for a row and creates one, and no index backs it.  A run   *)
(* that is killed leaves the mutex behind until it expires.                *)
(*                                                                         *)
(* An account's executor is silent, or reports and cannot trade (no broker *)
(* or Algo Trading off: one condition here), or sends no bars, or both.    *)
(* The conditions of the tenant as a whole (loss limit, queue, books) are  *)
(* opened, kept and resolved like these and are left out, and so are       *)
(* wording, /logs, and which channel it is: Telegram or a usable mailer.   *)
(***************************************************************************)
EXTENDS Naturals, Sequences, FiniteSets

CONSTANTS
    Accounts,     \* broker accounts an executor reports for
    Everyone,     \* the suffix of a key that needs none
    Runs,         \* 1..n: runs of the command that could be there at once
    Repeat,       \* ticks before a firing incident is told again
    MaxChanges,   \* bound: changes of what the monitor watches, and of the channel
    MaxLost,      \* bound: messages that arrive and whose answer does not
    MaxCrashes    \* bound: runs that are killed

ASSUME MonitorAssumption ==
    /\ IsFiniteSet(Accounts) /\ Everyone \notin Accounts
    /\ Runs = 1..Cardinality(Runs) /\ IsFiniteSet(Runs)
    /\ Repeat \in Nat \ {0}
    /\ MaxChanges \in Nat /\ MaxLost \in Nat /\ MaxCrashes \in Nat

VARIABLES
    \* what is watched
    active,     \* the bot is switched on
    beat,       \* [Accounts -> what its newest heartbeat says]
    stalled,    \* accounts whose bars have stopped in a session they trade in
    carrying,   \* accounts with open positions
    \* the table, and the scheduler's mutex
    alerts, mutex,
    run,        \* [Runs -> where it is]
    \* the channel: whether it takes messages; [incident -> what the tenant has been told]
    up, told,
    changes, lost, crashes

watched == <<active, beat, stalled, carrying>>
bounds  == <<changes, lost, crashes>>
vars    == <<watched, alerts, mutex, run, up, told, bounds>>

Beats  == {"none", "online", "blocked", "silent"}
Kinds  == {"executor_missing", "executor_offline", "cannot_trade", "feed_stalled"}
Grades == {"warning", "critical"}
Keys   == Kinds \X (Accounts \union {Everyone})
Condition == [key : Keys, level : Grades]

\* age: ticks since it was last told, or Never; announced: notify_count > 0;
\* settled: resolution_notified.
Never    == Repeat + 1
Incident == [key : Keys, level : Grades, resolved : BOOLEAN, age : 0..Never,
             announced : BOOLEAN, settled : BOOLEAN]
Ids      == 1..Len(alerts)

Stages   == {"idle", "opening", "telling", "clearing"}
NoOne    == {}   \* no condition, no incident is being dealt with
Run      == [stage : Stages, todo : SUBSET Condition, keys : SUBSET Keys,
             creating : SUBSET Condition, list : SUBSET Nat, sent : SUBSET Nat]
Idle     == [stage |-> "idle", todo |-> {}, keys |-> {}, creating |-> NoOne, list |-> {},
             sent |-> NoOne]

\* level: what it was last told as, "none" if it never was; clear: it was told to be over.
Told     == [level : Grades \union {"none"}, clear : BOOLEAN]

TypeOK ==
    /\ active \in BOOLEAN /\ up \in BOOLEAN /\ mutex \in BOOLEAN
    /\ beat \in [Accounts -> Beats]
    /\ stalled \subseteq Accounts /\ carrying \subseteq Accounts
    /\ alerts \in Seq(Incident)
    /\ run \in [Runs -> Run]
    /\ told \in Seq(Told) /\ Len(told) = Len(alerts)
    /\ \A r \in Runs : run[r].list \subseteq Ids /\ run[r].sent \subseteq Ids
    /\ changes \in Nat /\ lost \in Nat /\ crashes \in Nat

Init ==
    /\ active \in BOOLEAN
    /\ beat \in [Accounts -> {"none", "online"}] /\ stalled = {} /\ carrying = {}
    /\ alerts = <<>> /\ told = <<>>
    /\ mutex = FALSE
    /\ run = [r \in Runs |-> Idle]
    /\ up \in BOOLEAN
    /\ changes = 0 /\ lost = 0 /\ crashes = 0

-----------------------------------------------------------------------------
\* What is wrong

Reporting == {a \in Accounts : beat[a] # "none"}

\* One account needs no suffix, several have one each.
Suffix(a) == IF Cardinality(Reporting) > 1 THEN a ELSE Everyone

\* Mutant: a level the table does not have.
InfoUnless(atRisk) == IF atRisk THEN "critical" ELSE "info"
LevelIf(atRisk) == IF atRisk THEN "critical" ELSE "warning"

Offline(a)     == [key |-> <<"executor_offline", Suffix(a)>>, level |-> LevelIf(a \in carrying)]
CannotTrade(a) == [key |-> <<"cannot_trade", Suffix(a)>>, level |-> "critical"]
FeedStalled(a) == [key |-> <<"feed_stalled", Suffix(a)>>, level |-> LevelIf(a \in carrying)]

\* executorOffline; of one that reports, and is to trade, algoTradingBlocked and feedStalled.
OfAccount(a) ==
    IF beat[a] = "silent" THEN {Offline(a)}
    ELSE {c \in {CannotTrade(a)} : active /\ beat[a] = "blocked"}
         \union {c \in {FeedStalled(a)} : active /\ a \in stalled}

\* A bot that is off and holds nothing is not watched.
Conditions ==
    IF ~active /\ carrying = {} THEN {}
    ELSE IF Reporting = {}
         THEN {[key |-> <<"executor_missing", Everyone>>, level |-> LevelIf(carrying # {})]}
         ELSE UNION {OfAccount(a) : a \in Reporting}

-----------------------------------------------------------------------------
\* The table

Firing(i) == ~alerts[i].resolved
OpenOf(key) == {i \in Ids : Firing(i) /\ alerts[i].key = key}

Opened(c) == [key |-> c.key, level |-> c.level, resolved |-> FALSE, age |-> Never,
              announced |-> FALSE, settled |-> FALSE]

\* Mutant: an incident is told once.
NeedsNotifyingOnce(i) == Firing(i) /\ alerts[i].age = Never
NeedsNotifying(i) == Firing(i) /\ alerts[i].age >= Repeat

\* Mutant: nothing to keep is nothing to do.
ResolvedIfSomeFire(keys) ==
    [i \in Ids |-> [alerts[i] EXCEPT !.resolved = @ \/ (keys # {} /\ alerts[i].key \notin keys)]]
ResolvedAbsent(keys) ==
    [i \in Ids |-> [alerts[i] EXCEPT !.resolved = @ \/ alerts[i].key \notin keys]]

-----------------------------------------------------------------------------
\* A run

In(r, stage) == run[r].stage = stage

\* Mutant: the scheduler starts a run every minute.
MayStartAnyway == TRUE
MayStart == ~mutex

\* The scheduler starts the command, in the first free place, and the conditions are read.
Start(r) ==
    /\ MayStart
    /\ In(r, "idle") /\ \A q \in Runs : q < r => ~In(q, "idle")
    /\ mutex' = TRUE
    /\ run' = [run EXCEPT ![r] = [Idle EXCEPT !.stage = "opening", !.todo = Conditions,
                                              !.keys = {c.key : c \in Conditions}]]
    /\ UNCHANGED <<watched, alerts, up, told, bounds>>

\* open(): the incident there is gets the present level, and one there is not is created.
Look(r) ==
    /\ In(r, "opening") /\ run[r].creating = NoOne
    /\ \E c \in run[r].todo :
        /\ run' = [run EXCEPT ![r].todo = @ \ {c},
                              ![r].creating = IF OpenOf(c.key) = {} THEN {c} ELSE NoOne]
        /\ alerts' = [i \in Ids |->
                        IF i \in OpenOf(c.key) /\ \A j \in OpenOf(c.key) : i <= j
                        THEN [alerts[i] EXCEPT !.level = c.level] ELSE alerts[i]]
    /\ UNCHANGED <<watched, mutex, up, told, bounds>>

Create(r) ==
    /\ \E c \in run[r].creating :
        /\ alerts' = Append(alerts, Opened(c))
        /\ told' = Append(told, [level |-> "none", clear |-> FALSE])
    /\ run' = [run EXCEPT ![r].creating = NoOne]
    /\ UNCHANGED <<watched, mutex, up, bounds>>

\* resolveAbsent(), a loop over rows that were read as firing, and what is firing is read, to be told of.
Resolve(r) ==
    /\ In(r, "opening") /\ run[r].todo = {} /\ run[r].creating = NoOne
    /\ alerts' = ResolvedAbsent(run[r].keys)
    /\ run' = [run EXCEPT ![r].stage = "telling",
                          ![r].list = {i \in Ids : ~alerts'[i].resolved}]
    /\ UNCHANGED <<watched, mutex, up, told, bounds>>

Next1(r, i) == i \in run[r].list /\ run[r].sent = NoOne

Dropped(r, i) == run' = [run EXCEPT ![r].list = @ \ {i}]

NotDue(r, i) ==
    /\ In(r, "telling") /\ Next1(r, i)
    /\ ~NeedsNotifying(i)
    /\ Dropped(r, i)
    /\ UNCHANGED <<watched, alerts, mutex, up, told, bounds>>

\* dispatch(): the message is out, and the answer is on its way or is lost.
Tell(r, i) ==
    /\ In(r, "telling") /\ Next1(r, i)
    /\ NeedsNotifying(i) /\ up
    /\ told' = [told EXCEPT ![i].level = alerts[i].level]
    /\ \/ run' = [run EXCEPT ![r].sent = {i}] /\ UNCHANGED lost
       \/ lost < MaxLost /\ lost' = lost + 1 /\ Dropped(r, i)
    /\ UNCHANGED <<watched, alerts, mutex, up, changes, crashes>>

\* Mutant: everything resolved gets an all-clear.
TellClearAlways(r, i) ==
    /\ In(r, "clearing") /\ Next1(r, i) /\ up
    /\ told' = [told EXCEPT ![i].clear = TRUE]
    /\ run' = [run EXCEPT ![r].sent = {i}]
    /\ UNCHANGED <<watched, alerts, mutex, up, changes, lost, crashes>>

\* sendResolution() of an incident somebody was told of.
TellClear(r, i) ==
    /\ In(r, "clearing") /\ Next1(r, i)
    /\ alerts[i].announced /\ up
    /\ told' = [told EXCEPT ![i].clear = TRUE]
    /\ \/ run' = [run EXCEPT ![r].sent = {i}] /\ UNCHANGED lost
       \/ lost < MaxLost /\ lost' = lost + 1 /\ Dropped(r, i)
    /\ UNCHANGED <<watched, alerts, mutex, up, changes, crashes>>

\* One nobody was told of is marked, and that is all.
NoneTold(r, i) ==
    /\ In(r, "clearing") /\ Next1(r, i)
    /\ ~alerts[i].announced
    /\ alerts' = [alerts EXCEPT ![i].settled = TRUE]
    /\ Dropped(r, i)
    /\ UNCHANGED <<watched, mutex, up, told, bounds>>

\* No channel takes it: nothing is written, the next run tries again.
Undelivered(r, i) ==
    /\ Next1(r, i) /\ ~up
    /\ \/ In(r, "telling") /\ NeedsNotifying(i)
       \/ In(r, "clearing") /\ alerts[i].announced
    /\ Dropped(r, i)
    /\ UNCHANGED <<watched, alerts, mutex, up, told, bounds>>

\* Mutant: an all-clear is marked on the announcement.
RecordSettling(r) ==
    /\ \E i \in run[r].sent :
        /\ alerts' = [alerts EXCEPT ![i].age = 0, ![i].announced = TRUE, ![i].settled = TRUE]
        /\ run' = [run EXCEPT ![r].sent = NoOne, ![r].list = @ \ {i}]
    /\ UNCHANGED <<watched, mutex, up, told, bounds>>

\* The channel's answer has come, and the row says so.
Record(r) ==
    /\ \E i \in run[r].sent :
        /\ alerts' = IF In(r, "telling")
                     THEN [alerts EXCEPT ![i].age = 0, ![i].announced = TRUE]
                     ELSE [alerts EXCEPT ![i].settled = TRUE]
        /\ run' = [run EXCEPT ![r].sent = NoOne, ![r].list = @ \ {i}]
    /\ UNCHANGED <<watched, mutex, up, told, bounds>>

\* Everything firing has been dealt with; what has been resolved and not told is read.
TurnToCleared(r) ==
    /\ In(r, "telling") /\ run[r].list = {}
    /\ run' = [run EXCEPT ![r].stage = "clearing",
                          ![r].list = {i \in Ids : alerts[i].resolved /\ ~alerts[i].settled}]
    /\ UNCHANGED <<watched, alerts, mutex, up, told, bounds>>

Finish(r) ==
    /\ In(r, "clearing") /\ run[r].list = {}
    /\ run' = [run EXCEPT ![r] = Idle]
    /\ mutex' = FALSE
    /\ UNCHANGED <<watched, alerts, up, told, bounds>>

RunStep(r) ==
    \/ Look(r) \/ Create(r) \/ Resolve(r)
    \/ \E i \in Ids : NotDue(r, i) \/ Tell(r, i) \/ TellClear(r, i) \/ NoneTold(r, i)
                      \/ Undelivered(r, i)
    \/ Record(r) \/ TurnToCleared(r) \/ Finish(r)

-----------------------------------------------------------------------------
\* Around it

\* The process is killed, and its mutex stays.
Crash(r) ==
    /\ crashes < MaxCrashes /\ crashes' = crashes + 1
    /\ ~In(r, "idle")
    /\ run' = [run EXCEPT ![r] = Idle]
    /\ UNCHANGED <<watched, alerts, mutex, up, told, changes, lost>>

\* A day later; no run takes that long.
MutexExpires ==
    /\ mutex /\ \A r \in Runs : In(r, "idle")
    /\ mutex' = FALSE
    /\ UNCHANGED <<watched, alerts, run, up, told, bounds>>

Tick ==
    /\ alerts' = [i \in Ids |-> [alerts[i] EXCEPT !.age = IF @ < Repeat THEN @ + 1 ELSE @]]
    /\ UNCHANGED <<watched, mutex, run, up, told, bounds>>

Change == changes < MaxChanges /\ changes' = changes + 1

Beat(a) ==
    /\ Change
    /\ \E b \in Beats \ {"none", beat[a]} : beat' = [beat EXCEPT ![a] = b]
    /\ UNCHANGED <<active, stalled, carrying, alerts, mutex, run, up, told, lost, crashes>>

Switch ==
    /\ Change
    /\ active' = ~active
    /\ UNCHANGED <<beat, stalled, carrying, alerts, mutex, run, up, told, lost, crashes>>

Stall(a) ==
    /\ Change
    /\ stalled' = IF a \in stalled THEN stalled \ {a} ELSE stalled \union {a}
    /\ UNCHANGED <<active, beat, carrying, alerts, mutex, run, up, told, lost, crashes>>

Carry(a) ==
    /\ Change
    /\ carrying' = IF a \in carrying THEN carrying \ {a} ELSE carrying \union {a}
    /\ UNCHANGED <<active, beat, stalled, alerts, mutex, run, up, told, lost, crashes>>

Channel ==
    /\ Change
    /\ up' = ~up
    /\ UNCHANGED <<watched, alerts, mutex, run, told, lost, crashes>>

Next ==
    \/ \E r \in Runs : Start(r) \/ RunStep(r) \/ Crash(r)
    \/ MutexExpires \/ Tick
    \/ \E a \in Accounts : Beat(a) \/ Stall(a) \/ Carry(a)
    \/ Switch \/ Channel

Spec == Init /\ [][Next]_vars

\* The scheduler starts the command and it runs; time passes; a mutex nobody holds expires.
FairSpec ==
    /\ Spec
    /\ WF_vars(\E r \in Runs : Start(r)) /\ \A r \in Runs : WF_vars(RunStep(r))
    /\ WF_vars(MutexExpires) /\ WF_vars(Tick)

-----------------------------------------------------------------------------
\* Properties

\* "One open incident per key": two rows of one condition are never firing at once, although
\* open() looks and creates in two statements and a killed run leaves the mutex to expire.
OneOpenIncident ==
    \A i, j \in Ids : Firing(i) /\ Firing(j) /\ alerts[i].key = alerts[j].key => i = j

\* Nobody is told that an incident is over which they had not been told of, or which is not.
ClearsWhatWasTold ==
    \A i \in Ids : told[i].clear => told[i].level # "none" /\ ~Firing(i)

\* The table comes to say what is wrong, and nothing else, once what is watched stays as it is:
\* incidents opened by a run that was killed are resolved, resolved ones come back as new.
RecordsSettle ==
    <>[]({[key |-> alerts[i].key, level |-> alerts[i].level] : i \in {j \in Ids : Firing(j)}}
            = Conditions)

\* If the channel comes back for good, every incident is told as what it is: a warning that has
\* become critical is told as critical, and one whose message was refused, or lost with its
\* run, is told later.
Settled(i) == i \in Ids => ~Firing(i) \/ told[i].level = alerts[i].level
TellsHowBad == <>[]up => <>[](\A i \in Ids : Settled(i))

\* And whoever was told, by a message the monitor knows of, is told when it is over.
TellsWhenOver == <>[]up => <>[](\A i \in Ids : alerts[i].announced => Firing(i) \/ told[i].clear)
=============================================================================
