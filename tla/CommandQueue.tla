------------------------------ MODULE CommandQueue ------------------------------
(***************************************************************************)
(* The trade_commands queue: the one channel by which the dashboard makes  *)
(* a terminal act.  A row is keyed by its idempotency key (unique index);  *)
(* callers enqueue, executors claim a batch, carry it out and post what    *)
(* the broker said, and a scheduled sweep ages out what nobody finished.   *)
(*                                                                         *)
(* One action per database statement or transaction: enqueue() reads and   *)
(* writes in two statements without a lock, so it is two actions;          *)
(* claimBatch() is one transaction under row locks, so it is one.  The     *)
(* terminal is reduced to what the queue can see of it: a batch in hand,   *)
(* worked off in order, one result posted per command.  Requests can be    *)
(* lost either way, or reach the server after the terminal gave up.        *)
(*                                                                         *)
(* An order that rests at the broker is done as soon as it is placed; if   *)
(* it leaves the book unfilled, its command is failed by a second result,  *)
(* which the terminal keeps until the server has answered it.              *)
(*                                                                         *)
(* Left out: the payload (a function of the key for every caller), the     *)
(* wire format, the user scope (one user's rows; another user's token      *)
(* gets a 404 from result() and changes nothing), and the limit of 32      *)
(* resting orders a terminal remembers.                                    *)
(***************************************************************************)
EXTENDS Integers, FiniteSets

CONSTANTS
    Keys,          \* idempotency keys, one row each
    Callers,       \* processes that enqueue: a scheduled pass, a candle push, a page
    Protected,     \* <<caller, key>>: what goes through ProtectionQueue::send
    Executors,     \* terminals polling with a token of this user
    AccountOf,     \* [Keys -> accounts], NoAccount for a start or stop command
    Binding,       \* [Executors -> accounts], NoAccount for an unbound token
    NoAccount,
    Lifetime,      \* [Keys -> Nat], in ticks; 0 is "no expiry", as in enqueue()
    StaleClaim,    \* STALE_CLAIM_MINUTES, in ticks
    Backoff,       \* RETRY_BACKOFF_SECONDS, in ticks
    Limit,         \* size of one claimed batch
    Punctual,      \* TRUE: requests and command execution take less than a tick
    Resting,       \* keys of orders that rest at the broker before they fill
    MaxAttempts,   \* bound: claims of one row
    MaxFaults,     \* bound: lost or late requests and terminal crashes
    MaxRefusals    \* bound: commands the broker refuses

ASSUME KeysAssumption == IsFiniteSet(Keys) /\ Resting \subseteq Keys
ASSUME CallersAssumption == Protected \subseteq Callers \X Keys
ASSUME TimesAssumption ==
    /\ Lifetime \in [Keys -> Nat]
    /\ StaleClaim \in Nat \ {0} /\ Backoff \in Nat \ {0}
ASSUME BoundsAssumption ==
    /\ Limit \in Nat \ {0} /\ MaxAttempts \in Nat
    /\ MaxFaults \in Nat /\ MaxRefusals \in Nat
    /\ Punctual \in BOOLEAN

VARIABLES
    row,       \* [Keys -> record]: the table
    calls,     \* enqueue() calls between two of their statements
    hand,      \* [Executors -> set of [key, attempt]]: the batch being worked off
    wire,      \* results the terminal timed out on and the server has still to process
    resting,   \* g_resting_order: the orders a terminal waits for to fill, by [by, key, attempt]
    unfilled,  \* g_pending_result: those that never will, a failed result still to be sent
    acted,     \* history: the claims the broker has carried out and not let go of since
    faults, refusals   \* how much of the two budgets is spent

vars == <<row, calls, hand, wire, resting, unfilled, acted, faults, refusals>>

Retryable == {"failed", "expired"}
Statuses  == {"absent", "pending", "claimed", "done"} \union Retryable
Steps     == {"looked", "missing", "spent"}

\* Column values nothing reads any more are kept at 0: ttl (ticks to expires_at) once
\* the row is over, and age (ticks since claimed_at or completed_at, whichever is the
\* later) unless the row is claimed or failed.  Ages saturate at AgeCap.
Row    == [id : Nat, status : Statuses, ttl : Nat, age : Nat, attempts : Nat]
Absent == [id |-> 0, status |-> "absent", ttl |-> 0, age |-> 0, attempts |-> 0]
AgeCap == LET rest == Backoff * (IF MaxAttempts = 0 THEN 1 ELSE MaxAttempts)
          IN  IF rest > StaleClaim THEN rest ELSE StaleClaim

Claim == [key : Keys, attempt : Nat]
Order == [by : Executors, key : Keys, attempt : Nat]

TypeOK ==
    /\ row \in [Keys -> Row]
    /\ calls \subseteq [by : Callers, key : Keys, step : Steps]
    /\ hand \in [Executors -> SUBSET Claim]
    /\ wire \subseteq [key : Keys, attempt : Nat, ok : BOOLEAN]
    /\ resting \subseteq Order /\ unfilled \subseteq Order
    /\ acted \subseteq Claim
    /\ faults \in Nat /\ refusals \in Nat

Init ==
    /\ row = [k \in Keys |-> Absent]
    /\ calls = {}
    /\ hand = [e \in Executors |-> {}]
    /\ wire = {}
    /\ resting = {} /\ unfilled = {}
    /\ acted = {}
    /\ faults = 0 /\ refusals = 0

-----------------------------------------------------------------------------
\* Reading the table

Created == {k \in Keys : row[k].status # "absent"}

InTime(k) == Lifetime[k] = 0 \/ row[k].ttl > 0

ForAccount(e, k) == Binding[e] = NoAccount \/ AccountOf[k] \in {NoAccount, Binding[e]}

\* scopeClaimable and scopeForAccount, with the bound on attempts.
Claimable(e) ==
    {k \in Keys : /\ row[k].status = "pending"
                  /\ InTime(k)
                  /\ ForAccount(e, k)
                  /\ row[k].attempts < MaxAttempts}

\* Only a failure earns a rest, one Backoff per attempt so far.
ReadyToRetry(k) ==
    row[k].status = "failed" =>
        row[k].age >= Backoff * (IF row[k].attempts = 0 THEN 1 ELSE row[k].attempts)

-----------------------------------------------------------------------------
\* ProtectionQueue::send and TradeCommand::enqueue

Idle(c) == \A call \in calls : call.by # c

At(c, k, s) == [by |-> c, key |-> k, step |-> s]

\* send(): a key held by a live row (pending, claimed or done) is not sent again.
Look(c, k) ==
    /\ <<c, k>> \in Protected /\ Idle(c)
    /\ row[k].status \in Retryable \union {"absent"}
    /\ calls' = calls \union {At(c, k, "looked")}
    /\ UNCHANGED <<row, hand, wire, resting, unfilled, acted, faults, refusals>>

\* Mutant: a row that exists is always re-armed, whatever its status.
AfterReadRearmsAny(c, k) ==
    LET others == {call \in calls : call.by # c}
    IN  others \union {At(c, k, IF row[k].status = "absent" THEN "missing" ELSE "spent")}

\* The calls left by a caller whose first() has just answered for key k: it goes on to
\* write, or returns the row as it found it.
AfterRead(c, k) ==
    LET others == {call \in calls : call.by # c}
    IN  CASE row[k].status = "absent" -> others \union {At(c, k, "missing")}
          [] row[k].status \in Retryable /\ ReadyToRetry(k) -> others \union {At(c, k, "spent")}
          [] OTHER -> others

\* enqueue(): the first() on the key, after send() or called directly.
Read(c, k) ==
    /\ \/ At(c, k, "looked") \in calls
       \/ <<c, k>> \notin Protected /\ Idle(c)
    /\ calls' = AfterRead(c, k)
    /\ UNCHANGED <<row, hand, wire, resting, unfilled, acted, faults, refusals>>

\* Mutant: re-arming starts the attempt count afresh.
PendingFromScratch(r, k) ==
    [r EXCEPT !.status = "pending", !.ttl = Lifetime[k], !.age = 0, !.attempts = 0]

\* What a write leaves: pending, with the expiry counted from now.
Pending(r, k) == [r EXCEPT !.status = "pending", !.ttl = Lifetime[k], !.age = 0]

\* enqueue(): firstOrCreate on the unique key; a row that appeared since is returned.
Create(c, k) ==
    /\ At(c, k, "missing") \in calls
    /\ row' = IF row[k].status = "absent"
              THEN [row EXCEPT ![k] = [Pending(@, k) EXCEPT !.id = Cardinality(Created) + 1]]
              ELSE row
    /\ calls' = calls \ {At(c, k, "missing")}
    /\ UNCHANGED <<hand, wire, resting, unfilled, acted, faults, refusals>>

\* enqueue(): the update of the row read as spent.  It is by primary key alone: whatever
\* the row has become since it was read, it goes back to pending.
Rearm(c, k) ==
    /\ At(c, k, "spent") \in calls
    /\ row' = [row EXCEPT ![k] = Pending(@, k)]
    /\ calls' = calls \ {At(c, k, "spent")}
    /\ UNCHANGED <<hand, wire, resting, unfilled, acted, faults, refusals>>

-----------------------------------------------------------------------------
\* The executor: CommandController::index and ::result

\* claimBatch: the lowest ids the executor may take, at most Limit of them.
Batch(e) ==
    {k \in Claimable(e) :
        Cardinality({j \in Claimable(e) : row[j].id < row[k].id}) < Limit}

\* Mutant: the batch is selected but the rows are left pending.
ClaimedStaysPending(e) ==
    [k \in Keys |-> IF k \in Batch(e) THEN [row[k] EXCEPT !.attempts = @ + 1] ELSE row[k]]

Claimed(e) ==
    [k \in Keys |-> IF k \in Batch(e)
                    THEN [row[k] EXCEPT !.status = "claimed", !.age = 0, !.attempts = @ + 1]
                    ELSE row[k]]

\* A poll whose answer reaches the terminal.  It polls only with the last batch done.
Poll(e) ==
    /\ hand[e] = {} /\ Batch(e) # {}
    /\ row' = Claimed(e)
    /\ hand' = [hand EXCEPT ![e] =
                   {[key |-> k, attempt |-> row[k].attempts + 1] : k \in Batch(e)}]
    /\ UNCHANGED <<calls, wire, resting, unfilled, acted, faults, refusals>>

\* A poll whose answer is lost: the rows are claimed, nobody has them.
PollLost(e) ==
    /\ hand[e] = {} /\ Batch(e) # {}
    /\ faults < MaxFaults /\ faults' = faults + 1
    /\ row' = Claimed(e)
    /\ UNCHANGED <<calls, hand, wire, resting, unfilled, acted, refusals>>

\* The command the terminal is working on: lines are handled in the order of the batch.
Current(e, claim) ==
    /\ claim \in hand[e]
    /\ \A other \in hand[e] : row[claim.key].id <= row[other.key].id

\* markDone and markFailed: whatever the row's status is.
Complete(r, ok) ==
    [r EXCEPT !.status = IF ok THEN "done" ELSE "failed", !.ttl = 0, !.age = 0]

\* The broker carries the instruction out, or refuses it; an order that rests is remembered.
Broker(e, claim, ok) ==
    /\ ok \/ refusals < MaxRefusals
    /\ refusals' = IF ok THEN refusals ELSE refusals + 1
    /\ acted' = IF ok THEN acted \union {claim} ELSE acted
    /\ resting' = IF ok /\ claim.key \in Resting
                  THEN resting \union {[by |-> e, key |-> claim.key, attempt |-> claim.attempt]}
                  ELSE resting

\* The broker answers and the result is recorded.
Report(e, claim, ok) ==
    /\ Current(e, claim)
    /\ Broker(e, claim, ok)
    /\ row' = [row EXCEPT ![claim.key] = Complete(@, ok)]
    /\ hand' = [hand EXCEPT ![e] = @ \ {claim}]
    /\ UNCHANGED <<calls, wire, unfilled, faults>>

\* The broker answers and the result is lost: the terminal does not post it again.
ReportLost(e, claim, ok) ==
    /\ Current(e, claim)
    /\ Broker(e, claim, ok)
    /\ faults < MaxFaults /\ faults' = faults + 1
    /\ hand' = [hand EXCEPT ![e] = @ \ {claim}]
    /\ UNCHANGED <<row, calls, wire, unfilled>>

Result(c, ok) == [key |-> c.key, attempt |-> c.attempt, ok |-> ok]

\* The terminal times out on a request the server will still process.
ReportLate(e, claim, ok) ==
    /\ Current(e, claim)
    /\ Broker(e, claim, ok)
    /\ faults < MaxFaults /\ faults' = faults + 1
    /\ wire' = wire \union {Result(claim, ok)}
    /\ hand' = [hand EXCEPT ![e] = @ \ {claim}]
    /\ UNCHANGED <<row, calls, unfilled>>

LateResult(m) ==
    /\ m \in wire
    /\ row' = [row EXCEPT ![m.key] = Complete(@, m.ok)]
    /\ wire' = wire \ {m}
    /\ UNCHANGED <<calls, hand, resting, unfilled, acted, faults, refusals>>

\* The terminal handles one event or one timer at a time: none between two commands of a batch.
BetweenBatches(e) == hand[e] = {}

\* FXSOnEntryDeal: a resting order fills, and is no longer waited for.
Filled(o) ==
    /\ o \in resting /\ BetweenBatches(o.by)
    /\ resting' = resting \ {o}
    /\ UNCHANGED <<row, calls, hand, wire, unfilled, acted, faults, refusals>>

\* FXSOnOrderRetired: a resting order leaves the broker's book unfilled, and its command is
\* to be reported a second time, as failed.
Retire(o) ==
    /\ o \in resting /\ BetweenBatches(o.by)
    /\ refusals < MaxRefusals /\ refusals' = refusals + 1
    /\ acted' = acted \ {[key |-> o.key, attempt |-> o.attempt]}
    /\ resting' = resting \ {o} /\ unfilled' = unfilled \union {o}
    /\ UNCHANGED <<row, calls, hand, wire, faults>>

\* FXSFlushResults: the result is answered.  One that does not get through is kept, which is
\* no step.
Flush(o) ==
    /\ o \in unfilled /\ BetweenBatches(o.by)
    /\ row' = [row EXCEPT ![o.key] = Complete(@, FALSE)]
    /\ unfilled' = unfilled \ {o}
    /\ UNCHANGED <<calls, hand, wire, resting, acted, faults, refusals>>

\* FXSFlushResults times out on a result the server will still process, and keeps it.
FlushLate(o) ==
    /\ o \in unfilled /\ BetweenBatches(o.by)
    /\ faults < MaxFaults /\ faults' = faults + 1
    /\ wire' = wire \union {Result(o, FALSE)}
    /\ UNCHANGED <<row, calls, hand, resting, unfilled, acted, refusals>>

\* FXSFlushResults is answered with a 4xx, the throttle's 429 for one: the result is dropped.
FlushRefused(o) ==
    /\ o \in unfilled /\ BetweenBatches(o.by)
    /\ faults < MaxFaults /\ faults' = faults + 1
    /\ unfilled' = unfilled \ {o}
    /\ UNCHANGED <<row, calls, hand, wire, resting, acted, refusals>>

\* The terminal stops: what it has in hand and in memory is gone.
Crash(e) ==
    /\ hand[e] # {} \/ \E o \in resting \union unfilled : o.by = e
    /\ faults < MaxFaults /\ faults' = faults + 1
    /\ hand' = [hand EXCEPT ![e] = {}]
    /\ resting' = {o \in resting : o.by # e} /\ unfilled' = {o \in unfilled : o.by # e}
    /\ UNCHANGED <<row, calls, wire, acted, refusals>>

-----------------------------------------------------------------------------
\* Time and the sweep

\* Mutants: the sweep takes finished rows too; claims with no expiry are never swept.
LapsedEvenDone(k)   == row[k].status \in {"pending", "claimed", "done"} /\ ~InTime(k)
AbandonedNever(k)   == row[k].status = "claimed" /\ FALSE

Lapsed(k) == row[k].status \in {"pending", "claimed"} /\ ~InTime(k)

Abandoned(k) ==
    row[k].status = "claimed" /\ Lifetime[k] = 0 /\ row[k].age >= StaleClaim

\* Mutant: what the sweep takes is queued again.
SweepRequeues ==
    /\ \E k \in Keys : Lapsed(k) \/ Abandoned(k)
    /\ row' = [k \in Keys |-> IF Lapsed(k) \/ Abandoned(k) THEN Pending(row[k], k) ELSE row[k]]
    /\ UNCHANGED <<calls, hand, wire, resting, unfilled, acted, faults, refusals>>

\* sweepExpired(): its two updates touch disjoint rows (with and without an expiry).
Sweep ==
    /\ \E k \in Keys : Lapsed(k) \/ Abandoned(k)
    /\ row' = [k \in Keys |-> IF Lapsed(k) \/ Abandoned(k)
                              THEN [row[k] EXCEPT !.status = "expired", !.ttl = 0, !.age = 0]
                              ELSE row[k]]
    /\ UNCHANGED <<calls, hand, wire, resting, unfilled, acted, faults, refusals>>

Later(r) ==
    [r EXCEPT !.ttl = IF @ > 0 THEN @ - 1 ELSE 0,
              !.age = IF r.status \in {"claimed", "failed"} /\ @ < AgeCap THEN @ + 1 ELSE @]

Tick ==
    /\ Punctual => calls = {} /\ wire = {} /\ \A e \in Executors : hand[e] = {}
    /\ row' = [k \in Keys |-> Later(row[k])]
    /\ UNCHANGED <<calls, hand, wire, resting, unfilled, acted, faults, refusals>>

-----------------------------------------------------------------------------
Enqueue(c, k) == Look(c, k) \/ Read(c, k) \/ Create(c, k) \/ Rearm(c, k)

Work(e) ==
    \E claim \in hand[e], ok \in BOOLEAN :
        Report(e, claim, ok) \/ ReportLost(e, claim, ok) \/ ReportLate(e, claim, ok)

Outcome(o) == Filled(o) \/ Retire(o) \/ Flush(o) \/ FlushLate(o) \/ FlushRefused(o)

Next ==
    \/ \E c \in Callers, k \in Keys : Enqueue(c, k)
    \/ \E e \in Executors : Poll(e) \/ PollLost(e) \/ Work(e) \/ Crash(e)
    \/ \E m \in wire : LateResult(m)
    \/ \E o \in resting \union unfilled : Outcome(o)
    \/ Sweep
    \/ Tick

Spec == Init /\ [][Next]_vars

\* Every pass asks for each key it still wants; the terminal polls every few seconds and
\* works off what it got; the scheduler runs the sweep; and time passes.
Fairness ==
    /\ \A c \in Callers, k \in Keys : SF_vars(Enqueue(c, k))
    /\ \A e \in Executors : SF_vars(Poll(e)) /\ WF_vars(Work(e))
    /\ WF_vars(\E m \in wire : LateResult(m))
    /\ WF_vars(Sweep)
    /\ SF_vars(Tick)

FairSpec == Spec /\ Fairness
-----------------------------------------------------------------------------
(* Properties *)

\* No two terminals ever work on the same attempt of a command, and an attempt whose result is
\* still under way, or which the broker has carried out, is in nobody's hand: what the row
\* locks in claimBatch and the attempt count kept across re-arming are for.
AttemptUnique ==
    /\ \A e, f \in Executors : e # f => hand[e] \cap hand[f] = {}
    /\ \A e \in Executors : \A claim \in hand[e] :
          /\ claim \notin acted
          /\ \A m \in wire : ~(m.key = claim.key /\ m.attempt = claim.attempt)

Standing(k) == {claim \in acted : claim.key = k}

\* A command stands at the broker once, and once more for each request that was lost, late or
\* refused and each crash: a rung is not closed twice, a signal not opened twice, for any
\* other reason than that a result, or the memory of it, has gone astray.
NeverRepeated == \A k \in Keys : Cardinality(Standing(k)) <= 1 + faults

\* "done, pending and claimed still collapse": only a row that does not exist yet or is
\* spent is ever put to pending by enqueue().
LiveRowsCollapse ==
    [][\A k \in Keys :
          row[k].status # "pending" /\ row'[k].status = "pending"
              => row[k].status \in Retryable \union {"absent"}]_vars

\* Whatever a caller keeps asking for is in the end carried out and recorded, through lost
\* polls, lost results, crashes and refusals: no row is stuck as claimed, failed or expired.
Pursued ==
    \A k \in Keys : row[k].status \notin {"absent", "done"} ~> row[k].status = "done"

\* The abstract queue: each hand-over answers a request made since the last one.
Mandate == INSTANCE CommandMandate WITH
    owed <- [k \in Keys |-> row[k].status = "pending"],
    handed <- [k \in Keys |-> row[k].attempts]

HandsOverWhatWasAsked == Mandate!Spec
=============================================================================
