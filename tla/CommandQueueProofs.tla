--------------------------- MODULE CommandQueueProofs ---------------------------
(***************************************************************************)
(* Theorems about CommandQueue, for any keys, callers, terminals, times    *)
(* and bounds: type correctness, that no attempt is ever in two hands,     *)
(* that with one caller and a punctual terminal no live row is re-armed    *)
(* and no command stands at the broker more often than once and once more  *)
(* for each request gone wrong, and that the queue implements              *)
(* CommandMandate.                                                         *)
(***************************************************************************)
EXTENDS CommandQueue, FiniteSetTheorems, TLAPS

\* The four shapes of change a row goes through keep it a row.
LEMMA RowChanges ==
    ASSUME NEW r \in Row, NEW k \in Keys, NEW ok \in BOOLEAN, NEW n \in Nat
    PROVE  /\ Pending(r, k) \in Row
           /\ [Pending(r, k) EXCEPT !.id = n] \in Row
           /\ Complete(r, ok) \in Row
           /\ Later(r) \in Row
           /\ [r EXCEPT !.status = "claimed", !.age = 0, !.attempts = @ + 1] \in Row
           /\ [r EXCEPT !.status = "expired", !.ttl = 0, !.age = 0] \in Row
<1>1. Lifetime[k] \in Nat
  BY TimesAssumption
<1>2. /\ r.id \in Nat /\ r.status \in Statuses /\ r.ttl \in Nat /\ r.age \in Nat
      /\ r.attempts \in Nat
  BY DEF Row
<1>2a. {"pending", "claimed", "done", "failed", "expired"} \subseteq Statuses
  BY DEF Statuses, Retryable
<1>3. Pending(r, k) \in Row /\ [Pending(r, k) EXCEPT !.id = n] \in Row
  BY <1>1, <1>2, <1>2a DEF Pending, Row
<1>4. Complete(r, ok) \in Row
  BY <1>2, <1>2a DEF Complete, Row
<1>5. Later(r) \in Row
  <2>1. (IF r.ttl > 0 THEN r.ttl - 1 ELSE 0) \in Nat
    BY <1>2
  <2>2. (IF r.status \in {"claimed", "failed"} /\ r.age < AgeCap THEN r.age + 1 ELSE r.age)
           \in Nat
    BY <1>2
  <2> QED
    BY <1>2, <2>1, <2>2 DEF Later, Row
<1>6. [r EXCEPT !.status = "claimed", !.age = 0, !.attempts = @ + 1] \in Row
  <2>1. \A a \in Nat : [r EXCEPT !.status = "claimed", !.age = 0, !.attempts = a] \in Row
    BY <1>2, <1>2a DEF Row
  <2>2. r.attempts + 1 \in Nat
    BY <1>2
  <2> QED
    BY <2>1, <2>2
<1>7. [r EXCEPT !.status = "expired", !.ttl = 0, !.age = 0] \in Row
  BY <1>2, <1>2a DEF Row
<1> QED
  BY <1>3, <1>4, <1>5, <1>6, <1>7

\* Row ids stay natural numbers: the table is finite.
LEMMA NewId == Cardinality(Created) + 1 \in Nat
<1>1. Created \subseteq Keys
  BY DEF Created
<1>2. Cardinality(Created) \in Nat
  BY <1>1, KeysAssumption, FS_Subset, FS_CardinalityType
<1> QED
  BY <1>2

LEMMA TypeInit == Init => TypeOK
  BY DEF Init, TypeOK, Absent, Row, Statuses, Retryable

LEMMA TypeStep == TypeOK /\ [Next]_vars => TypeOK'
<1> SUFFICES ASSUME TypeOK, [Next]_vars PROVE TypeOK'
  OBVIOUS
<1> USE DEF TypeOK
<1>1. ASSUME NEW c \in Callers, NEW k \in Keys, Look(c, k) PROVE TypeOK'
  BY <1>1 DEF Look, At, Steps
<1>2. ASSUME NEW c \in Callers, NEW k \in Keys, Read(c, k) PROVE TypeOK'
  BY <1>2 DEF Read, AfterRead, At, Steps
<1>3. ASSUME NEW c \in Callers, NEW k \in Keys, Create(c, k) PROVE TypeOK'
  <2>1. row' \in [Keys -> Row]
    BY <1>3, RowChanges, NewId DEF Create
  <2> QED
    BY <1>3, <2>1 DEF Create
<1>4. ASSUME NEW c \in Callers, NEW k \in Keys, Rearm(c, k) PROVE TypeOK'
  <2>1. row' \in [Keys -> Row]
    BY <1>4, RowChanges DEF Rearm
  <2> QED
    BY <1>4, <2>1 DEF Rearm
<1>5. ASSUME NEW e \in Executors PROVE Claimed(e) \in [Keys -> Row]
  BY RowChanges DEF Claimed
<1>6. ASSUME NEW e \in Executors, Poll(e) PROVE TypeOK'
  <2>1. \A k \in Batch(e) : k \in Keys /\ row[k].attempts + 1 \in Nat
    BY DEF Batch, Claimable, Row
  <2> QED
    BY <1>5, <1>6, <2>1 DEF Poll, Claim
<1>7. ASSUME NEW e \in Executors, PollLost(e) PROVE TypeOK'
  BY <1>5, <1>7 DEF PollLost
<1>8. ASSUME NEW e \in Executors, NEW claim \in hand[e], NEW ok \in BOOLEAN,
             \/ Report(e, claim, ok)
             \/ ReportLost(e, claim, ok)
             \/ ReportLate(e, claim, ok)
      PROVE  TypeOK'
  <2>1. claim \in Claim /\ claim.key \in Keys /\ claim.attempt \in Nat
    BY DEF Claim
  <2>2. Complete(row[claim.key], ok) \in Row
    BY <2>1, RowChanges, NewId
  <2>3. Result(claim, ok) \in [key : Keys, attempt : Nat, ok : BOOLEAN]
    BY <2>1 DEF Result
  <2>4. /\ [by |-> e, key |-> claim.key, attempt |-> claim.attempt] \in Order
        /\ Broker(e, claim, ok)
    BY <1>8, <2>1 DEF Order, Report, ReportLost, ReportLate
  <2>5. acted' \subseteq Claim /\ resting' \subseteq Order /\ refusals' \in Nat
    BY <2>1, <2>4 DEF Broker
  <2>6. CASE Report(e, claim, ok)
    BY <2>1, <2>2, <2>5, <2>6 DEF Report
  <2>7. CASE ReportLost(e, claim, ok)
    BY <2>1, <2>5, <2>7 DEF ReportLost
  <2>8. CASE ReportLate(e, claim, ok)
    BY <2>1, <2>3, <2>5, <2>8 DEF ReportLate
  <2> QED
    BY <1>8, <2>6, <2>7, <2>8
<1>9. ASSUME NEW e \in Executors, Crash(e) PROVE TypeOK'
  BY <1>9 DEF Crash
<1>10. ASSUME NEW m \in wire, LateResult(m) PROVE TypeOK'
  <2>1. Complete(row[m.key], m.ok) \in Row
    BY RowChanges, NewId
  <2> QED
    BY <1>10, <2>1 DEF LateResult
<1>11. ASSUME NEW o \in resting \union unfilled, Outcome(o) PROVE TypeOK'
  <2>1. o \in Order /\ o.key \in Keys /\ o.attempt \in Nat
    BY DEF Order
  <2>2. /\ Complete(row[o.key], FALSE) \in Row
        /\ Result(o, FALSE) \in [key : Keys, attempt : Nat, ok : BOOLEAN]
    BY <2>1, RowChanges, NewId DEF Result
  <2>3. CASE Filled(o) \/ Retire(o) \/ FlushRefused(o)
    BY <2>1, <2>3 DEF Filled, Retire, FlushRefused
  <2>4. CASE Flush(o)
    BY <2>1, <2>2, <2>4 DEF Flush
  <2>5. CASE FlushLate(o)
    <3>1. wire' \subseteq [key : Keys, attempt : Nat, ok : BOOLEAN]
      BY <2>2, <2>5 DEF FlushLate
    <3>2. faults' \in Nat /\ UNCHANGED <<row, calls, hand, resting, unfilled, acted, refusals>>
      BY <2>5 DEF FlushLate
    <3> QED
      BY <3>1, <3>2
  <2> QED
    BY <1>11, <2>3, <2>4, <2>5 DEF Outcome
<1>12. ASSUME Sweep PROVE TypeOK'
  <2>1. row' \in [Keys -> Row]
    BY <1>12, RowChanges, NewId DEF Sweep
  <2> QED
    BY <1>12, <2>1 DEF Sweep
<1>13. ASSUME Tick PROVE TypeOK'
  <2>1. row' \in [Keys -> Row]
    BY <1>13, RowChanges, NewId DEF Tick
  <2> QED
    BY <1>13, <2>1 DEF Tick
<1>14. ASSUME UNCHANGED vars PROVE TypeOK'
  BY <1>14 DEF vars
<1> QED
  BY <1>1, <1>2, <1>3, <1>4, <1>6, <1>7, <1>8, <1>9, <1>10, <1>11, <1>12, <1>13, <1>14
  DEF Next, Enqueue, Work

\* Every variable of the queue keeps its shape: ids and counters never leave Nat, no
\* call, claim or late result names something that is not there.
THEOREM QueueType == Spec => []TypeOK
  BY TypeInit, TypeStep, PTL DEF Spec

-----------------------------------------------------------------------------
(* No attempt is ever in two hands *)

\* What AttemptUnique needs to be inductive: whatever is in a hand, under way or carried out
\* is an attempt the row has already counted, so that a new claim, one higher, is a new one;
\* and an order that is waited for, or was in vain, is in nobody's hand any more.
Counted ==
    /\ \A e \in Executors : \A claim \in hand[e] : claim.attempt <= row[claim.key].attempts
    /\ \A m \in wire : m.attempt <= row[m.key].attempts
    /\ \A claim \in acted : claim.attempt <= row[claim.key].attempts
    /\ \A o \in resting \union unfilled : o.attempt <= row[o.key].attempts

Waiting ==
    \A e \in Executors : \A claim \in hand[e] : \A o \in resting \union unfilled :
        ~(o.key = claim.key /\ o.attempt = claim.attempt)

HandsInv == TypeOK /\ Counted /\ AttemptUnique /\ Waiting

\* No statement but a claim changes an attempt count, and none lowers it.
LEMMA AttemptsKept ==
    ASSUME TypeOK, [Next]_vars,
           ~ \E e \in Executors : Poll(e) \/ PollLost(e)
    PROVE  \A k \in Keys : row'[k].attempts = row[k].attempts
<1> SUFFICES ASSUME NEW k \in Keys PROVE row'[k].attempts = row[k].attempts
  OBVIOUS
<1>1. /\ row \in [Keys -> Row]
      /\ \A j \in Keys : row[j] \in Row
  BY DEF TypeOK
<1>2. ASSUME NEW r \in Row, NEW j \in Keys, NEW ok \in BOOLEAN
      PROVE  /\ Pending(r, j).attempts = r.attempts
             /\ Complete(r, ok).attempts = r.attempts
             /\ Later(r).attempts = r.attempts
             /\ [r EXCEPT !.status = "expired", !.ttl = 0, !.age = 0].attempts = r.attempts
  BY DEF Pending, Complete, Later, Row
<1>3. CASE \E c \in Callers, j \in Keys : Create(c, j)
  <2>1. PICK j \in Keys :
           row' = IF row[j].status = "absent"
                  THEN [row EXCEPT ![j] = [Pending(@, j) EXCEPT !.id = Cardinality(Created) + 1]]
                  ELSE row
    BY <1>3 DEF Create
  <2>2. [Pending(row[k], k) EXCEPT !.id = Cardinality(Created) + 1].attempts = row[k].attempts
    BY <1>1 DEF Pending, Row
  <2> QED
    BY <1>1, <2>1, <2>2
<1>4. CASE \E c \in Callers, j \in Keys : Rearm(c, j)
  <2>1. PICK j \in Keys : row' = [row EXCEPT ![j] = Pending(@, j)]
    BY <1>4 DEF Rearm
  <2>2. Pending(row[k], k).attempts = row[k].attempts
    BY <1>1, <1>2, NewId
  <2> QED
    BY <1>1, <2>1, <2>2
<1>5. CASE \E e \in Executors, claim \in Claim, ok \in BOOLEAN : Report(e, claim, ok)
  <2>1. PICK claim \in Claim, ok \in BOOLEAN :
           row' = [row EXCEPT ![claim.key] = Complete(@, ok)]
    BY <1>5 DEF Report
  <2>2. Complete(row[k], ok).attempts = row[k].attempts
    BY <1>1, <1>2, NewId
  <2> QED
    BY <1>1, <2>1, <2>2
<1>6. CASE \E m \in wire : LateResult(m)
  <2>1. PICK m \in wire : row' = [row EXCEPT ![m.key] = Complete(@, m.ok)]
    BY <1>6 DEF LateResult
  <2>2. m.ok \in BOOLEAN
    BY DEF TypeOK
  <2>3. Complete(row[k], m.ok).attempts = row[k].attempts
    BY <1>1, <1>2, <2>2, NewId
  <2> QED
    BY <1>1, <2>1, <2>3
<1>7. CASE \E o \in unfilled : Flush(o)
  <2>1. PICK o \in unfilled : row' = [row EXCEPT ![o.key] = Complete(@, FALSE)]
    BY <1>7 DEF Flush
  <2>2. Complete(row[k], FALSE).attempts = row[k].attempts
    BY <1>1, <1>2, NewId
  <2> QED
    BY <1>1, <2>1, <2>2
<1>8. CASE Sweep
  BY <1>1, <1>2, <1>8, NewId DEF Sweep
<1>9. CASE Tick
  BY <1>1, <1>2, <1>9, NewId DEF Tick
<1>10. CASE UNCHANGED row
  BY <1>10
<1>11. CASE \E c \in Callers, j \in Keys : Enqueue(c, j)
  BY <1>3, <1>4, <1>10, <1>11 DEF Enqueue, Look, Read
<1>12. CASE \E e \in Executors : Work(e) \/ Crash(e)
  <2>1. \A e \in Executors : hand[e] \subseteq Claim
    BY DEF TypeOK
  <2> QED
    BY <1>5, <1>10, <1>12, <2>1 DEF Work, ReportLost, ReportLate, Crash
<1>13. CASE \E o \in resting \union unfilled : Outcome(o)
  BY <1>7, <1>10, <1>13 DEF Outcome, Filled, Retire, Flush, FlushLate, FlushRefused
<1> QED
  BY <1>6, <1>8, <1>9, <1>10, <1>11, <1>12, <1>13 DEF Next, vars

LEMMA HandsInit == Init => HandsInv
  BY TypeInit DEF Init, HandsInv, Counted, AttemptUnique, Waiting

LEMMA ClaimStep ==
    ASSUME HandsInv, NEW e \in Executors, Poll(e) \/ PollLost(e)
    PROVE  Counted' /\ AttemptUnique' /\ Waiting'
<1> USE DEF HandsInv
<1>1. /\ row \in [Keys -> Row] /\ hand \in [Executors -> SUBSET Claim]
      /\ \A k \in Keys : row[k].attempts \in Nat
      /\ UNCHANGED <<wire, acted, resting, unfilled>> /\ row' = Claimed(e)
      /\ wire \subseteq [key : Keys, attempt : Nat, ok : BOOLEAN]
      /\ acted \subseteq Claim /\ resting \union unfilled \subseteq Order
  BY DEF TypeOK, Row, Poll, PollLost
<1>2. \A k \in Keys :
         row'[k].attempts = IF k \in Batch(e) THEN row[k].attempts + 1 ELSE row[k].attempts
  BY <1>1 DEF Claimed, Row
<1>3. /\ \A f \in Executors : \A claim \in hand[f] : claim.key \in Keys /\ claim.attempt \in Nat
      /\ \A claim \in acted : claim.key \in Keys /\ claim.attempt \in Nat
      /\ \A o \in resting \union unfilled : o.key \in Keys /\ o.attempt \in Nat
      /\ \A m \in wire : m.key \in Keys /\ m.attempt \in Nat
  BY <1>1 DEF Claim, Order
<1>4. /\ \A m \in wire : m.attempt <= row'[m.key].attempts
      /\ \A claim \in acted : claim.attempt <= row'[claim.key].attempts
      /\ \A o \in resting \union unfilled : o.attempt <= row'[o.key].attempts
      /\ \A f \in Executors : \A claim \in hand[f] : claim.attempt <= row'[claim.key].attempts
  BY <1>1, <1>2, <1>3 DEF Counted
<1>5. CASE PollLost(e)
  BY <1>1, <1>4, <1>5 DEF PollLost, Counted, AttemptUnique, Waiting
<1>6. CASE Poll(e)
  <2> DEFINE taken == {[key |-> k, attempt |-> row[k].attempts + 1] : k \in Batch(e)}
  <2>1. hand' = [hand EXCEPT ![e] = taken]
    BY <1>6 DEF Poll
  <2>2. \A claim \in taken : /\ claim.key \in Keys /\ claim.key \in Batch(e)
                             /\ claim.attempt = row[claim.key].attempts + 1
    <3>1. Batch(e) \subseteq Keys
      BY DEF Batch, Claimable
    <3> QED
      BY <3>1
  <2> HIDE DEF taken
  <2>3. \A f \in Executors : hand'[f] = IF f = e THEN taken ELSE hand[f]
    BY <1>1, <2>1
  <2>4. Counted'
    <3>1. \A f \in Executors : \A claim \in hand'[f] :
             claim.attempt <= row'[claim.key].attempts
      BY <1>1, <1>2, <1>4, <2>2, <2>3
    <3> QED
      BY <1>1, <1>4, <3>1 DEF Counted
  <2>5. \A f \in Executors : \A claim \in hand[f] : claim \notin taken
    BY <1>1, <1>3, <2>2 DEF Counted
  <2>6. \A claim \in taken :
           /\ claim \notin acted
           /\ \A m \in wire : ~(m.key = claim.key /\ m.attempt = claim.attempt)
           /\ \A o \in resting \union unfilled :
                 ~(o.key = claim.key /\ o.attempt = claim.attempt)
    BY <1>1, <1>3, <2>2 DEF Counted
  <2>7. AttemptUnique'
    BY <1>1, <2>3, <2>5, <2>6 DEF AttemptUnique
  <2>8. Waiting'
    BY <1>1, <2>3, <2>6 DEF Waiting
  <2> QED
    BY <2>4, <2>7, <2>8
<1> QED
  BY <1>5, <1>6

\* A terminal is done with one command of its batch, whatever became of the result.
LEMMA HandsWork ==
    ASSUME HandsInv, NEW e \in Executors, NEW claim \in hand[e], NEW ok \in BOOLEAN,
           \A k \in Keys : row'[k].attempts = row[k].attempts,
           Broker(e, claim, ok), unfilled' = unfilled,
           hand' = [hand EXCEPT ![e] = @ \ {claim}],
           wire' = wire \/ wire' = wire \union {Result(claim, ok)}
    PROVE  Counted' /\ AttemptUnique' /\ Waiting'
<1> USE DEF HandsInv
<1> DEFINE placed == [by |-> e, key |-> claim.key, attempt |-> claim.attempt]
<1>1. /\ hand \in [Executors -> SUBSET Claim]
      /\ acted \subseteq Claim /\ resting \union unfilled \subseteq Order
      /\ wire \subseteq [key : Keys, attempt : Nat, ok : BOOLEAN]
  BY DEF TypeOK
<1>2. /\ \A f \in Executors : \A c \in hand[f] : c.key \in Keys /\ c.attempt \in Nat
      /\ \A f \in Executors : \A c \in hand[f] : c = [key |-> c.key, attempt |-> c.attempt]
      /\ \A c \in acted : c.key \in Keys
      /\ \A o \in resting \union unfilled : o.key \in Keys
      /\ \A m \in wire : m.key \in Keys
  BY <1>1 DEF Claim, Order
<1>3. /\ \A f \in Executors : hand'[f] = IF f = e THEN hand[f] \ {claim} ELSE hand[f]
      /\ acted' \subseteq acted \union {claim}
      /\ resting' \union unfilled' \subseteq resting \union unfilled \union {placed}
      /\ wire' \subseteq wire \union {Result(claim, ok)}
  BY <1>1 DEF Broker
<1>4. /\ placed.key = claim.key /\ placed.attempt = claim.attempt
      /\ Result(claim, ok).key = claim.key /\ Result(claim, ok).attempt = claim.attempt
  BY DEF Result
<1> HIDE DEF placed
<1>5. \A f \in Executors : \A c \in hand'[f] : c \in hand[f] /\ c # claim
  BY <1>3 DEF AttemptUnique
<1>6. \A f \in Executors : \A c \in hand'[f] : ~(c.key = claim.key /\ c.attempt = claim.attempt)
  BY <1>2, <1>5
<1>7. Counted'
  <2>1. claim.attempt <= row'[claim.key].attempts
    BY <1>2 DEF Counted
  <2>2. \A f \in Executors : \A c \in hand'[f] : c.attempt <= row'[c.key].attempts
    BY <1>2, <1>5 DEF Counted
  <2>3. \A m \in wire' : m.attempt <= row'[m.key].attempts
    BY <1>2, <1>3, <1>4, <2>1 DEF Counted
  <2>4. \A c \in acted' : c.attempt <= row'[c.key].attempts
    BY <1>2, <1>3, <2>1 DEF Counted
  <2>5. \A o \in resting' \union unfilled' : o.attempt <= row'[o.key].attempts
    BY <1>2, <1>3, <1>4, <2>1 DEF Counted
  <2> QED
    BY <2>2, <2>3, <2>4, <2>5 DEF Counted
<1>8. AttemptUnique'
  <2>1. \A f, g \in Executors : f # g => hand'[f] \cap hand'[g] = {}
    BY <1>5 DEF AttemptUnique
  <2>2. \A f \in Executors : \A c \in hand'[f] : c \notin acted'
    BY <1>3, <1>5 DEF AttemptUnique
  <2>3. \A f \in Executors : \A c \in hand'[f] : \A m \in wire' :
           ~(m.key = c.key /\ m.attempt = c.attempt)
    BY <1>3, <1>4, <1>5, <1>6 DEF AttemptUnique
  <2> QED
    BY <2>1, <2>2, <2>3 DEF AttemptUnique
<1>9. Waiting'
  <2>1. \A f \in Executors : \A c \in hand'[f] : \A o \in resting \union unfilled \union {placed} :
           ~(o.key = c.key /\ o.attempt = c.attempt)
    BY <1>4, <1>5, <1>6 DEF Waiting
  <2> QED
    BY <1>3, <2>1 DEF Waiting
<1> QED
  BY <1>7, <1>8, <1>9

\* What becomes of an order that rests, and every step that adds no claim, order or result.
LEMMA HandsOther ==
    ASSUME HandsInv, \A k \in Keys : row'[k].attempts = row[k].attempts,
           \A e \in Executors : hand'[e] \subseteq hand[e],
           acted' \subseteq acted,
           resting' \union unfilled' \subseteq resting \union unfilled,
           \A m \in wire' : m \in wire \/ \E o \in unfilled : m = Result(o, FALSE)
    PROVE  Counted' /\ AttemptUnique' /\ Waiting'
<1> USE DEF HandsInv
<1>1. /\ hand \in [Executors -> SUBSET Claim]
      /\ acted \subseteq Claim /\ resting \union unfilled \subseteq Order
      /\ wire \subseteq [key : Keys, attempt : Nat, ok : BOOLEAN]
  BY DEF TypeOK
<1>2. /\ \A f \in Executors : \A c \in hand[f] : c.key \in Keys
      /\ \A c \in acted : c.key \in Keys
      /\ \A o \in resting \union unfilled : o.key \in Keys
      /\ \A m \in wire : m.key \in Keys
  BY <1>1 DEF Claim, Order
<1>3. \A m \in wire' : \/ m \in wire
                       \/ \E o \in unfilled : m.key = o.key /\ m.attempt = o.attempt
  BY DEF Result
<1>4. Counted'
  <2>1. /\ \A f \in Executors : \A c \in hand'[f] : c.attempt <= row'[c.key].attempts
        /\ \A c \in acted' : c.attempt <= row'[c.key].attempts
        /\ \A o \in resting' \union unfilled' : o.attempt <= row'[o.key].attempts
    BY <1>2 DEF Counted
  <2>2. \A m \in wire' : m.attempt <= row'[m.key].attempts
    BY <1>2, <1>3 DEF Counted
  <2> QED
    BY <2>1, <2>2 DEF Counted
<1>5. AttemptUnique'
  <2>1. \A f \in Executors : \A c \in hand'[f] : \A m \in wire' :
           ~(m.key = c.key /\ m.attempt = c.attempt)
    BY <1>3 DEF AttemptUnique, Waiting
  <2> QED
    BY <2>1 DEF AttemptUnique
<1>6. Waiting'
  BY DEF Waiting
<1> QED
  BY <1>4, <1>5, <1>6

LEMMA HandsStep == HandsInv /\ [Next]_vars => HandsInv'
<1> SUFFICES ASSUME HandsInv, [Next]_vars PROVE HandsInv'
  OBVIOUS
<1>1. TypeOK'
  BY TypeStep DEF HandsInv
<1>2. CASE \E e \in Executors : Poll(e) \/ PollLost(e)
  BY <1>1, <1>2, ClaimStep DEF HandsInv
<1>3. CASE ~ \E e \in Executors : Poll(e) \/ PollLost(e)
  <2>1. /\ \A k \in Keys : row'[k].attempts = row[k].attempts
        /\ hand \in [Executors -> SUBSET Claim]
    BY <1>3, AttemptsKept DEF HandsInv, TypeOK
  <2>2. CASE \E e \in Executors : Work(e)
    <3>1. PICK e \in Executors : Work(e)
      BY <2>2
    <3>2. PICK claim \in hand[e], ok \in BOOLEAN :
             Report(e, claim, ok) \/ ReportLost(e, claim, ok) \/ ReportLate(e, claim, ok)
      BY <3>1 DEF Work
    <3>3. /\ Broker(e, claim, ok) /\ unfilled' = unfilled
          /\ hand' = [hand EXCEPT ![e] = @ \ {claim}]
          /\ wire' = wire \/ wire' = wire \union {Result(claim, ok)}
      BY <3>2 DEF Report, ReportLost, ReportLate
    <3> QED
      BY <1>1, <2>1, <3>3, HandsWork DEF HandsInv
  <2>3. CASE ~ \E e \in Executors : Work(e)
    <3>1. /\ \A e \in Executors : hand'[e] \subseteq hand[e]
          /\ acted' \subseteq acted
          /\ resting' \union unfilled' \subseteq resting \union unfilled
          /\ \A m \in wire' : m \in wire \/ \E o \in unfilled : m = Result(o, FALSE)
      <4>1. CASE \E c \in Callers, k \in Keys : Enqueue(c, k)
        BY <4>1 DEF Enqueue, Look, Read, Create, Rearm
      <4>2. CASE \E e \in Executors : Crash(e)
        BY <2>1, <4>2 DEF Crash
      <4>3. CASE \E m \in wire : LateResult(m)
        BY <4>3 DEF LateResult
      <4>4. CASE \E o \in resting \union unfilled : Outcome(o)
        BY <4>4 DEF Outcome, Filled, Retire, Flush, FlushLate, FlushRefused
      <4>5. CASE Sweep \/ Tick
        BY <4>5 DEF Sweep, Tick
      <4>6. CASE UNCHANGED vars
        BY <4>6 DEF vars
      <4> QED
        BY <1>3, <2>3, <4>1, <4>2, <4>3, <4>4, <4>5, <4>6 DEF Next
    <3> QED
      BY <1>1, <2>1, <3>1, HandsOther DEF HandsInv
  <2> QED
    BY <2>2, <2>3
<1> QED
  BY <1>2, <1>3

\* However callers race, answers are lost and the sweep re-opens rows, one attempt of one
\* command is in at most one place: one terminal's hand, or one late result.
THEOREM QueueHandsOutOnce == Spec => []AttemptUnique
<1>1. HandsInv => AttemptUnique
  BY DEF HandsInv
<1> QED
  BY <1>1, HandsInit, HandsStep, PTL DEF Spec

-----------------------------------------------------------------------------
(* With one caller and a punctual terminal nothing is repeated *)

\* Requests and commands take less than a tick, and one process enqueues.  With two, each may
\* read a spent row, and the slower re-arms what the faster has had carried out.
OneAtATime == Punctual /\ \A c, d \in Callers : c = d

\* The row of a claim that is being worked on, or whose success is under way: nobody has
\* claimed it again or let it expire, and no tick has passed.  An earlier order of the same
\* command may have been reported in vain meanwhile.
Running(c) ==
    /\ row[c.key].attempts = c.attempt /\ row[c.key].age = 0
    /\ \/ row[c.key].status = "claimed" /\ InTime(c.key)
       \/ row[c.key].status = "failed"

\* What is in a hand, or a success on the wire, is running; the one call between two
\* statements still has the row as it read it, and nobody is at work on what it read as
\* spent.
Handling == \A e \in Executors : \A claim \in hand[e] : Running(claim)
Reporting ==
    \A m \in wire : /\ row[m.key].status # "absent"
                    /\ m.ok => Running(m)
Calling ==
    /\ \A x, y \in calls : x = y
    /\ \A call \in calls :
          /\ call.step = "missing" => row[call.key].status = "absent"
          /\ call.step = "spent" =>
                /\ row[call.key].status \in Retryable
                /\ \A e \in Executors : \A claim \in hand[e] : claim.key # call.key
                /\ \A m \in wire : m.ok => m.key # call.key

\* An order that rests stands at the broker, under one terminal's name; and no order is
\* remembered of a command that was never asked for.
Remembered ==
    /\ \A o \in resting \union unfilled : row[o.key].status # "absent"
    /\ \A o \in resting : [key |-> o.key, attempt |-> o.attempt] \in acted
    /\ \A o, p \in resting : o.key = p.key /\ o.attempt = p.attempt => o = p

RowsInv == HandsInv /\ Handling /\ Reporting /\ Calling /\ Remembered

\* The columns a claim is judged by, and what a failure does to them.
LEMMA RunningKept ==
    ASSUME NEW c, Running(c), row'[c.key] = row[c.key]
    PROVE  Running(c)'
BY DEF Running, InTime

LEMMA RunningFails ==
    ASSUME NEW c, Running(c), row[c.key] \in Row,
           row'[c.key] = Complete(row[c.key], FALSE)
    PROVE  Running(c)'
BY DEF Running, Complete, Row

\* What the types say of the keys named in hands, results, orders and calls.
LEMMA KeysOf ==
    ASSUME TypeOK
    PROVE  /\ row \in [Keys -> Row] /\ \A k \in Keys : row[k] \in Row
           /\ hand \in [Executors -> SUBSET Claim]
           /\ \A e \in Executors : \A c \in hand[e] :
                 c.key \in Keys /\ c = [key |-> c.key, attempt |-> c.attempt]
           /\ \A m \in wire : m.key \in Keys /\ m.ok \in BOOLEAN
           /\ \A o \in resting \union unfilled : o.key \in Keys
           /\ \A call \in calls : call.key \in Keys
           /\ \A c \in acted : c.key \in Keys
           /\ faults \in Nat
BY DEF TypeOK, Claim, Order

\* Calls still see the row as they read it if no row changes that is absent or spent, and
\* nobody gets a claim of one.
LEMMA CallingKept ==
    ASSUME RowsInv, calls' \subseteq calls,
           \A k \in Keys : row[k].status = "absent" => row'[k].status = "absent",
           \A k \in Keys : row[k].status \in Retryable => row'[k].status \in Retryable,
           \A e \in Executors : \A c \in hand'[e] :
              c \in hand[e] \/ row[c.key].status = "pending",
           \A m \in wire' : m.ok => m \in wire \/ \E e \in Executors : \E c \in hand[e] :
                                                     c.key = m.key
    PROVE  Calling'
<1>1. \A call \in calls : call.key \in Keys
  BY KeysOf DEF RowsInv, HandsInv
<1>2. ASSUME NEW call \in calls', call.step = "spent"
      PROVE  /\ row'[call.key].status \in Retryable
             /\ \A e \in Executors : \A claim \in hand'[e] : claim.key # call.key
             /\ \A m \in wire' : m.ok => m.key # call.key
  <2>1. /\ row[call.key].status \in Retryable
        /\ \A e \in Executors : \A claim \in hand[e] : claim.key # call.key
        /\ \A m \in wire : m.ok => m.key # call.key
    BY <1>2 DEF RowsInv, Calling
  <2>2. \A e \in Executors : \A claim \in hand'[e] : claim.key # call.key
    BY <2>1 DEF Retryable
  <2>3. \A m \in wire' : m.ok => m.key # call.key
    BY <2>1
  <2> QED
    BY <1>1, <2>1, <2>2, <2>3
<1>3. \A call \in calls' : call.step = "missing" => row'[call.key].status = "absent"
  BY <1>1 DEF RowsInv, Calling
<1>4. \A x, y \in calls' : x = y
  BY DEF RowsInv, Calling
<1> QED
  BY <1>2, <1>3, <1>4 DEF Calling

LEMMA RowsInit == Init => Handling /\ Reporting /\ Calling /\ Remembered
  BY DEF Init, Handling, Reporting, Calling, Remembered

\* enqueue(): only a row that is absent or spent is written, and by the call that read it.
LEMMA CallStep ==
    ASSUME OneAtATime, RowsInv, NEW c \in Callers, NEW k \in Keys, Enqueue(c, k)
    PROVE  /\ Handling' /\ Reporting' /\ Calling' /\ Remembered'
           /\ \A j \in Keys : row'[j] # row[j] => row[j].status \in Retryable \union {"absent"}
<1>0. TypeOK
  BY DEF RowsInv, HandsInv
<1>1. \A call \in calls : call \in [by : Callers, key : Keys, step : Steps]
  BY <1>0 DEF TypeOK
<1>2. UNCHANGED <<hand, wire, resting, unfilled, acted, faults>>
  BY DEF Enqueue, Look, Read, Create, Rearm
<1>3. \A x \in calls : x.by = c
  BY <1>1 DEF OneAtATime
<1>4. \A j \in Keys : row'[j] # row[j] =>
         /\ row[j].status \in Retryable \union {"absent"} /\ row'[j].status = "pending"
         /\ row[j].status \in Retryable =>
               /\ \A e \in Executors : \A claim \in hand[e] : claim.key # j
               /\ \A m \in wire : m.ok => m.key # j
  <2>1. CASE Look(c, k) \/ Read(c, k)
    BY <2>1 DEF Look, Read
  <2>2. CASE Create(c, k)
    <3>1. [Pending(row[k], k) EXCEPT !.id = Cardinality(Created) + 1].status = "pending"
      BY <1>0, KeysOf DEF Pending, Row
    <3> QED
      BY <1>0, <2>2, <3>1, KeysOf DEF Create, Retryable
  <2>3. CASE Rearm(c, k)
    <3>1. At(c, k, "spent").step = "spent" /\ At(c, k, "spent").key = k
      BY DEF At
    <3>2. At(c, k, "spent") \in calls
      BY <2>3 DEF Rearm
    <3>3. /\ row[k].status \in Retryable
          /\ \A e \in Executors : \A claim \in hand[e] : claim.key # k
          /\ \A m \in wire : m.ok => m.key # k
      BY <3>1, <3>2 DEF RowsInv, Calling
    <3>4. Pending(row[k], k).status = "pending"
      BY <1>0, KeysOf DEF Pending, Row
    <3>5. row' = [row EXCEPT ![k] = Pending(row[k], k)]
      BY <2>3 DEF Rearm
    <3> QED
      BY <1>0, <3>3, <3>4, <3>5, KeysOf
  <2> QED
    BY <2>1, <2>2, <2>3 DEF Enqueue
<1>5. \A j \in Keys : row[j].status # "absent" => row'[j].status # "absent"
  BY <1>4
<1>6. Handling'
  <2>1. ASSUME NEW e \in Executors, NEW claim \in hand[e] PROVE row'[claim.key] = row[claim.key]
    <3>1. claim.key \in Keys /\ row[claim.key].status \notin {"absent", "expired"}
      BY <1>0, KeysOf DEF RowsInv, Handling, Running
    <3> QED
      BY <1>4, <3>1
  <2> QED
    BY <1>2, <2>1, RunningKept DEF RowsInv, Handling
<1>7. Reporting'
  <2>1. ASSUME NEW m \in wire, m.ok PROVE row'[m.key] = row[m.key]
    <3>1. m.key \in Keys /\ row[m.key].status \notin {"absent", "expired"}
      BY <1>0, <2>1, KeysOf DEF RowsInv, Reporting, Running
    <3> QED
      BY <1>4, <2>1, <3>1
  <2>2. \A m \in wire : row'[m.key].status # "absent"
    BY <1>0, <1>5, KeysOf DEF RowsInv, Reporting
  <2>3. \A m \in wire : m.ok => Running(m)'
    BY <2>1, RunningKept DEF RowsInv, Reporting
  <2> QED
    BY <1>2, <2>2, <2>3 DEF Reporting
<1>8. Remembered'
  BY <1>0, <1>2, <1>5, KeysOf DEF RowsInv, Remembered
<1>9. Calling'
  <2>1. CASE Look(c, k)
    <3>1. calls = {}
      BY <1>3, <2>1 DEF Look, Idle
    <3>2. calls' = {At(c, k, "looked")} /\ row' = row
      BY <2>1, <3>1 DEF Look
    <3> QED
      BY <3>2 DEF Calling, At
  <2>2. CASE Read(c, k)
    <3>1. {call \in calls : call.by # c} = {}
      BY <1>3
    <3>2. row' = row /\ calls' = AfterRead(c, k)
      BY <2>2 DEF Read
    <3>3. CASE row[k].status = "absent"
      <4>1. calls' = {At(c, k, "missing")}
        BY <3>1, <3>2, <3>3 DEF AfterRead, Retryable
      <4>2. At(c, k, "missing").step = "missing" /\ At(c, k, "missing").key = k
        BY DEF At
      <4> QED
        BY <3>2, <3>3, <4>1, <4>2 DEF Calling
    <3>4. CASE row[k].status \in Retryable /\ ReadyToRetry(k)
      <4>1. calls' = {At(c, k, "spent")}
        BY <3>1, <3>2, <3>4 DEF AfterRead, Retryable
      <4>2. row[k].status = "failed" => row[k].age # 0
        <5>1. row[k].attempts \in Nat /\ row[k].age \in Nat
          BY <1>0, KeysOf DEF Row
        <5>2. Backoff \in Nat \ {0}
          BY TimesAssumption
        <5> DEFINE n == IF row[k].attempts = 0 THEN 1 ELSE row[k].attempts
        <5>3. n \in Nat \ {0}
          BY <5>1
        <5>4. row[k].status = "failed" => row[k].age >= Backoff * n
          BY <3>4 DEF ReadyToRetry
        <5> HIDE DEF n
        <5>5. Backoff * n >= 1
          BY <5>2, <5>3
        <5>6. Backoff * n \in Nat
          BY <5>2, <5>3
        <5> QED
          BY <5>1, <5>4, <5>5, <5>6
      <4>3. /\ \A e \in Executors : \A claim \in hand[e] : claim.key # k
            /\ \A m \in wire : m.ok => m.key # k
        BY <3>4, <4>2 DEF RowsInv, Handling, Reporting, Running, Retryable
      <4>4. At(c, k, "spent").step = "spent" /\ At(c, k, "spent").key = k
        BY DEF At
      <4> QED
        BY <1>2, <3>2, <3>4, <4>1, <4>3, <4>4 DEF Calling
    <3>5. CASE row[k].status # "absent" /\ ~(row[k].status \in Retryable /\ ReadyToRetry(k))
      <4>1. calls' = {}
        BY <3>1, <3>2, <3>5 DEF AfterRead
      <4> QED
        BY <4>1 DEF Calling
    <3> QED
      BY <3>3, <3>4, <3>5
  <2>3. CASE Create(c, k) \/ Rearm(c, k)
    <3>1. calls' = {}
      BY <2>3 DEF Create, Rearm, RowsInv, Calling
    <3> QED
      BY <3>1 DEF Calling
  <2> QED
    BY <2>1, <2>2, <2>3 DEF Enqueue
<1> QED
  BY <1>4, <1>6, <1>7, <1>8, <1>9

\* claimBatch: only pending rows are claimed, and what the terminal gets is running.
LEMMA PollStep ==
    ASSUME RowsInv, NEW e \in Executors, Poll(e) \/ PollLost(e)
    PROVE  /\ Handling' /\ Reporting' /\ Calling' /\ Remembered'
           /\ \A j \in Keys : row'[j] # row[j] => /\ row[j].status = "pending"
                                                  /\ row'[j].status = "claimed"
<1>0. TypeOK
  BY DEF RowsInv, HandsInv
<1>2. row' = Claimed(e) /\ UNCHANGED <<calls, wire, resting, unfilled, acted>>
  BY DEF Poll, PollLost
<1>3. \A k \in Batch(e) : k \in Keys /\ row[k].status = "pending" /\ InTime(k)
  BY DEF Batch, Claimable
<1>4. \A k \in Keys :
         /\ k \notin Batch(e) => row'[k] = row[k]
         /\ k \in Batch(e) => /\ row'[k].status = "claimed" /\ row'[k].age = 0
                              /\ row'[k].attempts = row[k].attempts + 1
                              /\ row'[k].ttl = row[k].ttl
  BY <1>0, <1>2, KeysOf DEF Claimed, Row
<1>5. \A k \in Keys : row[k].status # "pending" => row'[k] = row[k]
  BY <1>3, <1>4
<1>6. ASSUME NEW f \in Executors, NEW claim \in hand[f] PROVE Running(claim)'
  BY <1>0, <1>5, KeysOf, RunningKept DEF RowsInv, Handling, Running
<1>7. \A f \in Executors : \A claim \in hand'[f] :
         /\ Running(claim)'
         /\ claim \in hand[f] \/ row[claim.key].status = "pending"
  <2>1. CASE PollLost(e)
    BY <1>6, <2>1 DEF PollLost
  <2>2. CASE Poll(e)
    <3> DEFINE given == {[key |-> k, attempt |-> row[k].attempts + 1] : k \in Batch(e)}
    <3>1. \A claim \in given : Running(claim)' /\ row[claim.key].status = "pending"
      BY <1>3, <1>4 DEF Running, InTime
    <3>2. hand' = [hand EXCEPT ![e] = given]
      BY <2>2 DEF Poll
    <3> HIDE DEF given
    <3>3. \A f \in Executors : hand'[f] = IF f = e THEN given ELSE hand[f]
      BY <1>0, <3>2, KeysOf
    <3> QED
      BY <1>6, <3>1, <3>3
  <2> QED
    BY <2>1, <2>2
<1>8. Reporting'
  <2>1. \A m \in wire : m.ok => Running(m)'
    BY <1>0, <1>5, KeysOf, RunningKept DEF RowsInv, Reporting, Running
  <2>2. \A m \in wire : row'[m.key].status # "absent"
    BY <1>0, <1>4, KeysOf DEF RowsInv, Reporting
  <2> QED
    BY <1>2, <2>1, <2>2 DEF Reporting
<1>9. Calling'
  BY <1>2, <1>5, <1>7, CallingKept DEF Retryable
<1>10. Remembered'
  BY <1>0, <1>2, <1>4, KeysOf DEF RowsInv, Remembered
<1> QED
  BY <1>3, <1>4, <1>7, <1>8, <1>9, <1>10 DEF Handling

\* A failure is recorded, of a claim, or of an order that rested in vain: whoever works on
\* the command goes on working on it.
LEMMA FailStep ==
    ASSUME RowsInv, NEW k \in Keys, row[k].status # "absent",
           row' = [row EXCEPT ![k] = Complete(@, FALSE)], calls' = calls,
           \A e \in Executors : hand'[e] \subseteq hand[e], wire' \subseteq wire
    PROVE  Handling' /\ Reporting' /\ Calling'
<1>0. TypeOK
  BY DEF RowsInv, HandsInv
<1>1. \A j \in Keys : row'[j] = IF j = k THEN Complete(row[j], FALSE) ELSE row[j]
  BY <1>0, KeysOf
<1>2. Complete(row[k], FALSE).status = "failed"
  BY <1>0, KeysOf DEF Complete, Row
<1>3. ASSUME NEW c, c.key \in Keys, Running(c) PROVE Running(c)'
  <2>1. CASE c.key = k
    BY <1>0, <1>1, <1>3, <2>1, KeysOf, RunningFails
  <2>2. CASE c.key # k
    BY <1>1, <1>3, <2>2, RunningKept
  <2> QED
    BY <2>1, <2>2
<1>4. Handling'
  BY <1>0, <1>3, KeysOf DEF RowsInv, Handling
<1>5. Reporting'
  BY <1>0, <1>1, <1>2, <1>3, KeysOf DEF RowsInv, Reporting
<1>6. Calling'
  BY <1>1, <1>2, CallingKept DEF Retryable
<1> QED
  BY <1>4, <1>5, <1>6

\* A success is recorded, of something that was running and is no longer.
LEMMA DoneStep ==
    ASSUME RowsInv, NEW k \in Keys, row[k].status # "absent",
           row' = [row EXCEPT ![k] = Complete(@, TRUE)], calls' = calls,
           \A e \in Executors : hand'[e] \subseteq hand[e] /\ \A c \in hand'[e] : c.key # k,
           wire' \subseteq wire, \A m \in wire' : m.ok => m.key # k,
           \A call \in calls : call.step = "spent" => call.key # k
    PROVE  Handling' /\ Reporting' /\ Calling'
<1>0. TypeOK
  BY DEF RowsInv, HandsInv
<1>1. \A j \in Keys : row'[j] = IF j = k THEN Complete(row[j], TRUE) ELSE row[j]
  BY <1>0, KeysOf
<1>2. Complete(row[k], TRUE).status = "done"
  BY <1>0, KeysOf DEF Complete, Row
<1>3. Handling'
  <2>1. \A e \in Executors : \A c \in hand'[e] : Running(c) /\ row'[c.key] = row[c.key]
    BY <1>0, <1>1, KeysOf DEF RowsInv, Handling
  <2> QED
    BY <2>1, RunningKept DEF Handling
<1>4. Reporting'
  <2>1. \A m \in wire' : m.ok => Running(m) /\ row'[m.key] = row[m.key]
    BY <1>0, <1>1, KeysOf DEF RowsInv, Reporting
  <2>2. \A m \in wire' : m.ok => Running(m)'
    BY <2>1, RunningKept
  <2>3. \A m \in wire' : row'[m.key].status # "absent"
    BY <1>0, <1>1, <1>2, KeysOf DEF RowsInv, Reporting
  <2> QED
    BY <2>2, <2>3 DEF Reporting
<1>5. Calling'
  <2>1. \A call \in calls : call.step = "missing" =>
           row'[call.key].status = "absent"
    BY <1>0, <1>1, KeysOf DEF RowsInv, Calling
  <2>2. \A call \in calls : call.step = "spent" =>
           /\ row'[call.key].status \in Retryable
           /\ \A e \in Executors : \A claim \in hand'[e] : claim.key # call.key
           /\ \A m \in wire' : m.ok => m.key # call.key
    BY <1>0, <1>1, KeysOf DEF RowsInv, Calling
  <2> QED
    BY <2>1, <2>2 DEF RowsInv, Calling
<1> QED
  BY <1>3, <1>4, <1>5

\* Nobody else has a claim on the row that a claim in hand runs, nor is a success of it
\* under way: its attempt would be the same one.
LEMMA Alone ==
    ASSUME RowsInv, NEW e \in Executors, NEW claim \in hand[e]
    PROVE  /\ claim.key \in Keys
           /\ row[claim.key].status \in {"claimed", "failed"}
           /\ \A f \in Executors : \A c \in hand[f] :
                 c.key = claim.key => f = e /\ c = claim
           /\ \A m \in wire : m.ok => m.key # claim.key
           /\ \A call \in calls : call.step = "spent" => call.key # claim.key
<1>1. \A f \in Executors : hand[f] \subseteq Claim
  BY DEF RowsInv, HandsInv, TypeOK
<1>2. Running(claim) /\ \A f \in Executors : \A c \in hand[f] : Running(c)
  BY DEF RowsInv, Handling
<1>3. \A f \in Executors : \A c \in hand[f] : c.key = claim.key => c = claim
  BY <1>1, <1>2 DEF Running, Claim
<1>4. \A f \in Executors : \A c \in hand[f] : c = claim => f = e
  BY DEF RowsInv, HandsInv, AttemptUnique
<1>5. \A m \in wire : m.ok => m.key # claim.key
  BY <1>2 DEF RowsInv, HandsInv, AttemptUnique, Reporting, Running
<1>6. \A call \in calls : call.step = "spent" => call.key # claim.key
  BY DEF RowsInv, Calling
<1> QED
  BY <1>1, <1>2, <1>3, <1>4, <1>5, <1>6 DEF Running, Claim

\* A terminal is done with a command: an order that rests is remembered as one that stands.
LEMMA RememberStep ==
    ASSUME RowsInv, NEW e \in Executors, NEW claim \in hand[e], NEW ok \in BOOLEAN,
           Broker(e, claim, ok), unfilled' = unfilled,
           \A k \in Keys : row[k].status # "absent" => row'[k].status # "absent"
    PROVE  Remembered'
<1>0. TypeOK
  BY DEF RowsInv, HandsInv
<1> DEFINE placed == [by |-> e, key |-> claim.key, attempt |-> claim.attempt]
<1>1. /\ claim.key \in Keys /\ row'[claim.key].status # "absent"
      /\ claim = [key |-> claim.key, attempt |-> claim.attempt]
  BY <1>0, Alone, KeysOf
<1>2. /\ acted \subseteq acted'
      /\ \/ resting' = resting
         \/ claim \in acted' /\ resting' = resting \union {placed}
  <2>1. CASE ok
    BY <2>1 DEF Broker
  <2>2. CASE ~ok
    BY <2>2 DEF Broker
  <2> QED
    BY <2>1, <2>2
<1>3. placed.key = claim.key /\ placed.attempt = claim.attempt
  OBVIOUS
<1> HIDE DEF placed
<1>4. \A o \in resting : ~(o.key = claim.key /\ o.attempt = claim.attempt)
  BY DEF RowsInv, HandsInv, Waiting
<1>5. \A o \in resting' \union unfilled' : row'[o.key].status # "absent"
  BY <1>0, <1>1, <1>2, <1>3, KeysOf DEF RowsInv, Remembered
<1>6. \A o \in resting' : [key |-> o.key, attempt |-> o.attempt] \in acted'
  BY <1>1, <1>2, <1>3 DEF RowsInv, Remembered
<1>7. \A o, p \in resting' : o.key = p.key /\ o.attempt = p.attempt => o = p
  BY <1>2, <1>3, <1>4 DEF RowsInv, Remembered
<1> QED
  BY <1>5, <1>6, <1>7 DEF Remembered

LEMMA WorkStep ==
    ASSUME RowsInv, NEW e \in Executors, Work(e)
    PROVE  /\ Handling' /\ Reporting' /\ Calling' /\ Remembered'
           /\ \A j \in Keys : row'[j] # row[j] => row'[j].status # "pending"
<1>1. PICK claim \in hand[e], ok \in BOOLEAN :
         Report(e, claim, ok) \/ ReportLost(e, claim, ok) \/ ReportLate(e, claim, ok)
  BY DEF Work
<1>0. TypeOK
  BY DEF RowsInv, HandsInv
<1>3. /\ hand' = [hand EXCEPT ![e] = @ \ {claim}] /\ claim.key \in Keys
      /\ row[claim.key].status # "absent"
      /\ Broker(e, claim, ok) /\ calls' = calls /\ unfilled' = unfilled
  BY <1>1, Alone DEF Report, ReportLost, ReportLate
<1>4. /\ \A f \in Executors : hand'[f] \subseteq hand[f]
      /\ \A f \in Executors : \A c \in hand'[f] : c.key # claim.key
  BY <1>0, <1>3, Alone, KeysOf
<1>5. CASE Report(e, claim, ok)
  <2>1. row' = [row EXCEPT ![claim.key] = Complete(@, ok)] /\ wire' = wire
    BY <1>5 DEF Report
  <2>2. \A j \in Keys : row'[j] = IF j = claim.key THEN Complete(row[j], ok) ELSE row[j]
    BY <1>0, <2>1, KeysOf
  <2>3. Complete(row[claim.key], ok).status = IF ok THEN "done" ELSE "failed"
    BY <1>0, <1>3, KeysOf DEF Complete, Row
  <2>4. Handling' /\ Reporting' /\ Calling'
    <3>1. CASE ok
      <4>1. row' = [row EXCEPT ![claim.key] = Complete(@, TRUE)]
        BY <2>1, <3>1
      <4>2. \A f \in Executors : hand'[f] \subseteq hand[f] /\ \A c \in hand'[f] : c.key # claim.key
        BY <1>4
      <4>3. \A m \in wire' : m.ok => m.key # claim.key
        BY <2>1, Alone
      <4>4. \A call \in calls : call.step = "spent" => call.key # claim.key
        BY Alone
      <4> QED
        BY <1>3, <2>1, <4>1, <4>2, <4>3, <4>4, DoneStep
    <3>2. CASE ~ok
      <4>1. row' = [row EXCEPT ![claim.key] = Complete(@, FALSE)]
        BY <2>1, <3>2
      <4> QED
        BY <1>3, <1>4, <2>1, <4>1, FailStep
    <3> QED
      BY <3>1, <3>2
  <2>5. Remembered'
    BY <1>3, <2>2, <2>3, RememberStep
  <2> QED
    BY <2>2, <2>3, <2>4, <2>5
<1>6. CASE ReportLost(e, claim, ok)
  <2>1. UNCHANGED <<row, wire, calls>>
    BY <1>6 DEF ReportLost
  <2>2. Handling' /\ Reporting' /\ Calling'
    BY <1>4, <2>1 DEF RowsInv, Handling, Reporting, Calling, Running, InTime
  <2>3. Remembered'
    BY <1>3, <2>1, RememberStep
  <2> QED
    BY <2>1, <2>2, <2>3
<1>7. CASE ReportLate(e, claim, ok)
  <2>1. UNCHANGED <<row, calls>> /\ wire' = wire \union {Result(claim, ok)}
    BY <1>7 DEF ReportLate
  <2>2. /\ Result(claim, ok).key = claim.key /\ Result(claim, ok).ok = ok
        /\ Result(claim, ok).attempt = claim.attempt
    BY DEF Result
  <2>3. Handling'
    BY <1>4, <2>1 DEF RowsInv, Handling, Running, InTime
  <2>4. Reporting'
    <3>1. Running(claim)
      BY DEF RowsInv, Handling
    <3>2. Running(Result(claim, ok))
      BY <2>2, <3>1 DEF Running
    <3>3. \A m \in wire' : row[m.key].status # "absent" /\ (m.ok => Running(m))
      BY <1>3, <2>1, <2>2, <3>2 DEF RowsInv, Reporting
    <3> QED
      BY <2>1, <3>3 DEF Reporting, Running, InTime
  <2>5. Calling'
    <3>1. \A m \in wire' : m \in wire \/ m.key = claim.key
      BY <2>1, <2>2
    <3> QED
      BY <1>4, <2>1, <3>1, CallingKept
  <2>6. Remembered'
    BY <1>3, <2>1, RememberStep
  <2> QED
    BY <2>1, <2>3, <2>4, <2>5, <2>6
<1> QED
  BY <1>1, <1>5, <1>6, <1>7

LEMMA LateStep ==
    ASSUME RowsInv, NEW m \in wire, LateResult(m)
    PROVE  /\ Handling' /\ Reporting' /\ Calling' /\ Remembered'
           /\ \A j \in Keys : row'[j] # row[j] => row'[j].status # "pending"
<1>0. TypeOK
  BY DEF RowsInv, HandsInv
<1>1. m.key \in Keys /\ m.ok \in BOOLEAN /\ row[m.key].status # "absent"
  BY <1>0, KeysOf DEF RowsInv, Reporting
<1>2. /\ row' = [row EXCEPT ![m.key] = Complete(@, m.ok)]
      /\ wire' = wire \ {m} /\ UNCHANGED <<calls, hand, resting, unfilled, acted>>
  BY DEF LateResult
<1>3. \A j \in Keys : row'[j] = IF j = m.key THEN Complete(row[j], m.ok) ELSE row[j]
  BY <1>0, <1>2, KeysOf
<1>4. Complete(row[m.key], m.ok).status = IF m.ok THEN "done" ELSE "failed"
  BY <1>0, <1>1, KeysOf DEF Complete, Row
<1>5. Handling' /\ Reporting' /\ Calling'
  <2>1. CASE m.ok
    <3>1. row' = [row EXCEPT ![m.key] = Complete(@, TRUE)]
      BY <1>2, <2>1
    <3>2. \A e \in Executors : \A c \in hand'[e] : c.key # m.key
      BY <1>2, <2>1, Alone
    <3>3. \A n \in wire' : n.ok => n.key # m.key
      <4>1. SUFFICES ASSUME NEW n \in wire', n.ok, n.key = m.key PROVE FALSE
        OBVIOUS
      <4>2. n \in wire /\ n # m /\ n.attempt = m.attempt
        BY <1>2, <2>1, <4>1 DEF RowsInv, Reporting, Running
      <4>3. wire \subseteq [key : Keys, attempt : Nat, ok : BOOLEAN]
        BY <1>0 DEF TypeOK
      <4>4. n.ok = TRUE /\ m.ok = TRUE
        BY <2>1, <4>1, <4>2, <4>3
      <4>5. /\ n = [key |-> n.key, attempt |-> n.attempt, ok |-> n.ok]
            /\ m = [key |-> m.key, attempt |-> m.attempt, ok |-> m.ok]
        BY <4>2, <4>3
      <4> QED
        BY <4>1, <4>2, <4>4, <4>5
    <3>4. \A call \in calls : call.step = "spent" => call.key # m.key
      BY <2>1 DEF RowsInv, Calling
    <3> QED
      BY <1>1, <1>2, <3>1, <3>2, <3>3, <3>4, DoneStep
  <2>2. CASE ~m.ok
    <3>1. row' = [row EXCEPT ![m.key] = Complete(@, FALSE)]
      BY <1>1, <1>2, <2>2
    <3> QED
      BY <1>1, <1>2, <3>1, FailStep
  <2> QED
    BY <2>1, <2>2
<1>6. Remembered'
  BY <1>0, <1>2, <1>3, <1>4, KeysOf DEF RowsInv, Remembered
<1> QED
  BY <1>3, <1>4, <1>5, <1>6

\* An order fills, or is let go and its command failed for it.
LEMMA OutcomeStep ==
    ASSUME RowsInv, NEW o \in resting \union unfilled, Outcome(o)
    PROVE  /\ Handling' /\ Reporting' /\ Calling' /\ Remembered'
           /\ \A j \in Keys : row'[j] # row[j] => row'[j].status # "pending"
<1>0. TypeOK
  BY DEF RowsInv, HandsInv
<1>1. o.key \in Keys /\ row[o.key].status # "absent"
  BY <1>0, KeysOf DEF RowsInv, Remembered
<1>2. CASE Filled(o) \/ Retire(o) \/ FlushRefused(o)
  <2>1. UNCHANGED <<row, calls, hand, wire>>
    BY <1>2 DEF Filled, Retire, FlushRefused
  <2>2. Handling' /\ Reporting' /\ Calling'
    BY <2>1 DEF RowsInv, Handling, Reporting, Calling, Running, InTime
  <2>3. Remembered'
    <3>1. CASE Filled(o) \/ FlushRefused(o)
      BY <2>1, <3>1 DEF Filled, FlushRefused, RowsInv, Remembered
    <3>2. CASE Retire(o)
      <4>1. /\ o \in resting /\ resting' = resting \ {o} /\ unfilled' = unfilled \union {o}
            /\ acted' = acted \ {[key |-> o.key, attempt |-> o.attempt]}
        BY <3>2 DEF Retire
      <4>2. \A p \in resting' : [key |-> p.key, attempt |-> p.attempt]
                                   # [key |-> o.key, attempt |-> o.attempt]
        BY <4>1 DEF RowsInv, Remembered
      <4> QED
        BY <1>1, <2>1, <4>1, <4>2 DEF RowsInv, Remembered
    <3> QED
      BY <1>2, <3>1, <3>2
  <2> QED
    BY <2>1, <2>2, <2>3
<1>3. CASE Flush(o)
  <2>1. /\ row' = [row EXCEPT ![o.key] = Complete(@, FALSE)]
        /\ unfilled' = unfilled \ {o} /\ UNCHANGED <<calls, hand, wire, resting, acted>>
    BY <1>3 DEF Flush
  <2>2. Handling' /\ Reporting' /\ Calling'
    BY <1>1, <2>1, FailStep
  <2>3. \A j \in Keys : row'[j] = IF j = o.key THEN Complete(row[j], FALSE) ELSE row[j]
    BY <1>0, <2>1, KeysOf
  <2>4. Complete(row[o.key], FALSE).status = "failed"
    BY <1>0, <1>1, KeysOf DEF Complete, Row
  <2>5. Remembered'
    BY <1>0, <2>1, <2>3, <2>4, KeysOf DEF RowsInv, Remembered
  <2> QED
    BY <2>2, <2>3, <2>4, <2>5
<1>4. CASE FlushLate(o)
  <2>1. /\ wire' = wire \union {Result(o, FALSE)}
        /\ UNCHANGED <<row, calls, hand, resting, unfilled, acted>>
    BY <1>4 DEF FlushLate
  <2>2. Result(o, FALSE).key = o.key /\ Result(o, FALSE).ok = FALSE
    BY DEF Result
  <2>3. Handling' /\ Remembered'
    BY <2>1 DEF RowsInv, Handling, Remembered, Running, InTime
  <2>4. Reporting'
    <3>1. \A m \in wire' : row[m.key].status # "absent" /\ (m.ok => Running(m))
      BY <1>1, <2>1, <2>2 DEF RowsInv, Reporting
    <3> QED
      BY <2>1, <3>1 DEF Reporting, Running, InTime
  <2>5. Calling'
    BY <2>1, <2>2, CallingKept
  <2> QED
    BY <2>1, <2>3, <2>4, <2>5
<1> QED
  BY <1>2, <1>3, <1>4 DEF Outcome

\* sweepExpired() leaves a running claim alone: it has not expired, and it is younger than
\* any STALE_CLAIM_MINUTES there can be.
LEMMA SweepStep ==
    ASSUME RowsInv, Sweep
    PROVE  /\ Handling' /\ Reporting' /\ Calling' /\ Remembered'
           /\ \A j \in Keys : row'[j] # row[j] => /\ row[j].status \in {"pending", "claimed"}
                                                  /\ row'[j].status = "expired"
<1>0. TypeOK
  BY DEF RowsInv, HandsInv
<1>2. UNCHANGED <<calls, hand, wire, resting, unfilled, acted>>
  BY DEF Sweep
<1>3. \A k \in Keys :
         /\ ~(Lapsed(k) \/ Abandoned(k)) => row'[k] = row[k]
         /\ Lapsed(k) \/ Abandoned(k) => row'[k].status = "expired"
  BY <1>0, KeysOf DEF Sweep, Row
<1>4. \A k \in Keys : row[k].status \notin {"pending", "claimed"} => row'[k] = row[k]
  BY <1>3 DEF Lapsed, Abandoned
<1>5. ASSUME NEW c, Running(c) PROVE ~Lapsed(c.key) /\ ~Abandoned(c.key)
  BY <1>5, TimesAssumption DEF Running, Lapsed, Abandoned
<1>6. Handling'
  BY <1>0, <1>2, <1>3, <1>5, KeysOf, RunningKept DEF RowsInv, Handling
<1>7. Reporting'
  <2>1. \A m \in wire : m.ok => Running(m)'
    BY <1>0, <1>3, <1>5, KeysOf, RunningKept DEF RowsInv, Reporting
  <2>2. \A m \in wire : row'[m.key].status # "absent"
    BY <1>0, <1>3, KeysOf DEF RowsInv, Reporting
  <2> QED
    BY <1>2, <2>1, <2>2 DEF Reporting
<1>8. Calling'
  BY <1>2, <1>4, CallingKept DEF Retryable
<1>9. Remembered'
  BY <1>0, <1>2, <1>3, KeysOf DEF RowsInv, Remembered
<1> QED
  BY <1>3, <1>6, <1>7, <1>8, <1>9 DEF Lapsed, Abandoned

\* A tick finds nothing in hand and nothing under way, and no row changes its status.
LEMMA TickStep ==
    ASSUME OneAtATime, RowsInv, Tick
    PROVE  /\ Handling' /\ Reporting' /\ Calling' /\ Remembered'
           /\ \A j \in Keys : row'[j].status = row[j].status
<1>1. calls = {} /\ wire = {} /\ \A e \in Executors : hand[e] = {}
  BY DEF Tick, OneAtATime
<1>2. UNCHANGED <<calls, hand, wire, resting, unfilled, acted>>
  BY DEF Tick
<1>3. TypeOK
  BY DEF RowsInv, HandsInv
<1>4. \A j \in Keys : row'[j].status = row[j].status
  BY <1>3, KeysOf DEF Tick, Later, Row
<1>5. Remembered'
  BY <1>2, <1>3, <1>4, KeysOf DEF RowsInv, Remembered
<1> QED
  BY <1>1, <1>2, <1>4, <1>5 DEF Handling, Reporting, Calling

LEMMA CrashStep ==
    ASSUME RowsInv, NEW e \in Executors, Crash(e)
    PROVE  Handling' /\ Reporting' /\ Calling' /\ Remembered' /\ row' = row
<1>1. /\ UNCHANGED <<row, calls, wire, acted>> /\ hand' = [hand EXCEPT ![e] = {}]
      /\ resting' \subseteq resting /\ unfilled' \subseteq unfilled
      /\ hand \in [Executors -> SUBSET Claim]
  BY DEF Crash, RowsInv, HandsInv, TypeOK
<1>2. \A f \in Executors : hand'[f] \subseteq hand[f]
  BY <1>1
<1>3. Handling' /\ Reporting' /\ Calling'
  BY <1>1, <1>2 DEF RowsInv, Handling, Reporting, Calling, Running, InTime
<1>4. Remembered'
  BY <1>1 DEF RowsInv, Remembered
<1> QED
  BY <1>1, <1>3, <1>4

\* What a step may do to the rows: none becomes pending but one that is absent or spent.
Collapses ==
    \A k \in Keys : row[k].status # "pending" /\ row'[k].status = "pending"
                       => row[k].status \in Retryable \union {"absent"}

LEMMA RowsStep ==
    ASSUME OneAtATime, RowsInv, [Next]_vars
    PROVE  RowsInv' /\ Collapses
<1>1. HandsInv'
  BY HandsStep DEF RowsInv
<1>2. CASE \E c \in Callers, k \in Keys : Enqueue(c, k)
  BY <1>1, <1>2, CallStep DEF RowsInv, Collapses
<1>3. CASE \E e \in Executors : Poll(e) \/ PollLost(e)
  BY <1>1, <1>3, PollStep DEF RowsInv, Collapses
<1>4. CASE \E e \in Executors : Work(e)
  BY <1>1, <1>4, WorkStep DEF RowsInv, Collapses
<1>5. CASE \E e \in Executors : Crash(e)
  BY <1>1, <1>5, CrashStep DEF RowsInv, Collapses
<1>6. CASE \E m \in wire : LateResult(m)
  BY <1>1, <1>6, LateStep DEF RowsInv, Collapses
<1>7. CASE \E o \in resting \union unfilled : Outcome(o)
  BY <1>1, <1>7, OutcomeStep DEF RowsInv, Collapses
<1>8. CASE Sweep
  BY <1>1, <1>8, SweepStep DEF RowsInv, Collapses
<1>9. CASE Tick
  BY <1>1, <1>9, TickStep DEF RowsInv, Collapses
<1>10. CASE UNCHANGED vars
  BY <1>1, <1>10 DEF vars, RowsInv, Handling, Reporting, Calling, Remembered, Running, InTime,
     Collapses
<1> QED
  BY <1>2, <1>3, <1>4, <1>5, <1>6, <1>7, <1>8, <1>9, <1>10 DEF Next

\* "done, pending and claimed still collapse": whatever is lost, late or swept, only a row
\* that does not exist yet or is spent goes to pending.
THEOREM QueueLiveRowsCollapse ==
    ASSUME OneAtATime
    PROVE  Spec => LiveRowsCollapse
<1>1. Init => RowsInv
  BY HandsInit, RowsInit DEF RowsInv
<1>2. RowsInv /\ [Next]_vars => RowsInv' /\ [Collapses]_vars
  BY RowsStep
<1> QED
  BY <1>1, <1>2, PTL DEF Spec, LiveRowsCollapse, Collapses

-----------------------------------------------------------------------------
(* How often a command can stand at the broker *)

Of(S, k) == {x \in S : x.key = k}

Failing == {m \in wire : ~m.ok}

\* What can still bring command k to the broker once more, or already has: the orders that
\* stand, the failures still to be recorded, and that the row is not done.
Due(k) == IF row[k].status = "done" THEN 0 ELSE 1

Finite == IsFiniteSet(acted) /\ IsFiniteSet(unfilled) /\ IsFiniteSet(wire)
Owing ==
    \A k \in Keys :
        Cardinality(Of(acted, k)) + Cardinality(Of(unfilled, k))
            + Cardinality(Of(Failing, k)) + Due(k) <= 1 + faults

OwedInv == RowsInv /\ Finite /\ Owing

LEMMA OfFinite ==
    ASSUME NEW S, IsFiniteSet(S), NEW k
    PROVE  IsFiniteSet(Of(S, k)) /\ Cardinality(Of(S, k)) \in Nat
<1>1. Of(S, k) \subseteq S
  BY DEF Of
<1> QED
  BY <1>1, FS_Subset, FS_CardinalityType

LEMMA OfFewer ==
    ASSUME NEW S, NEW T, IsFiniteSet(T), S \subseteq T, NEW k
    PROVE  Cardinality(Of(S, k)) <= Cardinality(Of(T, k))
<1>1. Of(S, k) \subseteq Of(T, k)
  BY DEF Of
<1> QED
  BY <1>1, OfFinite, FS_Subset

LEMMA OfMore ==
    ASSUME NEW S, IsFiniteSet(S), NEW x, NEW k
    PROVE  /\ IsFiniteSet(S \union {x})
           /\ Cardinality(Of(S \union {x}, k)) <= Cardinality(Of(S, k)) + 1
           /\ x.key # k => Of(S \union {x}, k) = Of(S, k)
<1>1. IsFiniteSet(S \union {x})
  BY FS_AddElement
<1>2. x.key # k => Of(S \union {x}, k) = Of(S, k)
  BY DEF Of
<1>3. CASE x.key = k
  <2>1. Of(S \union {x}, k) = Of(S, k) \union {x}
    BY <1>3 DEF Of
  <2>2. Cardinality(Of(S, k) \union {x}) =
           IF x \in Of(S, k) THEN Cardinality(Of(S, k)) ELSE Cardinality(Of(S, k)) + 1
    BY OfFinite, FS_AddElement
  <2>3. Cardinality(Of(S, k)) \in Nat
    BY OfFinite
  <2>4. Cardinality(Of(S, k) \union {x}) <= Cardinality(Of(S, k)) + 1
    BY <2>2, <2>3
  <2>5. Cardinality(Of(S \union {x}, k)) <= Cardinality(Of(S, k)) + 1
    BY <2>1, <2>4
  <2> QED
    BY <1>1, <1>2, <2>5
<1>4. CASE x.key # k
  <2>1. Cardinality(Of(S, k)) \in Nat
    BY OfFinite
  <2> QED
    BY <1>1, <1>2, <1>4, <2>1
<1> QED
  BY <1>3, <1>4

LEMMA OfLess ==
    ASSUME NEW S, IsFiniteSet(S), NEW x \in S, NEW k
    PROVE  /\ IsFiniteSet(S \ {x})
           /\ x.key = k => Cardinality(Of(S \ {x}, k)) = Cardinality(Of(S, k)) - 1
           /\ x.key # k => Of(S \ {x}, k) = Of(S, k)
<1>1. IsFiniteSet(S \ {x})
  BY FS_RemoveElement
<1>2. x.key # k => Of(S \ {x}, k) = Of(S, k)
  BY DEF Of
<1>3. CASE x.key = k
  <2>1. Of(S \ {x}, k) = Of(S, k) \ {x} /\ x \in Of(S, k)
    BY <1>3 DEF Of
  <2>2. Cardinality(Of(S, k) \ {x}) =
           IF x \in Of(S, k) THEN Cardinality(Of(S, k)) - 1 ELSE Cardinality(Of(S, k))
    BY OfFinite, FS_RemoveElement
  <2> QED
    BY <1>1, <1>3, <2>1, <2>2
<1> QED
  BY <1>1, <1>2, <1>3

LEMMA NotNegative ==
    ASSUME NEW x \in Nat, NEW y \in Nat, x <= y
    PROVE  0 <= y - x
OBVIOUS

\* The sum of one command changes by no more than the faults do.
LEMMA OwingMoves ==
    ASSUME OwedInv, Finite', NEW j \in Keys,
           NEW a \in Int, NEW u \in Int, NEW f \in Int, NEW d \in Int,
           Cardinality(Of(acted, j))' <= Cardinality(Of(acted, j)) + a,
           Cardinality(Of(unfilled, j))' <= Cardinality(Of(unfilled, j)) + u,
           Cardinality(Of(Failing, j))' <= Cardinality(Of(Failing, j)) + f,
           Due(j)' <= Due(j) + d,
           faults' \in Nat, a + u + f + d <= faults' - faults, faults <= faults',
           \A k \in Keys \ {j} :
              /\ Cardinality(Of(acted, k))' <= Cardinality(Of(acted, k))
              /\ Cardinality(Of(unfilled, k))' <= Cardinality(Of(unfilled, k))
              /\ Cardinality(Of(Failing, k))' <= Cardinality(Of(Failing, k))
              /\ Due(k)' <= Due(k)
    PROVE  Owing'
<1>1. IsFiniteSet(Failing) /\ IsFiniteSet(Failing')
  <2>1. Failing \subseteq wire /\ Failing' \subseteq wire'
    BY DEF Failing
  <2> QED
    BY <2>1, FS_Subset DEF OwedInv, Finite
<1>2. /\ \A k : /\ Cardinality(Of(acted, k)) \in Nat /\ Cardinality(Of(unfilled, k)) \in Nat
                /\ Cardinality(Of(Failing, k)) \in Nat
      /\ \A k : /\ Cardinality(Of(acted', k)) \in Nat /\ Cardinality(Of(unfilled', k)) \in Nat
                /\ Cardinality(Of(Failing', k)) \in Nat
  BY <1>1, OfFinite DEF OwedInv, Finite
<1>3. /\ \A k : Of(acted, k)' = Of(acted', k)
      /\ \A k : Of(unfilled, k)' = Of(unfilled', k)
      /\ \A k : Of(Failing, k)' = Of(Failing', k)
  BY DEF Of
<1>4. \A k : Due(k) \in Nat /\ Due(k)' \in Nat
  BY DEF Due
<1>5. faults \in Nat
  BY DEF OwedInv, RowsInv, HandsInv, TypeOK
<1>6. ASSUME NEW k \in Keys
      PROVE  Cardinality(Of(acted', k)) + Cardinality(Of(unfilled', k))
                + Cardinality(Of(Failing', k)) + Due(k)' <= 1 + faults'
  <2>1. Cardinality(Of(acted, k)) + Cardinality(Of(unfilled, k))
           + Cardinality(Of(Failing, k)) + Due(k) <= 1 + faults
    BY DEF OwedInv, Owing
  <2>2. CASE k = j
    <3>1. /\ Cardinality(Of(acted', k)) <= Cardinality(Of(acted, k)) + a
          /\ Cardinality(Of(unfilled', k)) <= Cardinality(Of(unfilled, k)) + u
          /\ Cardinality(Of(Failing', k)) <= Cardinality(Of(Failing, k)) + f
          /\ Due(k)' <= Due(k) + d
      BY <1>3, <2>2
    <3> DEFINE p == Cardinality(Of(acted, k))
               q == Cardinality(Of(unfilled, k))
               r == Cardinality(Of(Failing, k))
               s == Due(k)
               pp == Cardinality(Of(acted', k))
               qq == Cardinality(Of(unfilled', k))
               rr == Cardinality(Of(Failing', k))
               ss == Due(k)'
    <3>2. /\ p \in Nat /\ q \in Nat /\ r \in Nat /\ s \in Nat
          /\ pp \in Nat /\ qq \in Nat /\ rr \in Nat /\ ss \in Nat
      BY <1>2, <1>4
    <3>3. /\ p + q + r + s <= 1 + faults
          /\ pp <= p + a /\ qq <= q + u /\ rr <= r + f /\ ss <= s + d
      BY <2>1, <3>1
    <3> HIDE DEF p, q, r, s, pp, qq, rr, ss
    <3>4. a + u + f + d <= faults' - faults /\ faults' \in Nat
      OBVIOUS
    <3> DEFINE n == faults
               nn == faults'
    <3>5. n \in Nat /\ nn \in Nat /\ a + u + f + d <= nn - n /\ p + q + r + s <= 1 + n
      BY <1>5, <3>3, <3>4
    <3> HIDE DEF n, nn
    <3>6. pp + qq + rr + ss <= 1 + nn
      BY <3>2, <3>3, <3>5
    <3> QED
      BY <3>6 DEF pp, qq, rr, ss, nn
  <2>3. CASE k # j
    <3>1. /\ Cardinality(Of(acted', k)) <= Cardinality(Of(acted, k))
          /\ Cardinality(Of(unfilled', k)) <= Cardinality(Of(unfilled, k))
          /\ Cardinality(Of(Failing', k)) <= Cardinality(Of(Failing, k))
          /\ Due(k)' <= Due(k)
      BY <1>3, <2>3
    <3> QED
      BY <1>2, <1>4, <1>5, <2>1, <3>1
  <2> QED
    BY <2>2, <2>3
<1> QED
  BY <1>3, <1>6 DEF Owing

\* A step that adds nothing to any of it.
LEMMA OwingSame ==
    ASSUME OwedInv, acted' \subseteq acted, unfilled' \subseteq unfilled, wire' \subseteq wire,
           \A k \in Keys : row[k].status = "done" => row'[k].status = "done",
           faults' \in Nat, faults <= faults'
    PROVE  Finite' /\ Owing'
<1>1. Finite'
  BY FS_Subset DEF OwedInv, Finite
<1>2. IsFiniteSet(Failing) /\ Failing' \subseteq Failing
  <2>1. Failing \subseteq wire /\ Failing' \subseteq Failing
    BY DEF Failing
  <2> QED
    BY <2>1, FS_Subset DEF OwedInv, Finite
<1>3. faults \in Nat
  BY DEF OwedInv, RowsInv, HandsInv, TypeOK
<1>4. \A k \in Keys :
         /\ Cardinality(Of(acted', k)) <= Cardinality(Of(acted, k))
         /\ Cardinality(Of(unfilled', k)) <= Cardinality(Of(unfilled, k))
         /\ Cardinality(Of(Failing', k)) <= Cardinality(Of(Failing, k))
         /\ Due(k)' <= Due(k)
  BY <1>2, OfFewer DEF OwedInv, Finite, Due
<1>5. /\ \A k : Of(acted, k)' = Of(acted', k)
      /\ \A k : Of(unfilled, k)' = Of(unfilled', k)
      /\ \A k : Of(Failing, k)' = Of(Failing', k)
  BY DEF Of
<1>6. ASSUME NEW j \in Keys PROVE Owing'
  <2>1. 0 \in Int /\ 0 + 0 + 0 + 0 <= faults' - faults
    <3>1. 0 + 0 + 0 + 0 = 0
      OBVIOUS
    <3>2. 0 <= faults' - faults
      BY <1>3, NotNegative
    <3> QED
      BY <3>1, <3>2
  <2>2. /\ Cardinality(Of(acted, j)) \in Nat /\ Cardinality(Of(unfilled, j)) \in Nat
        /\ Cardinality(Of(Failing, j)) \in Nat /\ Due(j) \in Nat
    BY <1>2, OfFinite DEF OwedInv, Finite, Due
  <2>3. /\ Cardinality(Of(acted, j))' <= Cardinality(Of(acted, j)) + 0
        /\ Cardinality(Of(unfilled, j))' <= Cardinality(Of(unfilled, j)) + 0
        /\ Cardinality(Of(Failing, j))' <= Cardinality(Of(Failing, j)) + 0
        /\ Due(j)' <= Due(j) + 0
    BY <1>4, <1>5, <2>2
  <2>4. \A k \in Keys \ {j} :
           /\ Cardinality(Of(acted, k))' <= Cardinality(Of(acted, k))
           /\ Cardinality(Of(unfilled, k))' <= Cardinality(Of(unfilled, k))
           /\ Cardinality(Of(Failing, k))' <= Cardinality(Of(Failing, k))
           /\ Due(k)' <= Due(k)
    BY <1>4, <1>5
  <2> QED
    BY <1>1, <2>1, <2>3, <2>4, OwingMoves
<1> QED
  BY <1>1, <1>6 DEF Owing

LEMMA OwedInit == Init => OwedInv
<1> SUFFICES ASSUME Init PROVE OwedInv
  OBVIOUS
<1>1. RowsInv
  BY HandsInit, RowsInit DEF RowsInv
<1>2. acted = {} /\ unfilled = {} /\ wire = {} /\ faults = 0
  BY DEF Init
<1>3. Finite
  BY <1>2, FS_EmptySet DEF Finite
<1>4. \A k : Of(acted, k) = {} /\ Of(unfilled, k) = {} /\ Of(Failing, k) = {}
  BY <1>2 DEF Of, Failing
<1>5. Cardinality({}) = 0
  BY FS_EmptySet
<1> QED
  BY <1>1, <1>2, <1>3, <1>4, <1>5 DEF OwedInv, Owing, Due

\* One element more in each of two sets, at most, and none of another key: what OwingMoves
\* asks of the sets.
LEMMA OneMore ==
    ASSUME NEW S, IsFiniteSet(S), NEW x, NEW T, T \subseteq S \union {x}
    PROVE  /\ IsFiniteSet(T)
           /\ Cardinality(Of(T, x.key)) <= Cardinality(Of(S, x.key)) + 1
           /\ \A k : k # x.key => Cardinality(Of(T, k)) <= Cardinality(Of(S, k))
<1>1. IsFiniteSet(S \union {x}) /\ IsFiniteSet(T)
  BY OfMore, FS_Subset
<1>2. \A k : Cardinality(Of(T, k)) <= Cardinality(Of(S \union {x}, k))
  BY <1>1, OfFewer
<1>3. \A k : /\ Cardinality(Of(T, k)) \in Nat /\ Cardinality(Of(S, k)) \in Nat
             /\ Cardinality(Of(S \union {x}, k)) \in Nat
  BY <1>1, OfFinite
<1>4. Cardinality(Of(S \union {x}, x.key)) <= Cardinality(Of(S, x.key)) + 1
  BY OfMore
<1>5. \A k : k # x.key => Of(S \union {x}, k) = Of(S, k)
  BY OfMore
<1>6. Cardinality(Of(T, x.key)) <= Cardinality(Of(S, x.key)) + 1
  <2> DEFINE a == Cardinality(Of(T, x.key))
             b == Cardinality(Of(S \union {x}, x.key))
             c == Cardinality(Of(S, x.key))
  <2>1. a \in Nat /\ b \in Nat /\ c \in Nat
    BY <1>3
  <2>2. a <= b /\ b <= c + 1
    BY <1>2, <1>4
  <2> HIDE DEF a, b, c
  <2>3. a <= c + 1
    BY <2>1, <2>2
  <2> QED
    BY <2>3 DEF a, c
<1>7. \A k : k # x.key => Cardinality(Of(T, k)) <= Cardinality(Of(S, k))
  BY <1>2, <1>5
<1> QED
  BY <1>1, <1>6, <1>7

LEMMA PrimesOf ==
    /\ \A k : Of(acted, k)' = Of(acted', k)
    /\ \A k : Of(unfilled, k)' = Of(unfilled', k)
    /\ \A k : Of(Failing, k)' = Of(Failing', k)
BY DEF Of

LEMMA FailingFinite == OwedInv => IsFiniteSet(Failing)
<1>1. Failing \subseteq wire
  BY DEF Failing
<1> QED
  BY <1>1, FS_Subset DEF OwedInv, Finite

\* The broker carries a command out: its row is done for it, or a request was lost.
LEMMA OwedActed ==
    ASSUME OwedInv, NEW x, x.key \in Keys, acted' \subseteq acted \union {x},
           unfilled' = unfilled, IsFiniteSet(wire'), Failing' \subseteq Failing,
           \A k \in Keys \ {x.key} : row'[k] = row[k], faults' \in Nat,
           \/ /\ row[x.key].status # "done" /\ row'[x.key].status = "done"
              /\ faults' = faults
           \/ row'[x.key] = row[x.key] /\ faults' = faults + 1
    PROVE  Finite' /\ Owing'
<1>0. faults \in Nat
  BY DEF OwedInv, RowsInv, HandsInv, TypeOK
<1>1. /\ IsFiniteSet(acted')
      /\ Cardinality(Of(acted', x.key)) <= Cardinality(Of(acted, x.key)) + 1
      /\ \A k : k # x.key => Cardinality(Of(acted', k)) <= Cardinality(Of(acted, k))
  BY OneMore DEF OwedInv, Finite
<1>2. \A k : /\ Cardinality(Of(Failing', k)) <= Cardinality(Of(Failing, k))
             /\ Cardinality(Of(Failing, k)) \in Nat /\ Cardinality(Of(Failing', k)) \in Nat
             /\ Cardinality(Of(unfilled, k)) \in Nat
  <2>1. IsFiniteSet(Failing')
    BY FailingFinite, FS_Subset
  <2> QED
    BY <2>1, FailingFinite, OfFewer, OfFinite DEF OwedInv, Finite
<1>3. Finite'
  BY <1>1 DEF OwedInv, Finite
<1>4. \A k \in Keys \ {x.key} :
         /\ Cardinality(Of(acted, k))' <= Cardinality(Of(acted, k))
         /\ Cardinality(Of(unfilled, k))' <= Cardinality(Of(unfilled, k))
         /\ Cardinality(Of(Failing, k))' <= Cardinality(Of(Failing, k))
         /\ Due(k)' <= Due(k)
  BY <1>1, <1>2, PrimesOf DEF Due
<1>5. /\ Cardinality(Of(acted, x.key))' <= Cardinality(Of(acted, x.key)) + 1
      /\ Cardinality(Of(unfilled, x.key))' <= Cardinality(Of(unfilled, x.key)) + 0
      /\ Cardinality(Of(Failing, x.key))' <= Cardinality(Of(Failing, x.key)) + 0
  BY <1>1, <1>2, PrimesOf
<1>6. CASE row[x.key].status # "done" /\ row'[x.key].status = "done" /\ faults' = faults
  <2>1. Due(x.key)' <= Due(x.key) + (-1)
    BY <1>6 DEF Due
  <2>2. 1 + 0 + 0 + (-1) <= faults' - faults /\ faults <= faults'
    BY <1>0, <1>6
  <2>3. 1 \in Int /\ 0 \in Int /\ (-1) \in Int
    OBVIOUS
  <2> QED
    BY <1>3, <1>4, <1>5, <2>1, <2>2, <2>3, OwingMoves
<1>7. CASE row'[x.key] = row[x.key] /\ faults' = faults + 1
  <2>1. Due(x.key)' <= Due(x.key) + 0
    BY <1>7 DEF Due
  <2>2. 1 + 0 + 0 + 0 <= faults' - faults /\ faults <= faults'
    BY <1>0, <1>7
  <2>3. 1 \in Int /\ 0 \in Int
    OBVIOUS
  <2> QED
    BY <1>3, <1>4, <1>5, <2>1, <2>2, <2>3, OwingMoves
<1> QED
  BY <1>6, <1>7

\* A request is left to the server that will record a failure.
LEMMA OwedLate ==
    ASSUME OwedInv, NEW x, x.key \in Keys, wire' = wire \union {x},
           acted' = acted, unfilled' = unfilled, row' = row, faults' = faults + 1
    PROVE  Finite' /\ Owing'
<1>0. faults \in Nat
  BY DEF OwedInv, RowsInv, HandsInv, TypeOK
<1>1. Failing' \subseteq Failing \union {x}
  BY DEF Failing
<1>2. /\ Cardinality(Of(Failing', x.key)) <= Cardinality(Of(Failing, x.key)) + 1
      /\ \A k : k # x.key => Cardinality(Of(Failing', k)) <= Cardinality(Of(Failing, k))
  BY <1>1, OneMore, FailingFinite
<1>3. Finite'
  BY OfMore DEF OwedInv, Finite
<1>4. \A k : /\ Cardinality(Of(acted, k)) \in Nat /\ Cardinality(Of(unfilled, k)) \in Nat
             /\ Due(k) \in Nat /\ Due(k)' = Due(k)
  BY OfFinite DEF OwedInv, Finite, Due
<1>5. \A k \in Keys \ {x.key} :
         /\ Cardinality(Of(acted, k))' <= Cardinality(Of(acted, k))
         /\ Cardinality(Of(unfilled, k))' <= Cardinality(Of(unfilled, k))
         /\ Cardinality(Of(Failing, k))' <= Cardinality(Of(Failing, k))
         /\ Due(k)' <= Due(k)
  BY <1>2, <1>4, PrimesOf
<1>6. /\ Cardinality(Of(acted, x.key))' <= Cardinality(Of(acted, x.key)) + 0
      /\ Cardinality(Of(unfilled, x.key))' <= Cardinality(Of(unfilled, x.key)) + 0
      /\ Cardinality(Of(Failing, x.key))' <= Cardinality(Of(Failing, x.key)) + 1
      /\ Due(x.key)' <= Due(x.key) + 0
  BY <1>2, <1>4, PrimesOf
<1>7. 0 + 0 + 1 + 0 <= faults' - faults /\ faults <= faults' /\ faults' \in Nat
  BY <1>0
<1>8. 1 \in Int /\ 0 \in Int
  OBVIOUS
<1> QED
  BY <1>3, <1>5, <1>6, <1>7, <1>8, OwingMoves

\* A failure is recorded that was still to be: the row is to be done again, and the failure
\* no longer to be recorded.
LEMMA OwedFails ==
    ASSUME OwedInv, NEW x, x.key \in Keys, acted' = acted, faults' = faults,
           \A k \in Keys \ {x.key} : row'[k] = row[k],
           \/ x \in unfilled /\ unfilled' = unfilled \ {x} /\ wire' = wire
           \/ x \in Failing /\ wire' = wire \ {x} /\ unfilled' = unfilled
    PROVE  Finite' /\ Owing'
<1>0. faults \in Nat
  BY DEF OwedInv, RowsInv, HandsInv, TypeOK
<1>1. Finite'
  BY FS_RemoveElement DEF OwedInv, Finite
<1>2. \A k : /\ Cardinality(Of(acted, k)) \in Nat /\ Cardinality(Of(unfilled, k)) \in Nat
             /\ Cardinality(Of(Failing, k)) \in Nat
  BY OfFinite, FailingFinite DEF OwedInv, Finite
<1>3. Due(x.key)' <= Due(x.key) + 1 /\ \A k \in Keys \ {x.key} : Due(k)' <= Due(k)
  BY DEF Due
<1>4. CASE x \in unfilled /\ unfilled' = unfilled \ {x} /\ wire' = wire
  <2>1. /\ Cardinality(Of(unfilled', x.key)) = Cardinality(Of(unfilled, x.key)) - 1
        /\ \A k : k # x.key => Of(unfilled', k) = Of(unfilled, k)
    BY <1>4, OfLess DEF OwedInv, Finite
  <2>2. Failing' = Failing
    BY <1>4 DEF Failing
  <2>3. \A k \in Keys \ {x.key} :
           /\ Cardinality(Of(acted, k))' <= Cardinality(Of(acted, k))
           /\ Cardinality(Of(unfilled, k))' <= Cardinality(Of(unfilled, k))
           /\ Cardinality(Of(Failing, k))' <= Cardinality(Of(Failing, k))
           /\ Due(k)' <= Due(k)
    BY <1>2, <1>3, <2>1, <2>2, PrimesOf
  <2>4. /\ Cardinality(Of(acted, x.key))' <= Cardinality(Of(acted, x.key)) + 0
        /\ Cardinality(Of(unfilled, x.key))' <= Cardinality(Of(unfilled, x.key)) + (-1)
        /\ Cardinality(Of(Failing, x.key))' <= Cardinality(Of(Failing, x.key)) + 0
    BY <1>2, <2>1, <2>2, PrimesOf
  <2>5. 0 + (-1) + 0 + 1 <= faults' - faults /\ faults <= faults' /\ faults' \in Nat
    BY <1>0
  <2>6. 1 \in Int /\ 0 \in Int /\ (-1) \in Int
    OBVIOUS
  <2> QED
    BY <1>1, <1>3, <2>3, <2>4, <2>5, <2>6, OwingMoves
<1>5. CASE x \in Failing /\ wire' = wire \ {x} /\ unfilled' = unfilled
  <2>1. Failing' = Failing \ {x}
    BY <1>5 DEF Failing
  <2>2. /\ Cardinality(Of(Failing', x.key)) = Cardinality(Of(Failing, x.key)) - 1
        /\ \A k : k # x.key => Of(Failing', k) = Of(Failing, k)
    BY <1>5, <2>1, OfLess, FailingFinite
  <2>3. \A k \in Keys \ {x.key} :
           /\ Cardinality(Of(acted, k))' <= Cardinality(Of(acted, k))
           /\ Cardinality(Of(unfilled, k))' <= Cardinality(Of(unfilled, k))
           /\ Cardinality(Of(Failing, k))' <= Cardinality(Of(Failing, k))
           /\ Due(k)' <= Due(k)
    BY <1>2, <1>3, <1>5, <2>2, PrimesOf
  <2>4. /\ Cardinality(Of(acted, x.key))' <= Cardinality(Of(acted, x.key)) + 0
        /\ Cardinality(Of(unfilled, x.key))' <= Cardinality(Of(unfilled, x.key)) + 0
        /\ Cardinality(Of(Failing, x.key))' <= Cardinality(Of(Failing, x.key)) + (-1)
    BY <1>2, <1>5, <2>2, PrimesOf
  <2>5. 0 + 0 + (-1) + 1 <= faults' - faults /\ faults <= faults' /\ faults' \in Nat
    BY <1>0
  <2>6. 1 \in Int /\ 0 \in Int /\ (-1) \in Int
    OBVIOUS
  <2> QED
    BY <1>1, <1>3, <2>3, <2>4, <2>5, <2>6, OwingMoves
<1> QED
  BY <1>4, <1>5

\* An order that stood is let go, and its failure is to be recorded.
LEMMA OwedRetire ==
    ASSUME OwedInv, NEW o \in resting, Retire(o)
    PROVE  Finite' /\ Owing'
<1> DEFINE stood == [key |-> o.key, attempt |-> o.attempt]
<1>0. /\ faults \in Nat /\ o.key \in Keys /\ stood \in acted
  BY KeysOf DEF OwedInv, RowsInv, HandsInv, Remembered, TypeOK
<1>1. /\ acted' = acted \ {stood} /\ unfilled' = unfilled \union {o}
      /\ row' = row /\ wire' = wire /\ faults' = faults
  BY DEF Retire
<1>2. stood.key = o.key
  OBVIOUS
<1> HIDE DEF stood
<1>3. /\ IsFiniteSet(acted')
      /\ Cardinality(Of(acted', o.key)) = Cardinality(Of(acted, o.key)) - 1
      /\ \A k : k # o.key => Of(acted', k) = Of(acted, k)
  BY <1>0, <1>1, <1>2, OfLess DEF OwedInv, Finite
<1>4. /\ IsFiniteSet(unfilled')
      /\ Cardinality(Of(unfilled', o.key)) <= Cardinality(Of(unfilled, o.key)) + 1
      /\ \A k : k # o.key => Cardinality(Of(unfilled', k)) <= Cardinality(Of(unfilled, k))
  BY <1>1, OneMore DEF OwedInv, Finite
<1>5. Finite'
  BY <1>1, <1>3, <1>4 DEF OwedInv, Finite
<1>6. Failing' = Failing /\ \A k : Due(k)' = Due(k) /\ Due(k) \in Nat
  BY <1>1 DEF Failing, Due
<1>7. \A k : /\ Cardinality(Of(acted, k)) \in Nat /\ Cardinality(Of(unfilled, k)) \in Nat
             /\ Cardinality(Of(Failing, k)) \in Nat
  BY OfFinite, FailingFinite DEF OwedInv, Finite
<1>8. \A k \in Keys \ {o.key} :
         /\ Cardinality(Of(acted, k))' <= Cardinality(Of(acted, k))
         /\ Cardinality(Of(unfilled, k))' <= Cardinality(Of(unfilled, k))
         /\ Cardinality(Of(Failing, k))' <= Cardinality(Of(Failing, k))
         /\ Due(k)' <= Due(k)
  BY <1>3, <1>4, <1>6, <1>7, PrimesOf
<1>9. /\ Cardinality(Of(acted, o.key))' <= Cardinality(Of(acted, o.key)) + (-1)
      /\ Cardinality(Of(unfilled, o.key))' <= Cardinality(Of(unfilled, o.key)) + 1
      /\ Cardinality(Of(Failing, o.key))' <= Cardinality(Of(Failing, o.key)) + 0
      /\ Due(o.key)' <= Due(o.key) + 0
  BY <1>3, <1>4, <1>6, <1>7, PrimesOf
<1>10. (-1) + 1 + 0 + 0 <= faults' - faults /\ faults <= faults' /\ faults' \in Nat
  BY <1>0, <1>1
<1>11. 1 \in Int /\ 0 \in Int /\ (-1) \in Int
  OBVIOUS
<1> QED
  BY <1>0, <1>5, <1>8, <1>9, <1>10, <1>11, OwingMoves

LEMMA OwedWork ==
    ASSUME OwedInv, NEW e \in Executors, Work(e)
    PROVE  Finite' /\ Owing'
<1>1. PICK claim \in hand[e], ok \in BOOLEAN :
         Report(e, claim, ok) \/ ReportLost(e, claim, ok) \/ ReportLate(e, claim, ok)
  BY DEF Work
<1>2. RowsInv /\ TypeOK
  BY DEF OwedInv, RowsInv, HandsInv
<1>3. claim.key \in Keys /\ row[claim.key].status # "done" /\ faults \in Nat
  BY <1>2, Alone, KeysOf
<1>4. /\ unfilled' = unfilled
      /\ acted' \subseteq acted \union {claim}
      /\ ~ok => acted' = acted
  BY <1>1 DEF Report, ReportLost, ReportLate, Broker
<1>5. CASE Report(e, claim, ok)
  <2>1. /\ \A k \in Keys : row'[k] = IF k = claim.key THEN Complete(row[k], ok) ELSE row[k]
        /\ wire' = wire /\ faults' = faults
    BY <1>2, <1>5, KeysOf DEF Report
  <2>2. Complete(row[claim.key], ok).status = IF ok THEN "done" ELSE "failed"
    BY <1>2, <1>3, KeysOf DEF Complete, Row
  <2>3. Failing' = Failing /\ IsFiniteSet(wire')
    BY <2>1 DEF Failing, OwedInv, Finite
  <2>4. CASE ok
    BY <1>3, <1>4, <2>1, <2>2, <2>3, <2>4, OwedActed
  <2>5. CASE ~ok
    <3>1. \A k \in Keys : row[k].status = "done" => row'[k].status = "done"
      BY <1>3, <2>1
    <3> QED
      BY <1>3, <1>4, <2>1, <2>5, <3>1, OwingSame
  <2> QED
    BY <2>4, <2>5
<1>6. CASE ReportLost(e, claim, ok)
  <2>1. row' = row /\ wire' = wire /\ faults' = faults + 1
    BY <1>6 DEF ReportLost
  <2>2. Failing' = Failing /\ IsFiniteSet(wire')
    BY <2>1 DEF Failing, OwedInv, Finite
  <2>3. faults' \in Nat
    BY <1>3, <2>1
  <2> QED
    BY <1>3, <1>4, <2>1, <2>2, <2>3, OwedActed
<1>7. CASE ReportLate(e, claim, ok)
  <2>1. /\ row' = row /\ wire' = wire \union {Result(claim, ok)} /\ faults' = faults + 1
        /\ Result(claim, ok).key = claim.key /\ Result(claim, ok).ok = ok
    BY <1>7 DEF ReportLate, Result
  <2>2. faults' \in Nat /\ IsFiniteSet(wire')
    BY <1>3, <2>1, FS_AddElement DEF OwedInv, Finite
  <2>3. CASE ok
    <3>1. Failing' = Failing
      BY <2>1, <2>3 DEF Failing
    <3> QED
      BY <1>3, <1>4, <2>1, <2>2, <3>1, OwedActed
  <2>4. CASE ~ok
    <3> DEFINE x == Result(claim, ok)
    <3>1. x.key \in Keys /\ wire' = wire \union {x}
      BY <1>3, <2>1
    <3> HIDE DEF x
    <3> QED
      BY <1>4, <2>1, <2>4, <3>1, OwedLate
  <2> QED
    BY <2>3, <2>4
<1> QED
  BY <1>1, <1>5, <1>6, <1>7

LEMMA OwedOutcome ==
    ASSUME OwedInv, NEW o \in resting \union unfilled, Outcome(o)
    PROVE  Finite' /\ Owing'
<1>1. RowsInv /\ TypeOK
  BY DEF OwedInv, RowsInv, HandsInv
<1>2. o.key \in Keys /\ faults \in Nat
  BY <1>1, KeysOf
<1>3. CASE Filled(o) \/ FlushRefused(o)
  <2>1. /\ row' = row /\ acted' = acted /\ wire' = wire /\ unfilled' \subseteq unfilled
        /\ faults' \in Nat /\ faults <= faults'
    BY <1>2, <1>3 DEF Filled, FlushRefused
  <2> QED
    BY <2>1, OwingSame
<1>4. CASE Retire(o)
  BY <1>4, OwedRetire DEF Retire
<1>5. CASE Flush(o)
  <2>1. /\ o \in unfilled /\ unfilled' = unfilled \ {o} /\ wire' = wire
        /\ acted' = acted /\ faults' = faults
        /\ \A k \in Keys \ {o.key} : row'[k] = row[k]
    BY <1>1, <1>5, KeysOf DEF Flush
  <2> QED
    BY <1>2, <2>1, OwedFails
<1>6. CASE FlushLate(o)
  <2> DEFINE x == Result(o, FALSE)
  <2>1. /\ x.key \in Keys /\ wire' = wire \union {x} /\ acted' = acted
        /\ unfilled' = unfilled /\ row' = row /\ faults' = faults + 1
    BY <1>2, <1>6 DEF FlushLate, Result
  <2> HIDE DEF x
  <2> QED
    BY <2>1, OwedLate
<1> QED
  BY <1>3, <1>4, <1>5, <1>6 DEF Outcome

LEMMA OwedLateResult ==
    ASSUME OwedInv, NEW m \in wire, LateResult(m)
    PROVE  Finite' /\ Owing'
<1>1. RowsInv /\ TypeOK
  BY DEF OwedInv, RowsInv, HandsInv
<1>2. m.key \in Keys /\ faults \in Nat /\ m.ok \in BOOLEAN
  BY <1>1, KeysOf
<1>3. /\ \A k \in Keys : row'[k] = IF k = m.key THEN Complete(row[k], m.ok) ELSE row[k]
      /\ wire' = wire \ {m} /\ unfilled' = unfilled /\ acted' = acted /\ faults' = faults
  BY <1>1, KeysOf DEF LateResult
<1>4. CASE m.ok
  <2>1. Complete(row[m.key], m.ok).status = "done"
    BY <1>1, <1>2, <1>4, KeysOf DEF Complete, Row
  <2>2. \A k \in Keys : row[k].status = "done" => row'[k].status = "done"
    BY <1>3, <2>1
  <2> QED
    BY <1>2, <1>3, <2>2, OwingSame
<1>5. CASE ~m.ok
  <2>1. m \in Failing
    BY <1>5 DEF Failing
  <2> QED
    BY <1>2, <1>3, <2>1, OwedFails
<1> QED
  BY <1>4, <1>5

LEMMA OwedStep ==
    ASSUME OneAtATime, OwedInv, [Next]_vars
    PROVE  OwedInv'
<1>1. RowsInv' /\ RowsInv
  BY RowsStep DEF OwedInv
<1>2. SUFFICES Finite' /\ Owing'
  BY <1>1 DEF OwedInv
<1>3. faults \in Nat
  BY <1>1, KeysOf DEF RowsInv, HandsInv
<1>4. CASE \E c \in Callers, k \in Keys : Enqueue(c, k)
  <2>1. UNCHANGED <<wire, unfilled, acted, faults>>
    BY <1>4 DEF Enqueue, Look, Read, Create, Rearm
  <2>2. \A k \in Keys : row[k].status = "done" => row'[k].status = "done"
    BY <1>1, <1>4, CallStep DEF Retryable
  <2> QED
    BY <1>3, <2>1, <2>2, OwingSame
<1>5. CASE \E e \in Executors : Poll(e) \/ PollLost(e)
  <2>1. /\ UNCHANGED <<wire, unfilled, acted>> /\ faults' \in Nat /\ faults <= faults'
    BY <1>3, <1>5 DEF Poll, PollLost
  <2>2. \A k \in Keys : row[k].status = "done" => row'[k].status = "done"
    BY <1>1, <1>5, PollStep
  <2> QED
    BY <2>1, <2>2, OwingSame
<1>6. CASE \E e \in Executors : Work(e)
  BY <1>6, OwedWork
<1>7. CASE \E e \in Executors : Crash(e)
  <2>1. /\ UNCHANGED <<row, wire, acted>> /\ unfilled' \subseteq unfilled
        /\ faults' \in Nat /\ faults <= faults'
    BY <1>3, <1>7 DEF Crash
  <2> QED
    BY <2>1, OwingSame
<1>8. CASE \E m \in wire : LateResult(m)
  BY <1>8, OwedLateResult
<1>9. CASE \E o \in resting \union unfilled : Outcome(o)
  BY <1>9, OwedOutcome
<1>10. CASE Sweep \/ Tick
  <2>1. UNCHANGED <<wire, unfilled, acted, faults>>
    BY <1>10 DEF Sweep, Tick
  <2>2. \A k \in Keys : row[k].status = "done" => row'[k].status = "done"
    BY <1>1, <1>10, SweepStep, TickStep
  <2> QED
    BY <1>3, <2>1, <2>2, OwingSame
<1>11. CASE UNCHANGED vars
  BY <1>3, <1>11, OwingSame DEF vars
<1> QED
  BY <1>4, <1>5, <1>6, <1>7, <1>8, <1>9, <1>10, <1>11 DEF Next

\* With one caller and a punctual terminal a command stands at the broker once, and once
\* more for each request lost, late or refused and each crash, for any keys, lifetimes and
\* terminals, through resting orders that are let go and asked for again.
THEOREM QueueNeverRepeats ==
    ASSUME OneAtATime
    PROVE  Spec => []NeverRepeated
<1>1. OwedInv => NeverRepeated
  <2> SUFFICES ASSUME OwedInv, NEW k \in Keys PROVE Cardinality(Standing(k)) <= 1 + faults
    BY DEF NeverRepeated
  <2>1. Standing(k) = Of(acted, k)
    BY DEF Standing, Of
  <2>2. /\ Cardinality(Of(acted, k)) \in Nat /\ Cardinality(Of(unfilled, k)) \in Nat
        /\ Cardinality(Of(Failing, k)) \in Nat
    BY OfFinite, FailingFinite DEF OwedInv, Finite
  <2>3. Due(k) \in Nat /\ faults \in Nat
    BY DEF Due, OwedInv, RowsInv, HandsInv, TypeOK
  <2>4. Cardinality(Of(acted, k)) + Cardinality(Of(unfilled, k))
           + Cardinality(Of(Failing, k)) + Due(k) <= 1 + faults
    BY DEF OwedInv, Owing
  <2> QED
    BY <2>1, <2>2, <2>3, <2>4
<1>2. OwedInv /\ [Next]_vars => OwedInv'
  BY OwedStep
<1> QED
  BY <1>1, <1>2, OwedInit, PTL DEF Spec

-----------------------------------------------------------------------------
(* The queue implements CommandMandate *)

Owed   == [k \in Keys |-> row[k].status = "pending"]
Handed == [k \in Keys |-> row[k].attempts]

\* A step that puts one row to pending, its count kept, is a request.
LEMMA AskStep ==
    ASSUME TypeOK, NEW j \in Keys, NEW r \in Row,
           r.status = "pending", r.attempts = row[j].attempts,
           row' = [row EXCEPT ![j] = r]
    PROVE  Mandate!Ask(j)
<1>1. row \in [Keys -> Row]
  BY DEF TypeOK
<1>2. Owed' = [Owed EXCEPT ![j] = TRUE]
  <2>1. \A k \in Keys : Owed'[k] = [Owed EXCEPT ![j] = TRUE][k]
    BY <1>1 DEF Owed
  <2> QED
    BY <2>1 DEF Owed
<1>3. Handed' = Handed
  BY <1>1 DEF Handed
<1> QED
  BY <1>2, <1>3 DEF Mandate!Ask, Owed, Handed

\* A step that ends some rows without handing anything out withdraws what they were owed.
LEMMA WithdrawStep ==
    ASSUME NEW batch \in SUBSET Keys,
           \A k \in Keys : row'[k].attempts = row[k].attempts,
           \A k \in Keys : (row'[k].status = "pending") <=>
                              row[k].status = "pending" /\ k \notin batch
    PROVE  Mandate!Next
<1>1. Owed' = [k \in Keys |-> Owed[k] /\ k \notin batch]
  <2>1. \A k \in Keys : (row'[k].status = "pending") = (row[k].status = "pending" /\ k \notin batch)
    OBVIOUS
  <2> QED
    BY <2>1 DEF Owed
<1>2. Handed' = Handed
  BY DEF Handed
<1>3. \E ended \in SUBSET Keys : Mandate!Withdraw(ended)
  BY <1>1, <1>2 DEF Mandate!Withdraw, Owed, Handed
<1> QED
  BY <1>3 DEF Mandate!Next

\* A claim, answered or lost, is a hand-over of its batch.
LEMMA HandOverStep ==
    ASSUME TypeOK, NEW e \in Executors, row' = Claimed(e)
    PROVE  Mandate!Next
<1>1. row \in [Keys -> Row]
  BY DEF TypeOK
<1>2. \A k \in Batch(e) : k \in Keys /\ row[k].status = "pending"
  BY DEF Batch, Claimable
<1>3. \A k \in Keys :
         /\ (row'[k].status = "pending") = (row[k].status = "pending" /\ k \notin Batch(e))
         /\ row'[k].attempts = IF k \in Batch(e) THEN row[k].attempts + 1 ELSE row[k].attempts
  BY <1>1, <1>2 DEF Claimed, Row
<1>4. Owed' = [k \in Keys |-> Owed[k] /\ k \notin Batch(e)]
  BY <1>3 DEF Owed
<1>5. Handed' = [k \in Keys |-> IF k \in Batch(e) THEN Handed[k] + 1 ELSE Handed[k]]
  BY <1>3 DEF Handed
<1>6. \E batch \in SUBSET Keys : Mandate!HandOver(batch)
  BY <1>2, <1>4, <1>5 DEF Mandate!HandOver, Owed, Handed
<1> QED
  BY <1>6 DEF Mandate!Next

LEMMA MandateStep ==
    ASSUME TypeOK, [Next]_vars
    PROVE  [Mandate!Next]_(Mandate!mandate)
<1>1. /\ row \in [Keys -> Row] /\ \A k \in Keys : row[k] \in Row
      /\ \A e \in Executors : hand[e] \subseteq Claim
      /\ \A m \in wire : m.key \in Keys
  BY DEF TypeOK
<1>2. CASE UNCHANGED row
  BY <1>2 DEF Mandate!mandate
<1>3. ASSUME NEW c \in Callers, NEW j \in Keys, Create(c, j) PROVE [Mandate!Next]_(Mandate!mandate)
  <2> DEFINE r == [Pending(row[j], j) EXCEPT !.id = Cardinality(Created) + 1]
  <2>1. /\ r \in Row
        /\ r.status = "pending" /\ r.attempts = row[j].attempts
    BY <1>1, NewId, RowChanges DEF Pending, Row
  <2>2. CASE row[j].status = "absent"
    <3>1. row' = [row EXCEPT ![j] = r]
      BY <1>3, <2>2 DEF Create
    <3> HIDE DEF r
    <3> QED
      BY <2>1, <3>1, AskStep DEF Mandate!Next
  <2>3. CASE row[j].status # "absent"
    BY <1>2, <1>3, <2>3 DEF Create
  <2> QED
    BY <2>2, <2>3
<1>4. ASSUME NEW c \in Callers, NEW j \in Keys, Rearm(c, j) PROVE [Mandate!Next]_(Mandate!mandate)
  <2>1. Pending(row[j], j) \in Row
    BY <1>1, RowChanges, NewId
  <2>2. Pending(row[j], j).status = "pending" /\ Pending(row[j], j).attempts = row[j].attempts
    BY <1>1 DEF Pending, Row
  <2>3. Mandate!Ask(j)
    BY <1>4, <2>1, <2>2, AskStep DEF Rearm
  <2> QED
    BY <2>3 DEF Mandate!Next
<1>5. ASSUME NEW e \in Executors, Poll(e) \/ PollLost(e) PROVE [Mandate!Next]_(Mandate!mandate)
  BY <1>5, HandOverStep DEF Poll, PollLost
<1>6. ASSUME NEW j \in Keys, NEW ok \in BOOLEAN, row' = [row EXCEPT ![j] = Complete(@, ok)]
      PROVE  [Mandate!Next]_(Mandate!mandate)
  <2>1. \A k \in Keys : row'[k] = IF k = j THEN Complete(row[k], ok) ELSE row[k]
    BY <1>1, <1>6
  <2>2. /\ Complete(row[j], ok).attempts = row[j].attempts
        /\ Complete(row[j], ok).status # "pending"
    BY <1>1 DEF Complete, Row
  <2> DEFINE batch == {j}
  <2>3. /\ batch \in SUBSET Keys
        /\ \A k \in Keys : row'[k].attempts = row[k].attempts
        /\ \A k \in Keys : (row'[k].status = "pending") <=>
                              row[k].status = "pending" /\ k \notin batch
    BY <2>1, <2>2
  <2> HIDE DEF batch
  <2> QED
    BY <2>3, WithdrawStep
<1>7. ASSUME Sweep PROVE [Mandate!Next]_(Mandate!mandate)
  <2> DEFINE batch == {k \in Keys : Lapsed(k) \/ Abandoned(k)}
  <2>1. \A k \in Keys :
           row'[k] = IF k \in batch
                     THEN [row[k] EXCEPT !.status = "expired", !.ttl = 0, !.age = 0]
                     ELSE row[k]
    BY <1>7 DEF Sweep
  <2>0. batch \in SUBSET Keys
    OBVIOUS
  <2> HIDE DEF batch
  <2>2. \A k \in Keys : /\ row'[k].attempts = row[k].attempts
                        /\ (row'[k].status = "pending") <=>
                              row[k].status = "pending" /\ k \notin batch
    BY <1>1, <2>1 DEF Row
  <2> QED
    BY <2>0, <2>2, WithdrawStep
<1>8. ASSUME Tick PROVE [Mandate!Next]_(Mandate!mandate)
  <2>1. \A k \in Keys : /\ row'[k].attempts = row[k].attempts
                        /\ row'[k].status = row[k].status
    BY <1>1, <1>8 DEF Tick, Later, Row
  <2>2. {} \in SUBSET Keys
    OBVIOUS
  <2> QED
    BY <2>1, <2>2, WithdrawStep
<1>9. ASSUME NEW e \in Executors, Work(e) PROVE [Mandate!Next]_(Mandate!mandate)
  <2>1. \A claim \in hand[e] : claim.key \in Keys
    BY <1>1 DEF Claim
  <2> QED
    BY <1>2, <1>6, <1>9, <2>1 DEF Work, Report, ReportLost, ReportLate
<1>10. ASSUME NEW m \in wire, LateResult(m) PROVE [Mandate!Next]_(Mandate!mandate)
  <2>1. m.key \in Keys /\ m.ok \in BOOLEAN
    BY DEF TypeOK
  <2> QED
    BY <1>6, <1>10, <2>1 DEF LateResult
<1>11. ASSUME NEW o \in resting \union unfilled, Outcome(o)
       PROVE  [Mandate!Next]_(Mandate!mandate)
  <2>1. o.key \in Keys
    BY DEF TypeOK, Order
  <2> QED
    BY <1>2, <1>6, <1>11, <2>1
    DEF Outcome, Filled, Retire, Flush, FlushLate, FlushRefused
<1>12. ASSUME NEW c \in Callers, NEW j \in Keys, Enqueue(c, j)
       PROVE  [Mandate!Next]_(Mandate!mandate)
  BY <1>2, <1>3, <1>4, <1>12 DEF Enqueue, Look, Read
<1>13. ASSUME NEW e \in Executors, Crash(e) PROVE [Mandate!Next]_(Mandate!mandate)
  BY <1>2, <1>13 DEF Crash
<1> QED
  BY <1>2, <1>5, <1>7, <1>8, <1>9, <1>10, <1>11, <1>12, <1>13 DEF Next, vars

\* Whatever is lost, late or concurrent, an instruction goes out to a terminal only against
\* a request made since it last went out.
THEOREM QueueImplementsMandate == Spec => HandsOverWhatWasAsked
<1>1. Init => Mandate!Init
  <2> SUFFICES ASSUME Init PROVE Mandate!Init
    OBVIOUS
  <2>1. \A k \in Keys : (row[k].status = "pending") = FALSE /\ row[k].attempts = 0
    BY DEF Init, Absent
  <2> QED
    BY <2>1 DEF Mandate!Init
<1>2. TypeOK /\ [Next]_vars => [Mandate!Next]_(Mandate!mandate)
  BY MandateStep
<1> QED
  BY <1>1, <1>2, QueueType, PTL DEF Spec, HandsOverWhatWasAsked, Mandate!Spec
=============================================================================
