------------------------------ MODULE CopierProofs ------------------------------
(***************************************************************************)
(* TypeOK, OneOrder and CapHolds of Copier for any signals, workers, edits *)
(* and instances of the fund.                                              *)
(*                                                                         *)
(* TypeOK: whatever is asked for, copied or at the broker belongs to a     *)
(* signal that was captured, and nothing is ever sized above the cap.      *)
(*                                                                         *)
(* OneOrder follows a signal's command: only a command that is neither     *)
(* live nor done is asked for again, and as long as every answer gets      *)
(* through and the terminal is punctual such a command has nothing at the  *)
(* broker and is not in the terminal's hands.                              *)
(*                                                                         *)
(* CapHolds follows the money.  An order exposes its stake until its       *)
(* result is booked, and then its result.  What is exposed and what is     *)
(* still to be placed are within the cap, a stake asked for is a share of  *)
(* what the exposures leave, and one in hand is a share of what is         *)
(* unspent: so the charge the fund makes for an entry in flight covers the *)
(* entry's own stake, and the next order is sized from what is really      *)
(* left.  What an executor has sized stays free until it asks for it: no step *)
(* but a request commits more, and until two sized from one reading there  *)
(* is one request to come.                                                 *)
(***************************************************************************)
EXTENDS Copier, SumLemmas

(* Types *)

\* A signal's row is there.
Known(s) == signal[s] \in Signal

TypeInv ==
    /\ TypeOK
    /\ \A w \in Workers : \A c \in copies[w] : Known(c.of)
    /\ \A s \in Signals : command[s].status # "absent" => Known(s)
    /\ \A s \in taken : Known(s)
    /\ \A t \in Tickets : order[t].stage # "none" => Known(t[1])
    /\ \A t \in Tickets : order[t].pnl <= 0

-----------------------------------------------------------------------------
\* Products of natural numbers are natural and grow with their factors.
LEMMA ProductGrows ==
    ASSUME NEW a \in Nat, NEW b \in Nat, NEW c \in Nat, NEW d \in Nat, a <= c, b <= d
    PROVE  a * b \in Nat /\ a * b <= c * d
  <1>1. a * b \in Nat /\ c * b \in Nat /\ c * d \in Nat
    OBVIOUS
  <1>2. a * b <= c * b
    OBVIOUS
  <1>3. c * b <= c * d
    OBVIOUS
  <1> QED
    BY <1>1, <1>2, <1>3

\* The share of one position is a percentage: the stakes together are within the fund.
LEMMA PercentBounded == Percent \in 0..100
  <1>1. 1 * Percent <= MaxConcurrent * Percent
    BY FundAssumption
  <1> QED
    BY <1>1, FundAssumption

\* So is a channel's own.
LEMMA OverrideBounded ==
    ASSUME NEW s \in Signals
    PROVE  Override[s] \in 0..100
  <1> DEFINE q == 100 \div MaxConcurrent
  <1>1. q \in Int /\ q <= 100
    BY FundAssumption
  <1>2. Override[s] \in 0..q
    BY CopierAssumption
  <1> HIDE DEF q
  <1> QED
    BY <1>1, <1>2

\* A share of what is left is a stake.
LEMMA RiskBounded ==
    ASSUME NEW left \in Nat, left <= 100 * Cap, NEW percent \in 0..100
    PROVE  Risk(left, percent) \in 0..Cap /\ 10000 * Risk(left, percent) <= left * percent
  <1>1. left * percent \in Nat /\ left * percent <= (100 * Cap) * 100
    BY ProductGrows, FundAssumption
  <1> DEFINE share == left * percent
  <1>2. share \in Nat /\ share <= 10000 * Cap
    BY <1>1, FundAssumption
  <1> HIDE DEF share
  <1>3. share \div 10000 \in 0..Cap /\ 10000 * (share \div 10000) <= share
    BY <1>2, FundAssumption
  <1> QED
    BY <1>3 DEF Risk, share

\* What is left is never more than the cap, and never negative.
LEMMA RemainingBounded ==
    ASSUME NEW realised \in Int, realised <= 0, NEW booked \in Nat, NEW inFlight \in Nat
    PROVE  /\ Unspent(realised) \in 0..Cap
           /\ Remaining(realised, booked, inFlight) \in Nat
           /\ Remaining(realised, booked, inFlight) <= 100 * Cap
  <1>1. Unspent(realised) \in 0..Cap
    BY FundAssumption DEF Unspent, NotBelowZero
  <1> DEFINE charge == inFlight * Unspent(realised) * Percent
             u == Unspent(realised)
  <1>2. charge \in Nat
    <2>1. inFlight * u \in Nat
      BY <1>1
    <2> QED
      BY <2>1, FundAssumption
  <1> HIDE DEF charge, u
  <1>3. NotBelowZero(100 * (u - booked) - charge) \in 0..(100 * Cap)
    BY <1>1, <1>2, FundAssumption DEF NotBelowZero, u
  <1> QED
    BY <1>1, <1>3, FundAssumption DEF Remaining, charge, u

-----------------------------------------------------------------------------
\* There are finitely many signals and tickets.
LEMMA Finite ==
    /\ IsFiniteSet(Tickets) /\ IsFiniteSet(Signals)
    /\ \A S \in SUBSET Tickets : IsFiniteSet(S)
    /\ \A S \in SUBSET Signals : IsFiniteSet(S) /\ Cardinality(S) \in Nat
  <1>1. IsFiniteSet(1..MaxOrders)
    BY FS_Interval, CopierAssumption
  <1>2. IsFiniteSet(Tickets)
    BY <1>1, FS_Product, CopierAssumption DEF Tickets
  <1> QED
    BY <1>2, CopierAssumption, FS_Subset, FS_CardinalityType

\* What the fund's tables add up to.
LEMMA FundTyped ==
    ASSUME TypeInv
    PROVE  /\ Realised \in Int /\ Realised <= 0
           /\ Sum(Stakes, Booked) \in Nat
           /\ Cardinality(InFlight) \in Nat
           /\ Left \in Nat /\ Left <= 100 * Cap
           /\ \A s \in Signals : Stake(s) \in 0..Cap
  <1> DEFINE stopped == {t \in Tickets : order[t].row = "stopped_out"}
  <1>1. /\ \A t \in stopped : Pnls[t] \in Int /\ Pnls[t] <= 0
        /\ \A t \in Booked : Stakes[t] \in Nat
    BY DEF TypeInv, TypeOK, Order, Pnls, Stakes, Booked
  <1>2. IsFiniteSet(stopped) /\ IsFiniteSet(Booked)
    BY Finite DEF Booked
  <1>3. Realised \in Int /\ Realised <= 0
    <2>1. SumOver(Pnls, stopped) \in Int
      BY <1>1, <1>2, SumOverInt
    <2>2. \A t \in stopped : Pnls[t] \in Int /\ 1 * Pnls[t] <= 0
      BY <1>1
    <2> HIDE DEF stopped
    <2>3. 1 * SumOver(Pnls, stopped) <= Cardinality(stopped) * 0
      BY <1>2, <2>2, SumOverBounded
    <2>4. Cardinality(stopped) \in Nat
      BY <1>2, FS_CardinalityType
    <2> QED
      BY <2>1, <2>3, <2>4 DEF Realised, Sum, SumOver, stopped
  <1>4. Sum(Stakes, Booked) \in Nat
    BY <1>1, <1>2, SumOverNat DEF Sum, SumOver
  <1>5. Cardinality(InFlight) \in Nat
    BY Finite DEF InFlight
  <1>6. Left \in Nat /\ Left <= 100 * Cap
    BY <1>3, <1>4, <1>5, RemainingBounded DEF Left
  <1>7. ASSUME NEW s \in Signals PROVE Stake(s) \in 0..Cap
    <2> DEFINE percent == IF Override[s] > 0 THEN Override[s] ELSE Percent
    <2>1. percent \in 0..100
      BY PercentBounded, OverrideBounded
    <2> HIDE DEF percent
    <2>2. Risk(Left, percent) \in 0..Cap
      BY <1>6, <2>1, RiskBounded
    <2> QED
      BY <2>2 DEF Stake, percent
  <1> QED
    BY <1>3, <1>4, <1>5, <1>6, <1>7

\* A set of natural numbers has a least.
LEMMA LeastOf ==
    ASSUME NEW S, S \subseteq Nat, S # {}
    PROVE  \E x \in S : \A y \in S : x <= y
  <1> DEFINE below == {p \in Nat \X Nat : p[1] < p[2]}
             all == Nat
  <1>1. IsWellFoundedOn(below, all) /\ S \subseteq all
    BY NatLessThanWellFounded DEF OpToRel
  <1> HIDE DEF below, all
  <1>2. \E x \in S : \A y \in S : ~(<<y, x>> \in below)
    BY <1>1, WFMin
  <1>3. PICK x \in S : \A y \in S : ~(<<y, x>> \in below)
    BY <1>2
  <1>4. ASSUME NEW y \in S PROVE x <= y
    <2>1. <<y, x>> \in Nat \X Nat /\ <<y, x>>[1] = y /\ <<y, x>>[2] = x
      OBVIOUS
    <2>2. ~(y < x)
      BY <1>3, <2>1 DEF below
    <2> QED
      BY <2>2
  <1> QED
    BY <1>4

\* A worker that has rows has a first one.
LEMMA FirstOfThem ==
    ASSUME TypeInv, NEW w \in Workers, ~Idle(w)
    PROVE  First(w) \in copies[w] /\ First(w) \in Copy /\ Known(First(w).of)
  <1>1. copies[w] \subseteq Copy /\ copies[w] # {} /\ \A c \in copies[w] : Known(c.of)
    BY DEF TypeInv, TypeOK, Idle
  <1> DEFINE ids == {c.of : c \in copies[w]}
  <1>2. Signals \subseteq Nat
    <2> DEFINE n == Cardinality(Signals)
    <2>1. n \in Nat /\ Signals = 1..n
      BY CopierAssumption, FS_CardinalityType
    <2> HIDE DEF n
    <2> QED
      BY <2>1
  <1>3. ids \subseteq Nat /\ ids # {}
    BY <1>1, <1>2 DEF Copy
  <1> HIDE DEF ids
  <1>4. PICK i \in ids : \A j \in ids : i <= j
    BY <1>3, LeastOf
  <1>5. PICK c \in copies[w] : c.of = i
    BY DEF ids
  <1>6. \A d \in copies[w] : c.of <= d.of
    BY <1>4, <1>5 DEF ids
  <1> QED
    BY <1>1, <1>5, <1>6 DEF First

-----------------------------------------------------------------------------
\* Nothing is captured at first.
LEMMA TypeInit == Init => TypeInv
  <1> SUFFICES ASSUME Init PROVE TypeInv
    OBVIOUS
  <1>1. NoCommand \in Command /\ NoOrder \in Order
    BY FundAssumption DEF NoCommand, Command, Commands, NoOrder, Order, Stages
  <1>2. 0 \in 0..Cap
    BY FundAssumption
  <1>3. TypeOK
    BY <1>1, <1>2 DEF Init, TypeOK
  <1> QED
    BY <1>3 DEF Init, TypeInv, NoCommand, NoOrder

\* A row is written: nobody's row is lost.
LEMMA SignalSet ==
    ASSUME TypeInv, NEW s \in Signals, NEW row \in Signal, signal' = [signal EXCEPT ![s] = row]
    PROVE  /\ signal' \in [Signals -> Signal \union {Absent}]
           /\ Known(s)'
           /\ \A r \in Signals : Known(r) => Known(r)'
  <1>1. signal \in [Signals -> Signal \union {Absent}]
    BY DEF TypeInv, TypeOK
  <1>2. signal'[s] = row /\ \A r \in Signals : r # s => signal'[r] = signal[r]
    BY <1>1
  <1> QED
    BY <1>1, <1>2 DEF Known

\* A row of the queue is written.
LEMMA CommandSet ==
    ASSUME TypeInv, NEW s \in Signals, NEW row \in Command, command' = [command EXCEPT ![s] = row]
    PROVE  /\ command' \in [Signals -> Command]
           /\ command'[s] = row /\ \A r \in Signals : r # s => command'[r] = command[r]
  BY DEF TypeInv, TypeOK

\* Its status is.
LEMMA StatusTyped ==
    ASSUME TypeInv, NEW s \in Signals, NEW x \in Commands, Status(s, x)
    PROVE  /\ command' \in [Signals -> Command]
           /\ \A r \in Signals : r # s => command'[r] = command[r]
  <1>1. command[s] \in Command
    BY DEF TypeInv, TypeOK
  <1>2. [command[s] EXCEPT !.status = x] \in Command
    BY <1>1 DEF Command
  <1> QED
    BY <1>2, CommandSet DEF Status

\* What a pass or a button reads has been captured, and can be read.
LEMMA CopyTyped ==
    ASSUME TypeInv, NEW s \in Signals, Readable(s)
    PROVE  Known(s) /\ signal[s].levels \in Levels /\ CopyOf(s) \in Copy /\ CopyOf(s).of = s
  <1>1. signal[s] \in Signal /\ signal[s].levels \in Levels
    BY DEF TypeInv, TypeOK, Readable, Absent, Signal
  <1> QED
    BY <1>1 DEF Known, CopyOf, Copy, Signal

\* A pass that reads rows holds copies of captured signals.
LEMMA ReadsTyped ==
    ASSUME TypeInv, NEW w, NEW S \in SUBSET Signals, \A s \in S : Readable(s), Reads(w, S)
    PROVE  TypeInv'
  <1>1. \A s \in S : Known(s) /\ CopyOf(s) \in Copy /\ CopyOf(s).of = s
    BY CopyTyped
  <1>2. /\ copies' \in [Workers -> SUBSET Copy]
        /\ \A v \in Workers : \A c \in copies'[v] : Known(c.of)
    <2> DEFINE read == {CopyOf(s) : s \in S}
    <2>1. read \subseteq Copy /\ \A c \in read : Known(c.of)
      BY <1>1
    <2>2. copies' = [copies EXCEPT ![w] = read]
      BY DEF Reads
    <2> HIDE DEF read
    <2> QED
      BY <2>1, <2>2 DEF TypeInv, TypeOK
  <1> QED
    BY <1>2 DEF Reads, rows, money, TypeInv, TypeOK, Known

\* A worker deals with its first row.
LEMMA DealtTyped ==
    ASSUME TypeInv, NEW w, Dealt(w)
    PROVE  /\ copies' \in [Workers -> SUBSET Copy] /\ asking' \in [Workers -> BOOLEAN]
           /\ \A v \in Workers : copies'[v] \subseteq copies[v]
  BY DEF TypeInv, TypeOK, Dealt

\* An executor is done with it, and with the stake it had for it.
LEMMA EndsTyped ==
    ASSUME TypeInv, NEW w, Ends(w)
    PROVE  /\ copies' \in [Workers -> SUBSET Copy] /\ asking' \in [Workers -> BOOLEAN]
           /\ \A v \in Workers : copies'[v] \subseteq copies[v]
           /\ sized' \in [Executors -> 0..Cap]
  <1>1. 0 \in 0..Cap
    BY FundAssumption
  <1>2. sized' \in [Executors -> 0..Cap]
    BY <1>1 DEF TypeInv, TypeOK, Ends
  <1> QED
    BY <1>2, DealtTyped DEF Ends

-----------------------------------------------------------------------------
\* Capturing, editing and correcting store a whole row.
LEMMA MessageTyped ==
    ASSUME TypeInv, NEW s \in Signals, NEW levels \in Levels \union {NoLevels},
           Capture(s, levels) \/ Edit(s, levels) \/ Correct(s, levels)
    PROVE  TypeInv'
  <1>1. /\ UNCHANGED <<command, copies, asking, taken, order, money, lost>>
        /\ edits' \in Nat
    BY DEF Capture, Edit, Correct, TypeInv, TypeOK
  <1>2. signal[s] \in Signal \union {Absent}
    BY DEF TypeInv, TypeOK
  <1>3. \E row \in Signal : signal' = [signal EXCEPT ![s] = row]
    <2>1. CASE Capture(s, levels)
      <3>1. signal' = [signal EXCEPT ![s] =
                          Parsed([signal[s] EXCEPT !.execution = "not_attempted"], levels)]
        BY <2>1 DEF Capture
      <3>2. Parsed([signal[s] EXCEPT !.execution = "not_attempted"], levels) \in Signal
        BY <1>2 DEF Parsed, Signal, Absent, Reviews, Executions
      <3> QED
        BY <3>1, <3>2
    <2>2. CASE Edit(s, levels) \/ Correct(s, levels)
      <3>1. signal' = [signal EXCEPT ![s] = Parsed(signal[s], levels)]
        BY <2>2 DEF Edit, Correct
      <3>2. signal[s].execution = "not_attempted"
        BY <2>2 DEF Edit, Correct
      <3>3. signal[s] \in Signal
        BY <1>2, <3>2 DEF Absent
      <3>4. Parsed(signal[s], levels) \in Signal
        BY <3>3 DEF Parsed, Signal, Reviews
      <3> QED
        BY <3>1, <3>4
    <2> QED
      BY <2>1, <2>2
  <1>4. /\ signal' \in [Signals -> Signal \union {Absent}]
        /\ \A r \in Signals : Known(r) => Known(r)'
    BY <1>3, SignalSet
  <1> QED
    BY <1>1, <1>4 DEF money, TypeInv, TypeOK, Copy, Tickets

\* A verdict is written to a row that is there, whatever it says by now.
LEMMA ReviewTyped ==
    ASSUME TypeInv, NEW w \in Workers, NEW verdict \in {"approved", "declined"},
           Review(w, verdict)
    PROVE  TypeInv'
  <1> DEFINE c == First(w)
  <1>1. c \in Copy /\ Known(c.of)
    BY FirstOfThem DEF Review
  <1>2. /\ signal' \in [Signals -> Signal \union {Absent}]
        /\ \A r \in Signals : Known(r) => Known(r)'
    <2>1. CASE signal' = signal
      BY <2>1 DEF TypeInv, TypeOK, Known
    <2>2. CASE signal' = [signal EXCEPT ![c.of].review = verdict]
      <3>1. c.of \in Signals /\ [signal[c.of] EXCEPT !.review = verdict] \in Signal
        BY <1>1 DEF Known, Signal, Reviews, Copy
      <3> HIDE DEF c
      <3> QED
        BY <2>2, <3>1, SignalSet
    <2> QED
      BY <2>1, <2>2 DEF Review
  <1>3. /\ copies' \in [Workers -> SUBSET Copy] /\ asking' \in [Workers -> BOOLEAN]
        /\ \A v \in Workers : copies'[v] \subseteq copies[v]
    BY DealtTyped DEF Review
  <1> QED
    BY <1>2, <1>3 DEF Review, money, TypeInv, TypeOK, Copy, Tickets

\* Marking a captured signal leaves a whole row.
LEMMA MarkTyped ==
    ASSUME TypeInv, NEW s \in Signals, Known(s), NEW execution \in Executions,
           signal' = [signal EXCEPT ![s].execution = execution]
    PROVE  /\ signal' \in [Signals -> Signal \union {Absent}]
           /\ \A r \in Signals : Known(r) => Known(r)'
  <1>1. [signal[s] EXCEPT !.execution = execution] \in Signal
    BY DEF Known, Signal
  <1> QED
    BY <1>1, SignalSet

\* What is left for a signal is within the cap.
LEMMA SizeTyped ==
    ASSUME TypeInv, NEW w \in Workers, Size(w)
    PROVE  TypeInv'
  <1>1. First(w).of \in Signals
    BY FirstOfThem DEF Size, Copy
  <1>2. Stake(First(w).of) \in 0..Cap
    BY <1>1, FundTyped
  <1>3. sized' \in [Executors -> 0..Cap] /\ raced' \in BOOLEAN
    <2> DEFINE stake == Stake(First(w).of)
    <2>1. sized' = [sized EXCEPT ![w] = stake]
      BY DEF Size
    <2>2. stake \in 0..Cap
      BY <1>2
    <2> HIDE DEF stake
    <2>3. sized' \in [Executors -> 0..Cap]
      BY <2>1, <2>2 DEF TypeInv, TypeOK
    <2>4. raced' \in BOOLEAN
      <3>1. raced \in BOOLEAN
        BY DEF TypeInv, TypeOK
      <3>2. raced' = (raced \/ \E v \in Executors : sized[v] > 0)
        BY DEF Size
      <3> QED
        BY <3>1, <3>2
    <2> QED
      BY <2>3, <2>4
  <1> QED
    BY <1>3 DEF Size, rows, TypeInv, TypeOK, Known

\* What is asked for is a command of a captured signal, with a stake within the cap.
LEMMA ExecuteTyped ==
    ASSUME TypeInv, NEW w \in Workers, Execute(w)
    PROVE  TypeInv'
  <1> DEFINE c == First(w)
             s == c.of
  <1>1. c \in Copy /\ Known(s) /\ s \in Signals
    BY FirstOfThem DEF Execute, Copy
  <1>2. /\ signal' \in [Signals -> Signal \union {Absent}]
        /\ \A r \in Signals : Known(r) => Known(r)'
    <2>1. signal' = [signal EXCEPT ![s].execution = "queued"]
      BY DEF Execute
    <2> HIDE DEF c, s
    <2> QED
      BY <1>1, <2>1, MarkTyped DEF Executions
  <1>3. /\ copies' \in [Workers -> SUBSET Copy] /\ asking' \in [Workers -> BOOLEAN]
        /\ \A v \in Workers : copies'[v] \subseteq copies[v]
        /\ sized' \in [Executors -> 0..Cap]
    BY EndsTyped DEF Execute
  <1>4. PICK asked \in Enqueued(c, sized[w]) : command' = [command EXCEPT ![s] = asked]
    BY DEF Execute
  <1>5. asked \in Command
    <2>1. sized[w] \in 0..Cap
      BY DEF Execute, TypeInv, TypeOK
    <2>2. Asked(c, sized[w]) \in Command
      BY <1>1, <2>1 DEF Asked, Command, Commands, Copy
    <2>3. command[s] \in Command
      BY <1>1 DEF TypeInv, TypeOK
    <2> QED
      BY <2>2, <2>3, <1>4 DEF Enqueued
  <1>6. /\ command' \in [Signals -> Command]
        /\ \A r \in Signals : r # s => command'[r] = command[r]
    BY <1>1, <1>4, <1>5, CommandSet
  <1> QED
    BY <1>1, <1>2, <1>3, <1>6 DEF Execute, TypeInv, TypeOK, Copy, Tickets

\* A refusal is written to a row that is there.
LEMMA BlockTyped ==
    ASSUME TypeInv, NEW w \in Workers, Block(w)
    PROVE  TypeInv'
  <1> DEFINE s == First(w).of
  <1>1. s \in Signals /\ Known(s)
    BY FirstOfThem DEF Block, Copy
  <1>2. signal' = [signal EXCEPT ![s].execution = "blocked"]
    BY DEF Block
  <1> HIDE DEF s
  <1>3. /\ signal' \in [Signals -> Signal \union {Absent}]
        /\ \A r \in Signals : Known(r) => Known(r)'
    BY <1>1, <1>2, MarkTyped DEF Executions
  <1>4. /\ copies' \in [Workers -> SUBSET Copy] /\ asking' \in [Workers -> BOOLEAN]
        /\ \A v \in Workers : copies'[v] \subseteq copies[v]
        /\ sized' \in [Executors -> 0..Cap]
    BY EndsTyped DEF Block
  <1> QED
    BY <1>3, <1>4 DEF Block, TypeInv, TypeOK, Copy, Tickets

\* The autonomous trader's signals and added entries are captured approved.
LEMMA OriginateTyped ==
    ASSUME TypeInv, NEW w, NEW s \in Signals, NEW levels \in Levels, Originate(w, s, levels)
    PROVE  TypeInv'
  <1> DEFINE row == [levels |-> levels, review |-> "approved", execution |-> "not_attempted"]
             copy == [of |-> s, levels |-> levels, review |-> "approved"]
  <1>1. row \in Signal /\ copy \in Copy /\ copy.of = s
    BY DEF Signal, Copy, Reviews, Executions
  <1>2. signal' = [signal EXCEPT ![s] = row] /\ copies' = [copies EXCEPT ![w] = {copy}]
    BY DEF Originate
  <1> HIDE DEF row, copy
  <1>3. /\ signal' \in [Signals -> Signal \union {Absent}] /\ Known(s)'
        /\ \A r \in Signals : Known(r) => Known(r)'
    BY <1>1, <1>2, SignalSet
  <1>4. /\ copies' \in [Workers -> SUBSET Copy]
        /\ \A v \in Workers : copies'[v] \subseteq copies[v] \union {copy}
    BY <1>1, <1>2 DEF TypeInv, TypeOK
  <1>5. \A v \in Workers : \A c \in copies'[v] : Known(c.of)'
    BY <1>1, <1>3, <1>4 DEF TypeInv, TypeOK, Copy
  <1> QED
    BY <1>3, <1>4, <1>5 DEF Originate, money, TypeInv, TypeOK, Tickets

\* A poll changes the status of what is pending, and takes no more than that.
LEMMA PollTyped ==
    ASSUME TypeInv, Poll
    PROVE  TypeInv'
  <1>1. \A s \in Signals : command[s] \in Command
    BY DEF TypeInv, TypeOK
  <1>2. \A s \in Signals : [command[s] EXCEPT !.status = "claimed"] \in Command
    BY <1>1 DEF Command, Commands
  <1>3. command' \in [Signals -> Command]
    BY <1>1, <1>2 DEF Poll
  <1>4. \A s \in Signals : command'[s].status # "absent" => command[s].status # "absent"
    BY DEF Poll, Pending
  <1>5. taken' \subseteq Signals /\ \A s \in taken' : Known(s)
    BY DEF Poll, Pending, TypeInv, TypeOK, Loses
  <1>6. lost' \in Nat
    BY DEF Poll, Loses, TypeInv, TypeOK
  <1> QED
    BY <1>3, <1>4, <1>5, <1>6 DEF Poll, money, TypeInv, TypeOK, Known

\* An order is what it should be after one of its columns is written.
LEMMA OrderSet ==
    ASSUME TypeInv, NEW t \in Tickets, NEW o \in Order, o.pnl <= 0, Known(t[1]),
           order' = [order EXCEPT ![t] = o]
    PROVE  /\ order' \in [Tickets -> Order]
           /\ \A u \in Tickets : order'[u].stage # "none" => Known(u[1])
           /\ \A u \in Tickets : order'[u].pnl <= 0
  BY DEF TypeInv, TypeOK

\* What is placed has the levels and the stake of the command.
LEMMA PlaceTyped ==
    ASSUME TypeInv, NEW s \in Signals, Place(s)
    PROVE  TypeInv'
  <1> DEFINE placed == [NoOrder EXCEPT !.stage = IF s \in AtLevel THEN "resting" ELSE "held",
                                       !.levels = command[s].levels, !.stake = command[s].stake]
  <1>1. PICK n \in 1..MaxOrders : order' = [order EXCEPT ![<<s, n>>] = placed]
    BY DEF Place
  <1>2. placed \in Order /\ placed.pnl <= 0
    <2>1. /\ command[s].levels \in Levels \union {NoLevels}
          /\ command[s].stake \in 0..Cap
      BY DEF TypeInv, TypeOK, Command
    <2> DEFINE staged  == [NoOrder EXCEPT !.stage = IF s \in AtLevel THEN "resting" ELSE "held"]
               leveled == [staged EXCEPT !.levels = command[s].levels]
    <2>2. staged \in Order /\ staged.pnl = 0
      <3>1. NoOrder \in Order /\ NoOrder.pnl = 0
        BY FundAssumption DEF NoOrder, Order, Stages
      <3> QED
        BY <3>1 DEF Order, Stages
    <2> HIDE DEF staged
    <2>3. leveled \in Order /\ leveled.pnl = 0
      BY <2>1, <2>2 DEF Order
    <2> HIDE DEF leveled
    <2>4. [leveled EXCEPT !.stake = command[s].stake] \in Order
      BY <2>1, <2>3 DEF Order
    <2>5. [leveled EXCEPT !.stake = command[s].stake].pnl = 0
      BY <2>3 DEF Order
    <2> QED
      BY <2>4, <2>5 DEF staged, leveled
  <1>3. <<s, n>> \in Tickets /\ <<s, n>>[1] = s /\ Known(s) /\ s \in taken
    BY DEF Tickets, Place, TypeInv
  <1> HIDE DEF placed
  <1>4. /\ order' \in [Tickets -> Order]
        /\ \A u \in Tickets : order'[u].stage # "none" => Known(u[1])
        /\ \A u \in Tickets : order'[u].pnl <= 0
    <2> DEFINE t == <<s, n>>
    <2>1. t \in Tickets /\ Known(t[1]) /\ order' = [order EXCEPT ![t] = placed]
      BY <1>1, <1>3
    <2> HIDE DEF t
    <2> QED
      BY <1>2, <2>1, OrderSet
  <1>5. /\ command' \in [Signals -> Command]
        /\ \A r \in Signals : r # s => command'[r] = command[r]
    <2>1. CASE Status(s, "done")
      BY <2>1, StatusTyped DEF Commands
    <2>2. CASE UNCHANGED command
      BY <2>2 DEF TypeInv, TypeOK
    <2> QED
      BY <2>1, <2>2 DEF Place
  <1>6. lost' \in Nat
    BY DEF Place, Loses, TypeInv, TypeOK
  <1> QED
    BY <1>3, <1>4, <1>5, <1>6 DEF Place, money, TypeInv, TypeOK, Known

\* Refused and expired commands are rows still.
LEMMA RefuseTyped ==
    ASSUME TypeInv, NEW s \in Signals, Refuse(s) \/ Expire(s)
    PROVE  TypeInv'
  <1>1. /\ command' \in [Signals -> Command]
        /\ \A r \in Signals : r # s => command'[r] = command[r]
    BY StatusTyped DEF Refuse, Expire, Commands
  <1>2. Known(s)
    BY DEF Refuse, Expire, TypeInv
  <1>3. taken' \subseteq taken
    BY DEF Refuse, Expire
  <1> QED
    BY <1>1, <1>2, <1>3 DEF Refuse, Expire, money, TypeInv, TypeOK, Known

\* A step of the broker or the book that writes one order.
LEMMA PositionTyped ==
    ASSUME TypeInv, NEW t \in Tickets, NEW o \in Order, o.pnl <= 0,
           order[t].stage # "none", order' = [order EXCEPT ![t] = o],
           UNCHANGED <<rows, copies, asking, taken, money, edits, lost>>
    PROVE  TypeInv'
  <1>1. /\ order' \in [Tickets -> Order]
        /\ \A u \in Tickets : order'[u].stage # "none" => Known(u[1])
        /\ \A u \in Tickets : order'[u].pnl <= 0
    BY OrderSet DEF TypeInv
  <1> QED
    BY <1>1 DEF TypeInv, TypeOK, rows, money, Known

\* Each of them leaves an order of its type.
LEMMA BrokerTyped ==
    ASSUME TypeInv, NEW t \in Tickets,
           \/ Fill(t) \/ Retire(t) \/ RecordOpen(t) \/ RecordClose(t)
           \/ \E stop \in BOOLEAN : \E pnl \in {0, -order[t].stake} : Close(t, stop, pnl)
    PROVE  TypeInv'
  <1>1. order[t] \in Order /\ order[t].pnl <= 0
    BY DEF TypeInv, TypeOK
  <1>2. CASE Fill(t)
    <2> DEFINE o == [order[t] EXCEPT !.stage = "held"]
    <2>1. o \in Order /\ o.pnl = order[t].pnl
      BY <1>1 DEF Order, Stages
    <2>2. order[t].stage # "none" /\ order' = [order EXCEPT ![t] = o]
      BY <1>2 DEF Fill, At
    <2> HIDE DEF o
    <2> QED
      BY <1>1, <1>2, <2>1, <2>2, PositionTyped DEF Fill
  <1>3. CASE RecordClose(t)
    <2> DEFINE row == IF order[t].stop THEN "stopped_out" ELSE "fully_closed"
               o   == [order[t] EXCEPT !.row = row]
    <2>1. o \in Order /\ o.pnl = order[t].pnl
      BY <1>1 DEF Order
    <2>2. order[t].stage # "none" /\ order' = [order EXCEPT ![t] = o]
      BY <1>3 DEF RecordClose, At
    <2> HIDE DEF o
    <2> QED
      BY <1>1, <1>3, <2>1, <2>2, PositionTyped DEF RecordClose
  <1>4. ASSUME NEW stop \in BOOLEAN, NEW pnl \in {0, -order[t].stake}, Close(t, stop, pnl)
        PROVE  TypeInv'
    <2> DEFINE o == [order[t] EXCEPT !.stage = "gone", !.stop = stop, !.pnl = pnl]
    <2>1. pnl \in Int /\ pnl <= 0
      BY <1>1, FundAssumption DEF Order
    <2>2. o \in Order /\ o.pnl = pnl
      BY <1>1, <2>1 DEF Order, Stages
    <2>3. order[t].stage # "none" /\ order' = [order EXCEPT ![t] = o]
      BY <1>4 DEF Close, At
    <2> HIDE DEF o
    <2> QED
      BY <1>4, <2>1, <2>2, <2>3, PositionTyped DEF Close
  <1>5. CASE Retire(t)
    <2> DEFINE o == [order[t] EXCEPT !.stage = "unfilled"]
    <2>1. o \in Order /\ o.pnl = order[t].pnl
      BY <1>1 DEF Order, Stages
    <2>2. order[t].stage # "none" /\ order' = [order EXCEPT ![t] = o]
      BY <1>5 DEF Retire, At
    <2>3. t[1] \in Signals /\ Known(t[1])
      BY <2>2 DEF Tickets, TypeInv
    <2> HIDE DEF o
    <2>4. /\ order' \in [Tickets -> Order]
          /\ \A u \in Tickets : order'[u].stage # "none" => Known(u[1])
          /\ \A u \in Tickets : order'[u].pnl <= 0
      BY <1>1, <2>1, <2>2, <2>3, OrderSet
    <2>5. /\ command' \in [Signals -> Command]
          /\ \A r \in Signals : r # t[1] => command'[r] = command[r]
      BY <1>5, <2>3, StatusTyped DEF Retire, Commands
    <2> QED
      BY <1>5, <2>3, <2>4, <2>5 DEF Retire, money, TypeInv, TypeOK, Known
  <1>6. CASE RecordOpen(t)
    <2> DEFINE o == [order[t] EXCEPT !.row = "open"]
    <2>1. o \in Order /\ o.pnl = order[t].pnl
      BY <1>1 DEF Order
    <2>2. order[t].stage # "none" /\ order' = [order EXCEPT ![t] = o]
      BY <1>6 DEF RecordOpen, Unreported
    <2>3. t[1] \in Signals /\ Known(t[1])
      BY <2>2 DEF Tickets, TypeInv
    <2> HIDE DEF o
    <2>4. /\ order' \in [Tickets -> Order]
          /\ \A u \in Tickets : order'[u].stage # "none" => Known(u[1])
          /\ \A u \in Tickets : order'[u].pnl <= 0
      BY <1>1, <2>1, <2>2, <2>3, OrderSet
    <2>5. /\ signal' \in [Signals -> Signal \union {Absent}]
          /\ \A r \in Signals : Known(r) => Known(r)'
      BY <1>6, <2>3, MarkTyped DEF RecordOpen, Executions
    <2>6. \A u \in Tickets : u[1] \in Signals
      BY DEF Tickets
    <2> QED
      BY <1>6, <2>4, <2>5, <2>6 DEF RecordOpen, money, TypeInv, TypeOK, Copy
  <1> QED
    BY <1>2, <1>3, <1>4, <1>5, <1>6

\* Every step keeps the types.
LEMMA NextTyped ==
    ASSUME TypeInv, [Next]_vars
    PROVE  TypeInv'
  <1>1. CASE \E s \in Signals, l \in Levels \union {NoLevels} :
                Capture(s, l) \/ Edit(s, l) \/ Correct(s, l)
    BY <1>1, MessageTyped
  <1>2. CASE ReviewPass \/ ExecutePass
    <2> DEFINE toReview == {s \in Signals : Readable(s) /\ signal[s].review = "pending"}
               toExecute == {s \in Signals : Actionable(s)}
    <2>1. /\ \A s \in toReview \union toExecute : Readable(s)
          /\ toReview \in SUBSET Signals /\ toExecute \in SUBSET Signals
      BY DEF Actionable
    <2>2. Reads("review", toReview) \/ Reads("execute", toExecute)
      BY <1>2 DEF ReviewPass, ExecutePass
    <2> HIDE DEF toReview, toExecute
    <2> QED
      BY <2>1, <2>2, ReadsTyped
  <1>3. ASSUME NEW w \in Workers, NEW s \in Signals, Press(w, s)
        PROVE  TypeInv'
    <2>1. {s} \in SUBSET Signals /\ (\A r \in {s} : Readable(r)) /\ Reads(w, {s})
      BY <1>3 DEF Press, Actionable
    <2> QED
      BY <2>1, ReadsTyped
  <1>4. ASSUME NEW w \in Workers, Works(w)
        PROVE  TypeInv'
    <2>1. CASE AskModel(w)
      BY <2>1 DEF AskModel, rows, money, TypeInv, TypeOK, Known
    <2> QED
      BY <1>4, <2>1, ReviewTyped, SizeTyped, ExecuteTyped, BlockTyped DEF Works
  <1>5. ASSUME NEW s \in Signals, Decide(s) \/ \E p \in Signals : AddEntry(s, p)
        PROVE  TypeInv'
    <2>1. \A p \in Signals : Readable(p) => signal[p].levels \in Levels
      BY CopyTyped
    <2> QED
      BY <1>5, <2>1, OriginateTyped DEF Decide, AddEntry
  <1>6. CASE \E s \in Signals : Place(s) \/ Refuse(s) \/ Expire(s)
    BY <1>6, PlaceTyped, RefuseTyped
  <1>7. CASE \E t \in Tickets : Fill(t) \/ Retire(t) \/ RecordOpen(t) \/ RecordClose(t)
    BY <1>7, BrokerTyped
  <1>8. CASE \E t \in Tickets, stop \in BOOLEAN : \E pnl \in {0, -order[t].stake} :
                Close(t, stop, pnl)
    BY <1>8, BrokerTyped
  <1>9. CASE UNCHANGED vars
    BY <1>9 DEF vars, rows, money, TypeInv, TypeOK, Known
  <1> QED
    BY <1>1, <1>2, <1>3, <1>4, <1>5, <1>6, <1>7, <1>8, <1>9, PollTyped DEF Next

\* Every row, copy and order has its type, whatever the terminal and the provider do: in
\* particular no order is sized at more than the cap, and marking a row never writes to a
\* signal that was not captured.
THEOREM CopierTyped == Spec => []TypeOK
  <1>1. TypeInv => TypeOK
    BY DEF TypeInv
  <1> QED
    BY <1>1, TypeInit, NextTyped, PTL DEF Spec

-----------------------------------------------------------------------------
(* One order of a signal *)

Live(s, n) == order[<<s, n>>].stage \in {"resting", "held", "gone"}

\* Rows have their columns; what is in the other columns does not matter here.
Shape ==
    /\ DOMAIN command = Signals /\ \A s \in Signals : "status" \in DOMAIN command[s]
    /\ DOMAIN order = Tickets /\ \A t \in Tickets : "stage" \in DOMAIN order[t]
    /\ lost \in Nat

Accounted(s) ==
    /\ s \in taken => command[s].status = "claimed"
    /\ command[s].status # "done" => \A n \in 1..MaxOrders : ~Live(s, n)
    /\ \A m, n \in 1..MaxOrders : Live(s, m) /\ Live(s, n) => m = n

IInv == Shape /\ (lost = 0 => \A s \in Signals : Accounted(s))

-----------------------------------------------------------------------------
\* Setting a command's status changes that and nothing else.
LEMMA StatusSet ==
    ASSUME Shape, NEW s \in Signals, NEW x, Status(s, x)
    PROVE  /\ DOMAIN command' = Signals
           /\ \A r \in Signals : /\ "status" \in DOMAIN command'[r]
                                 /\ command'[r].status = IF r = s THEN x ELSE command[r].status
  BY DEF Shape, Status

\* Losing an answer is counted for good.
LEMMA LostGrows ==
    ASSUME Shape, Loses
    PROVE  lost' \in Nat /\ lost' # 0
  BY DEF Shape, Loses

\* What leaves commands, orders and the terminal alone keeps the invariant.
LEMMA Untouched ==
    ASSUME IInv, UNCHANGED <<command, taken, order, lost>>
    PROVE  IInv'
  BY DEF IInv, Shape, Accounted, Live

\* An order that moves on from one stage to another is no order more.
LEMMA OrderMoves ==
    ASSUME IInv, NEW t \in Tickets, NEW stage,
           DOMAIN order' = Tickets,
           \A u \in Tickets : /\ "stage" \in DOMAIN order'[u]
                              /\ order'[u].stage = IF u = t THEN stage ELSE order[u].stage,
           order[t].stage \in {"resting", "held", "gone"},
           UNCHANGED <<command, taken, lost>>
    PROVE  IInv'
  <1> USE DEF IInv, Shape
  <1>1. \A s \in Signals, n \in 1..MaxOrders : Live(s, n)' => Live(s, n)
    BY DEF Live, Tickets
  <1>2. \A s \in Signals : Accounted(s) => Accounted(s)'
    BY <1>1 DEF Accounted
  <1> QED
    BY <1>2

-----------------------------------------------------------------------------
\* At first nothing is asked for.
LEMMA InitHolds == Init => IInv
  <1> SUFFICES ASSUME Init PROVE IInv
    OBVIOUS
  <1>1. Shape
    BY DEF Init, Shape, NoCommand, NoOrder
  <1>2. \A s \in Signals : Accounted(s)
    BY DEF Init, Accounted, Live, NoCommand, NoOrder, Tickets
  <1> QED
    BY <1>1, <1>2 DEF IInv

\* Asking again: only for a signal that has nothing under way.
LEMMA ExecuteKeeps ==
    ASSUME IInv, NEW w \in Workers, Execute(w)
    PROVE  IInv'
  <1> DEFINE c == First(w)
  <1>1. PICK asked \in Enqueued(c, sized[w]) : command' = [command EXCEPT ![c.of] = asked]
    BY DEF Execute
  <1>2. UNCHANGED <<taken, order, lost>>
    BY DEF Execute
  <1>3. ASSUME NEW s \in Signals
        PROVE  \/ command'[s] = command[s]
               \/ /\ command[s].status \in {"absent", "expired", "failed"}
                  /\ "status" \in DOMAIN command'[s] /\ command'[s].status = "pending"
    <2>1. CASE s # c.of
      BY <1>1, <2>1 DEF IInv, Shape
    <2>2. CASE s = c.of
      <3>1. command'[s] = asked
        BY <1>1, <2>2 DEF IInv, Shape
      <3>2. \/ asked = command[s]
            \/ /\ command[s].status \in {"absent", "expired", "failed"}
               /\ asked = Asked(c, sized[w])
        BY <2>2 DEF Enqueued
      <3>3. "status" \in DOMAIN Asked(c, sized[w]) /\ Asked(c, sized[w]).status = "pending"
        BY DEF Asked
      <3> QED
        BY <3>1, <3>2, <3>3
    <2> QED
      BY <2>1, <2>2
  <1>4. Shape'
    BY <1>1, <1>2, <1>3 DEF IInv, Shape
  <1>5. ASSUME lost = 0, NEW s \in Signals
        PROVE  Accounted(s)'
    <2>1. Accounted(s)
      BY <1>5 DEF IInv
    <2> QED
      BY <1>2, <1>3, <2>1 DEF Accounted, Live
  <1> QED
    BY <1>2, <1>4, <1>5 DEF IInv

\* A poll takes what is pending: that has nothing at the broker, and is marked first.
LEMMA PollKeeps ==
    ASSUME IInv, Poll
    PROVE  IInv'
  <1>1. ASSUME NEW r \in Signals
        PROVE  /\ "status" \in DOMAIN command'[r]
               /\ command'[r].status = IF r \in Pending THEN "claimed" ELSE command[r].status
    BY DEF IInv, Shape, Poll
  <1>2. DOMAIN command' = Signals /\ UNCHANGED order
    BY DEF Poll
  <1>3. lost' \in Nat /\ (lost' = 0 => lost = 0 /\ taken' = Pending)
    BY LostGrows DEF IInv, Shape, Poll
  <1>4. Shape'
    BY <1>1, <1>2, <1>3 DEF IInv, Shape
  <1>5. ASSUME lost' = 0, NEW r \in Signals
        PROVE  Accounted(r)'
    <2>1. Accounted(r) /\ taken' = Pending
      BY <1>3, <1>5 DEF IInv
    <2> QED
      BY <1>1, <1>2, <2>1 DEF Accounted, Live, Pending
  <1> QED
    BY <1>4, <1>5 DEF IInv

\* The order of a command in hand is the first that is not void.
LEMMA PlaceKeeps ==
    ASSUME IInv, NEW s \in Signals, Place(s)
    PROVE  IInv'
  <1>1. PICK n \in 1..MaxOrders :
            order' = [order EXCEPT ![<<s, n>>] =
                 [NoOrder EXCEPT !.stage = IF s \in AtLevel THEN "resting" ELSE "held",
                                 !.levels = command[s].levels, !.stake = command[s].stake]]
    BY DEF Place
  <1>2. /\ DOMAIN order' = Tickets /\ \A t \in Tickets : "stage" \in DOMAIN order'[t]
        /\ \A t \in Tickets : t # <<s, n>> => order'[t] = order[t]
    <2>1. <<s, n>> \in Tickets
      BY DEF Tickets
    <2>2. "stage" \in DOMAIN order'[<<s, n>>]
      BY <1>1, <2>1 DEF IInv, Shape, NoOrder
    <2> QED
      BY <1>1, <2>1, <2>2 DEF IInv, Shape
  <1>3. \/ Status(s, "done") /\ UNCHANGED lost
        \/ Loses /\ UNCHANGED command
    BY DEF Place
  <1>4. Shape'
    BY <1>2, <1>3, StatusSet, LostGrows DEF IInv, Shape
  <1>5. ASSUME lost' = 0, NEW r \in Signals
        PROVE  Accounted(r)'
    <2>1. lost = 0 /\ Status(s, "done")
      BY <1>3, <1>5, LostGrows DEF IInv
    <2>2. command'[r].status = IF r = s THEN "done" ELSE command[r].status
      BY <2>1, StatusSet DEF IInv
    <2>3. Accounted(r) /\ Accounted(s) /\ s \in taken /\ taken' = taken \ {s}
      BY <2>1 DEF IInv, Place
    <2>4. CASE r = s
      <3>1. \A m \in 1..MaxOrders : m # n => ~Live(s, m)'
        BY <1>2, <2>3 DEF Accounted, Live, Tickets
      <3> QED
        BY <2>2, <2>3, <2>4, <3>1 DEF Accounted
    <2>5. CASE r # s
      <3>1. \A m \in 1..MaxOrders : Live(r, m)' <=> Live(r, m)
        BY <1>2, <2>5 DEF Live, Tickets
      <3> QED
        BY <2>2, <2>3, <2>5, <3>1 DEF Accounted
    <2> QED
      BY <2>4, <2>5
  <1> QED
    BY <1>4, <1>5 DEF IInv

\* What the broker refuses has nothing at the broker.
LEMMA RefuseKeeps ==
    ASSUME IInv, NEW s \in Signals, Refuse(s)
    PROVE  IInv'
  <1>1. Shape'
    BY StatusSet DEF IInv, Shape, Refuse
  <1>2. ASSUME lost = 0, NEW r \in Signals
        PROVE  Accounted(r)'
    <2>1. command'[r].status = IF r = s THEN "failed" ELSE command[r].status
      BY StatusSet DEF IInv, Refuse
    <2>2. Accounted(r) /\ s \in taken /\ taken' = taken \ {s} /\ UNCHANGED order
      BY <1>2 DEF IInv, Refuse
    <2> QED
      BY <2>1, <2>2 DEF Accounted, Live
  <1> QED
    BY <1>1, <1>2 DEF IInv, Refuse

\* A punctual terminal has nothing in hand that expires.
LEMMA ExpireKeeps ==
    ASSUME IInv, Punctual, NEW s \in Signals, Expire(s)
    PROVE  IInv'
  <1>1. Shape'
    BY StatusSet DEF IInv, Shape, Expire
  <1>2. ASSUME lost = 0, NEW r \in Signals
        PROVE  Accounted(r)'
    <2>1. command'[r].status = IF r = s THEN "expired" ELSE command[r].status
      BY StatusSet DEF IInv, Expire
    <2>2. /\ Accounted(r) /\ s \notin taken /\ command[s].status \in {"pending", "claimed"}
          /\ UNCHANGED <<taken, order>>
      BY <1>2 DEF IInv, Expire
    <2> QED
      BY <2>1, <2>2 DEF Accounted, Live
  <1> QED
    BY <1>1, <1>2 DEF IInv, Expire

\* The order that goes unfilled was the only one.
LEMMA RetireKeeps ==
    ASSUME IInv, NEW t \in Tickets, Retire(t)
    PROVE  IInv'
  <1>1. PICK s \in Signals, n \in 1..MaxOrders : t = <<s, n>>
    BY DEF Tickets
  <1>2. Status(s, "failed") /\ UNCHANGED <<taken, lost>> /\ Live(s, n)
    BY <1>1 DEF Retire, At, Live
  <1>3. /\ DOMAIN order' = Tickets
        /\ \A u \in Tickets : /\ "stage" \in DOMAIN order'[u]
                              /\ order'[u].stage = IF u = t THEN "unfilled" ELSE order[u].stage
    BY DEF IInv, Shape, Retire
  <1>4. Shape'
    BY <1>2, <1>3, StatusSet DEF IInv, Shape
  <1>5. ASSUME lost = 0, NEW r \in Signals
        PROVE  Accounted(r)'
    <2>1. command'[r].status = IF r = s THEN "failed" ELSE command[r].status
      BY <1>2, StatusSet DEF IInv
    <2>2. Accounted(r) /\ Accounted(s)
      BY <1>5 DEF IInv
    <2>3. \A m \in 1..MaxOrders : Live(r, m)' => Live(r, m) /\ <<r, m>> # t
      BY <1>3 DEF Live, Tickets
    <2>4. command[s].status = "done"
      BY <1>2, <2>2 DEF Accounted
    <2>5. CASE r = s
      <3>1. \A m \in 1..MaxOrders : ~Live(s, m)'
        BY <1>1, <1>2, <2>2, <2>3, <2>5 DEF Accounted
      <3>2. s \notin taken'
        BY <1>2, <2>2, <2>4 DEF Accounted
      <3> QED
        BY <2>5, <3>1, <3>2 DEF Accounted
    <2>6. CASE r # s
      BY <1>2, <2>1, <2>2, <2>3, <2>6 DEF Accounted
    <2> QED
      BY <2>5, <2>6
  <1> QED
    BY <1>2, <1>4, <1>5 DEF IInv

\* A fill, a close and the rows written for them.
LEMMA PositionKeeps ==
    ASSUME IInv, NEW t \in Tickets,
           \/ Fill(t) \/ RecordOpen(t) \/ RecordClose(t)
           \/ \E stop \in BOOLEAN : \E pnl \in {0, -order[t].stake} : Close(t, stop, pnl)
    PROVE  IInv'
  <1> USE DEF IInv, Shape
  <1>1. CASE Fill(t)
    BY <1>1, OrderMoves DEF Fill, At, rows
  <1>2. CASE RecordOpen(t)
    <2>1. order[t].stage \in {"held", "gone"} /\ UNCHANGED <<command, taken, lost>>
      BY <1>2 DEF RecordOpen, Unreported
    <2>2. /\ DOMAIN order' = Tickets
          /\ \A u \in Tickets : "stage" \in DOMAIN order'[u] /\ order'[u].stage = order[u].stage
      BY <1>2 DEF RecordOpen
    <2> QED
      BY <2>1, <2>2, OrderMoves
  <1>3. CASE RecordClose(t)
    <2>1. order[t].stage = "gone" /\ UNCHANGED <<command, taken, lost>>
      BY <1>3 DEF RecordClose, At, rows
    <2>2. /\ DOMAIN order' = Tickets
          /\ \A u \in Tickets : "stage" \in DOMAIN order'[u] /\ order'[u].stage = order[u].stage
      BY <1>3 DEF RecordClose
    <2> QED
      BY <2>1, <2>2, OrderMoves
  <1>4. ASSUME NEW stop \in BOOLEAN, NEW pnl \in {0, -order[t].stake}, Close(t, stop, pnl)
        PROVE  IInv'
    <2>1. order[t].stage = "held" /\ UNCHANGED <<command, taken, lost>>
      BY <1>4 DEF Close, At, rows
    <2>2. /\ DOMAIN order' = Tickets
          /\ \A u \in Tickets : /\ "stage" \in DOMAIN order'[u]
                                /\ order'[u].stage = IF u = t THEN "gone" ELSE order[u].stage
      BY <1>4 DEF Close
    <2> QED
      BY <2>1, <2>2, OrderMoves
  <1> QED
    BY <1>1, <1>2, <1>3, <1>4

\* Every step keeps a signal to one order.
LEMMA NextKeeps ==
    ASSUME Punctual, IInv, [Next]_vars
    PROVE  IInv'
  <1>1. CASE \E s \in Signals, l \in Levels \union {NoLevels} :
                Capture(s, l) \/ Edit(s, l) \/ Correct(s, l)
    BY <1>1, Untouched DEF Capture, Edit, Correct
  <1>2. CASE ReviewPass \/ ExecutePass
    BY <1>2, Untouched DEF ReviewPass, ExecutePass, Reads, rows
  <1>3. CASE \E w \in Workers, s \in Signals : Press(w, s)
    BY <1>3, Untouched DEF Press, Reads, rows
  <1>4. CASE \E w \in Workers : Works(w)
    <2>1. PICK w \in Workers : Works(w)
      BY <1>4
    <2>2. CASE AskModel(w)
      BY <2>2, Untouched DEF AskModel, rows
    <2>3. CASE \E v \in {"approved", "declined"} : Review(w, v)
      BY <2>3, Untouched DEF Review
    <2>4. CASE Execute(w)
      BY <2>4, ExecuteKeeps
    <2>5. CASE Block(w)
      BY <2>5, Untouched DEF Block
    <2>6. CASE Size(w)
      BY <2>6, Untouched DEF Size, rows
    <2> QED
      BY <2>1, <2>2, <2>3, <2>4, <2>5, <2>6 DEF Works
  <1>5. CASE \E s \in Signals : Decide(s) \/ \E p \in Signals : AddEntry(s, p)
    BY <1>5, Untouched DEF Decide, AddEntry, Originate
  <1>6. CASE Poll \/ \E s \in Signals : Place(s) \/ Refuse(s) \/ Expire(s)
    BY <1>6, PollKeeps, PlaceKeeps, RefuseKeeps, ExpireKeeps
  <1>7. CASE \E t \in Tickets : Fill(t) \/ Retire(t) \/ RecordOpen(t) \/ RecordClose(t)
    BY <1>7, RetireKeeps, PositionKeeps
  <1>8. CASE \E t \in Tickets, stop \in BOOLEAN : \E pnl \in {0, -order[t].stake} :
                Close(t, stop, pnl)
    BY <1>8, PositionKeeps
  <1>9. CASE UNCHANGED vars
    BY <1>9, Untouched DEF vars, rows
  <1> QED
    BY <1>1, <1>2, <1>3, <1>4, <1>5, <1>6, <1>7, <1>8, <1>9 DEF Next

\* However passes, buttons and the autonomous trader overlap on a signal, and whatever is
\* refused, expires or goes unfilled, it has one order: as long as every answer between
\* terminal and dashboard gets through, and the terminal is punctual.
THEOREM CopierOneOrder ==
    ASSUME Punctual
    PROVE  Spec => []OneOrder
  <1>1. IInv => OneOrder
    BY DEF IInv, Accounted, Live, OneOrder
  <1>2. IInv /\ [Next]_vars => IInv'
    BY NextKeeps
  <1> QED
    BY <1>1, <1>2, InitHolds, PTL DEF Spec

-----------------------------------------------------------------------------
(* The cap *)

\* What an order has cost or may still cost.
Exposed(o) ==
    IF o.row \in {"stopped_out", "fully_closed"} THEN -o.pnl
    ELSE IF o.stage \in {"held", "gone"} THEN o.stake ELSE 0

Exposures == [t \in Tickets |-> Exposed(order[t])]
Exposure  == SumOver(Exposures, Tickets)

\* What is asked for, and what of it has still to be placed.
Asks       == [s \in Signals |-> command[s].stake]
Unplaced   == {s \in Signals : command[s].status = "pending" \/ s \in taken}
InHand     == SumOver(Asks, taken)
Spare      == Cap - Exposure - InHand

\* Only stops lose, a fill is on file before the next order is sized, and no channel asks for
\* a larger share than entries in flight are charged at.
OnlyStopsLose ==
    Punctual /\ ~ByHand /\ AtLevel = {} /\ \A s \in Signals : Override[s] <= Percent

Coherent(o) ==
    /\ o.stage \in {"none", "held", "gone"}
    /\ o.row = "open" => o.stage \in {"held", "gone"}
    /\ o.row \in {"stopped_out", "fully_closed"} => o.stage = "gone"
    /\ o.stage # "gone" \/ ~o.stop \/ o.row = "fully_closed" => o.pnl = 0
    /\ -o.pnl <= o.stake

CapInv ==
    /\ \A t \in Tickets : Coherent(order[t])
    /\ \A s \in taken : command[s].status = "claimed"
    /\ Exposure + SumOver(Asks, Unplaced) <= Cap
    /\ \A s \in Unplaced \ taken : 100 * command[s].stake <= Percent * Spare
    /\ \A s \in taken : 100 * command[s].stake <= Percent * (Cap + Realised)

\* What has been lost, can be lost, and is still to be placed.
Committed == Exposure + SumOver(Asks, Unplaced)

\* One executor has sized an order at a time, and what it has still to ask for is free.
Promises ==
    /\ \A v, w \in Executors : sized[v] > 0 /\ sized[w] > 0 => v = w
    /\ \A w \in Executors : sized[w] > 0 => /\ 100 * sized[w] <= Percent * (Cap - Committed)
                                            /\ sized[w] <= Cap - Committed

FundInv == ~raced => CapInv /\ Promises

-----------------------------------------------------------------------------
\* A product with a natural number keeps the order.
LEMMA FactorGrows ==
    ASSUME NEW k \in Nat, NEW a \in Int, NEW b \in Int, a <= b
    PROVE  k * a \in Int /\ k * b \in Int /\ k * a <= k * b
  OBVIOUS

\* A stake is a percent of what is left of unspent, and what is charged for entries in flight
\* is at least what is asked for.
Sized(stake, percent, unspent, spent, charge, asked) ==
    /\ 100 * asked <= charge
    /\ 10000 * stake <= NotBelowZero(100 * (unspent - spent) - charge) * percent

\* What is left covers what is asked for: entries in flight were charged at least what they
\* are asked for with, whatever share of the rest is taken.
LEMMA ChargesSuffice ==
    ASSUME NEW share \in 0..100, NEW percent \in 0..share, NEW unspent \in Nat,
           NEW spent \in Nat, NEW charge \in Nat, NEW asked \in Nat, NEW stake \in Nat,
           stake > 0, Sized(stake, percent, unspent, spent, charge, asked)
    PROVE  /\ 100 * stake <= share * (unspent - spent - asked)
           /\ asked + stake <= unspent - spent
  <1> USE DEF Sized
  <1> DEFINE left == NotBelowZero(100 * (unspent - spent) - charge)
             rest == unspent - spent - asked
  <1>1. left \in Nat /\ rest \in Int
    BY DEF NotBelowZero
  <1>2. left * percent <= left * share
    BY <1>1, FactorGrows
  <1>3. left > 0
    <2>1. left = 0 => left * percent = 0
      OBVIOUS
    <2> HIDE DEF left
    <2> QED
      BY <1>1, <2>1 DEF left
  <1>4. left = 100 * (unspent - spent) - charge
    BY <1>3 DEF NotBelowZero
  <1>5. left <= 100 * rest
    BY <1>4
  <1>6. 10000 * stake <= left * percent
    OBVIOUS
  <1> HIDE DEF left, rest
  <1>7. rest > 0
    BY <1>1, <1>3, <1>5
  <1>8. share * left <= share * (100 * rest) /\ share * (100 * rest) = 100 * (share * rest)
    BY <1>1, <1>5, FactorGrows
  <1>9. /\ share * left = left * share /\ share * left \in Int
        /\ share * rest \in Int /\ left * percent \in Int
    BY <1>1
  <1>10. 100 * stake <= share * rest
    BY <1>2, <1>6, <1>8, <1>9
  <1>11. share * rest <= 100 * rest
    <2>1. rest \in Nat
      BY <1>1, <1>7
    <2>2. rest * share <= rest * 100 /\ rest * share = share * rest /\ rest * 100 = 100 * rest
      BY <2>1, FactorGrows
    <2> QED
      BY <2>2
  <1>12. stake <= rest
    BY <1>1, <1>9, <1>10, <1>11
  <1> QED
    BY <1>10, <1>12 DEF rest

-----------------------------------------------------------------------------
\* Whatever the orders, their exposures are natural, and so is the sum of them.
LEMMA ExposuresTyped ==
    ASSUME NEW o \in [Tickets -> Order], \A t \in Tickets : o[t].pnl <= 0
    PROVE  /\ \A t \in Tickets : Exposed(o[t]) \in Nat
           /\ SumOver([t \in Tickets |-> Exposed(o[t])], Tickets) \in Nat
  <1>1. ASSUME NEW t \in Tickets PROVE Exposed(o[t]) \in Nat
    <2>1. o[t].pnl \in Int /\ o[t].pnl <= 0 /\ o[t].stake \in 0..Cap
      BY DEF Order
    <2> QED
      BY <2>1, FundAssumption DEF Exposed
  <1> DEFINE f == [t \in Tickets |-> Exposed(o[t])]
  <1>2. \A t \in Tickets : f[t] \in Nat
    BY <1>1
  <1> HIDE DEF f
  <1>3. SumOver(f, Tickets) \in Nat
    BY <1>2, Finite, SumOverNat
  <1> QED
    BY <1>1, <1>3 DEF f

\* Exposures, stakes and what is asked for are natural numbers, results are losses.
LEMMA AmountsTyped ==
    ASSUME TypeInv, \A t \in Tickets : Coherent(order[t])
    PROVE  /\ \A t \in Tickets : /\ Exposures[t] = Exposed(order[t]) /\ Exposures[t] \in Nat
                                 /\ Pnls[t] = order[t].pnl /\ Pnls[t] \in Int /\ Pnls[t] <= 0
                                 /\ Stakes[t] = order[t].stake /\ Stakes[t] \in Nat
           /\ \A s \in Signals : Asks[s] = command[s].stake /\ Asks[s] \in Nat
           /\ \A S \in SUBSET Signals : SumOver(Asks, S) \in Nat
           /\ Exposure \in Nat /\ Unplaced \in SUBSET Signals /\ taken \in SUBSET Signals
           /\ InHand \in Nat /\ Spare \in Int
  <1>1. \A t \in Tickets : /\ Exposures[t] = Exposed(order[t]) /\ Exposures[t] \in Nat
                           /\ Pnls[t] = order[t].pnl /\ Pnls[t] \in Int /\ Pnls[t] <= 0
                           /\ Stakes[t] = order[t].stake /\ Stakes[t] \in Nat
    <2> SUFFICES ASSUME NEW t \in Tickets
                 PROVE  /\ Exposures[t] = Exposed(order[t]) /\ Exposures[t] \in Nat
                        /\ Pnls[t] = order[t].pnl /\ Pnls[t] \in Int /\ Pnls[t] <= 0
                        /\ Stakes[t] = order[t].stake /\ Stakes[t] \in Nat
      OBVIOUS
    <2>1. /\ order[t].pnl \in Int /\ order[t].pnl <= 0
          /\ order[t].stake \in 0..Cap
      BY DEF TypeInv, TypeOK, Order
    <2>2. Exposed(order[t]) \in Nat
      BY <2>1, FundAssumption DEF Exposed
    <2> QED
      BY <2>1, <2>2, FundAssumption DEF Exposures, Pnls, Stakes
  <1>2. \A s \in Signals : Asks[s] = command[s].stake /\ Asks[s] \in Nat
    BY FundAssumption DEF TypeInv, TypeOK, Command, Asks
  <1>3. \A S \in SUBSET Signals : SumOver(Asks, S) \in Nat
    BY <1>2, Finite, SumOverNat
  <1>4. Exposure \in Nat
    BY <1>1, Finite, SumOverNat DEF Exposure
  <1>5. Unplaced \in SUBSET Signals /\ taken \in SUBSET Signals
    BY DEF Unplaced, TypeInv, TypeOK
  <1>6. InHand \in Nat
    BY <1>3, <1>5 DEF InHand
  <1> QED
    BY <1>1, <1>2, <1>3, <1>4, <1>5, <1>6, FundAssumption DEF Spare

\* Losses on file are exposures, and nothing else is negative.
LEMMA LossesExposed ==
    ASSUME TypeInv, \A t \in Tickets : Coherent(order[t])
    PROVE  /\ Realised \in Int /\ 0 <= Exposure + Realised
           /\ Unreported = {} => Exposure + Realised = Sum(Stakes, Booked)
  <1> DEFINE stopped == {t \in Tickets : order[t].row = "stopped_out"}
             lost1   == [t \in Tickets |-> IF t \in stopped THEN Pnls[t] ELSE 0]
             held1   == [t \in Tickets |-> IF t \in Booked THEN Stakes[t] ELSE 0]
             both    == [t \in Tickets |-> Exposures[t] + lost1[t]]
  <1>1. \A t \in Tickets : /\ Exposures[t] = Exposed(order[t]) /\ Exposures[t] \in Nat
                           /\ Pnls[t] = order[t].pnl /\ Pnls[t] \in Int /\ Pnls[t] <= 0
                           /\ Stakes[t] = order[t].stake /\ Stakes[t] \in Nat
    BY AmountsTyped
  <1>2. Realised = SumOver(lost1, Tickets)
    <2>1. SumOver(Pnls, stopped) = SumOver(lost1, Tickets)
      BY <1>1, Finite, SumOverPart
    <2> QED
      BY <2>1 DEF Realised, Sum, SumOver
  <1>3. Sum(Stakes, Booked) = SumOver(held1, Tickets)
    <2>1. SumOver(Stakes, Booked) = SumOver(held1, Tickets)
      BY <1>1, Finite, SumOverPart DEF Booked
    <2> QED
      BY <2>1 DEF Sum, SumOver
  <1>4. \A t \in Tickets : /\ lost1[t] \in Int /\ both[t] \in Nat
                           /\ both[t] = Exposures[t] + lost1[t]
    BY <1>1 DEF Exposed
  <1>5. ASSUME Unreported = {}, NEW t \in Tickets
        PROVE  both[t] = held1[t]
    <2>1. Coherent(order[t]) /\ (order[t].stage \in {"held", "gone"} => order[t].row # "absent")
      BY <1>5 DEF Unreported
    <2>2. order[t].row \in {"absent", "open", "stopped_out", "fully_closed"}
      BY DEF TypeInv, TypeOK, Order
    <2> QED
      BY <1>1, <2>1, <2>2 DEF Coherent, Exposed, Booked
  <1> HIDE DEF stopped, lost1, held1, both
  <1>6. Realised \in Int
    BY <1>2, <1>4, Finite, SumOverInt
  <1>7. SumOver(both, Tickets) = Exposure + Realised
    BY <1>1, <1>2, <1>4, Finite, SumOverPlus DEF Exposure
  <1>8. SumOver(both, Tickets) \in Nat
    BY <1>4, Finite, SumOverNat
  <1>9. ASSUME Unreported = {} PROVE Exposure + Realised = Sum(Stakes, Booked)
    BY <1>3, <1>5, <1>7, <1>9, SumOverEqual
  <1> QED
    BY <1>6, <1>7, <1>8, <1>9

\* What is lost and what is held is exposed.
LEMMA RiskExposed ==
    ASSUME TypeInv, CapInv
    PROVE  Lost + AtRisk <= Cap
  <1> DEFINE gone  == {t \in Tickets : order[t].stage = "gone"}
             held  == {t \in Tickets : order[t].stage \in {"resting", "held"}}
             lost1 == [t \in Tickets |-> IF t \in gone THEN Pnls[t] ELSE 0]
             held1 == [t \in Tickets |-> IF t \in held THEN Stakes[t] ELSE 0]
             both  == [t \in Tickets |-> Exposures[t] + lost1[t]]
  <1>1. \A t \in Tickets : /\ Exposures[t] = Exposed(order[t]) /\ Exposures[t] \in Nat
                           /\ Pnls[t] = order[t].pnl /\ Pnls[t] \in Int /\ Pnls[t] <= 0
                           /\ Stakes[t] = order[t].stake /\ Stakes[t] \in Nat
    BY AmountsTyped DEF CapInv
  <1>2. Lost = -SumOver(lost1, Tickets)
    <2>1. SumOver(Pnls, gone) = SumOver(lost1, Tickets)
      BY <1>1, Finite, SumOverPart
    <2> QED
      BY <2>1 DEF Lost, Sum, SumOver
  <1>3. Sum(Stakes, held) = SumOver(held1, Tickets)
    <2>1. SumOver(Stakes, held) = SumOver(held1, Tickets)
      BY <1>1, Finite, SumOverPart
    <2> QED
      BY <2>1 DEF Sum, SumOver
  <1>4. \A t \in Tickets : /\ lost1[t] \in Int /\ held1[t] \in Int /\ both[t] \in Int
                           /\ both[t] = Exposures[t] + lost1[t] /\ held1[t] <= both[t]
    <2> SUFFICES ASSUME NEW t \in Tickets PROVE held1[t] <= both[t]
      BY <1>1
    <2>1. Coherent(order[t])
      BY DEF CapInv
    <2> QED
      BY <1>1, <2>1 DEF Coherent, Exposed
  <1>5. AtRisk = SumOver(Asks, Unplaced) + SumOver(held1, Tickets)
    BY <1>3 DEF AtRisk, Sum, SumOver, Asks, Unplaced
  <1>6. SumOver(Asks, Unplaced) \in Nat /\ Exposure \in Nat
    BY AmountsTyped DEF CapInv
  <1> HIDE DEF gone, held, lost1, held1, both
  <1>7. SumOver(both, Tickets) = Exposure + SumOver(lost1, Tickets)
    BY <1>1, <1>4, Finite, SumOverPlus DEF Exposure
  <1>8. SumOver(held1, Tickets) <= SumOver(both, Tickets)
    BY <1>4, Finite, SumOverMonotone
  <1>9. SumOver(lost1, Tickets) \in Int /\ SumOver(held1, Tickets) \in Int
    BY <1>4, Finite, SumOverInt
  <1> QED
    BY <1>2, <1>5, <1>6, <1>7, <1>8, <1>9, FundAssumption DEF CapInv

-----------------------------------------------------------------------------
\* At first nothing is exposed.
LEMMA CapInit == Init => CapInv
  <1> SUFFICES ASSUME Init PROVE CapInv
    OBVIOUS
  <1>1. \A t \in Tickets : order[t] = NoOrder
    BY DEF Init
  <1>2. Exposed(NoOrder) = 0 /\ Coherent(NoOrder)
    BY DEF Exposed, Coherent, NoOrder
  <1>3. \A t \in Tickets : Exposures[t] \in Int /\ 1 * Exposures[t] <= 0
    BY <1>1, <1>2 DEF Exposures
  <1>4. 1 * SumOver(Exposures, Tickets) <= Cardinality(Tickets) * 0
    BY <1>3, Finite, SumOverBounded
  <1>5. Exposure <= 0
    <2>1. SumOver(Exposures, Tickets) \in Int
      BY <1>3, Finite, SumOverInt
    <2>2. Cardinality(Tickets) \in Nat
      BY Finite, FS_CardinalityType
    <2> QED
      BY <1>4, <2>1, <2>2 DEF Exposure
  <1>6. Unplaced = {} /\ taken = {}
    BY DEF Init, Unplaced, NoCommand
  <1>7. SumOver(Asks, Unplaced) = 0
    BY <1>6, SumOverEmpty
  <1>8. Exposure \in Int
    BY <1>3, Finite, SumOverInt DEF Exposure
  <1> QED
    BY <1>1, <1>2, <1>5, <1>6, <1>7, <1>8, FundAssumption DEF CapInv

\* What is realised is read off the stopped rows alone.
LEMMA RealisedSame ==
    ASSUME \A t \in Tickets :
               /\ order'[t].row = "stopped_out" <=> order[t].row = "stopped_out"
               /\ order[t].row = "stopped_out" => order'[t].pnl = order[t].pnl
    PROVE  Realised' = Realised
  <1> DEFINE stopped == {t \in Tickets : order[t].row = "stopped_out"}
  <1>1. stopped' = stopped
    OBVIOUS
  <1>2. [t \in stopped |-> Pnls[t]]' = [t \in stopped |-> Pnls[t]]
    BY <1>1 DEF Pnls
  <1> QED
    BY <1>2 DEF Realised, Sum

\* One order changes the exposure by what it changes itself.
LEMMA ExposureMoves ==
    ASSUME TypeInv, TypeInv', \A t \in Tickets : Coherent(order[t]) /\ Coherent(order[t])',
           NEW t \in Tickets, \A u \in Tickets : u # t => order'[u] = order[u]
    PROVE  Exposure' = Exposure - Exposed(order[t]) + Exposed(order'[t])
  <1>1. \A u \in Tickets : Exposures[u] = Exposed(order[u]) /\ Exposures[u] \in Nat
    BY AmountsTyped
  <1>2. \A u \in Tickets : Exposures'[u] = Exposed(order'[u]) /\ Exposures'[u] \in Nat
    <2>1. \A u \in Tickets : Exposed(order'[u]) \in Nat
      BY ExposuresTyped DEF TypeInv, TypeOK
    <2> QED
      BY <2>1 DEF Exposures, Exposed
  <1>3. \A u \in Tickets : u # t => Exposures'[u] = Exposures[u]
    BY <1>1, <1>2
  <1>4. SumOver(Exposures', Tickets) = SumOver(Exposures, Tickets) - Exposures[t] + Exposures'[t]
    BY <1>1, <1>2, <1>3, Finite, SumOverChanged
  <1> QED
    BY <1>1, <1>2, <1>4 DEF Exposure

\* A step of broker or book that exposes no more, and books no result while a batch is in hand.
LEMMA CapEases ==
    ASSUME TypeInv, TypeInv', CapInv, \A t \in Tickets : Coherent(order[t])',
           UNCHANGED <<command, taken>>, Exposure' <= Exposure,
           taken = {} \/ Realised' = Realised
    PROVE  CapInv' /\ Committed' <= Committed
  <1>1. /\ \A s \in Signals : Asks[s] \in Nat
        /\ Exposure \in Nat /\ InHand \in Nat /\ Spare \in Int
    BY AmountsTyped DEF CapInv
  <1>2. Exposure' \in Nat
    BY ExposuresTyped DEF TypeInv, TypeOK, Exposure, Exposures, Exposed
  <1>3. Asks' = Asks /\ Unplaced' = Unplaced /\ InHand' = InHand
    BY DEF Asks, Unplaced, InHand
  <1>4. Spare' \in Int /\ Spare <= Spare'
    <2>1. Spare = Cap - Exposure - InHand /\ Spare' = Cap - Exposure' - InHand'
      BY DEF Spare
    <2>2. Cap \in Nat
      BY FundAssumption
    <2>3. Exposure' <= Exposure
      OBVIOUS
    <2>4. Spare' \in Int
      BY <1>1, <1>2, <1>3, <2>1, <2>2
    <2>5. Spare <= Spare'
      <3>1. \A e, f, i \in Nat : e <= f => Cap - f - i <= Cap - e - i
        BY <2>2
      <3>2. Cap - Exposure - InHand <= Cap - Exposure' - InHand
        BY <1>1, <1>2, <2>3, <3>1
      <3> QED
        BY <1>3, <2>1, <3>2
    <2> QED
      BY <2>4, <2>5
  <1>5. Exposure' + SumOver(Asks, Unplaced)' <= Cap
    <2>1. SumOver(Asks, Unplaced) \in Nat /\ SumOver(Asks, Unplaced)' = SumOver(Asks, Unplaced)
      BY <1>3, AmountsTyped DEF CapInv, SumOver
    <2> QED
      BY <1>1, <1>2, <2>1, FundAssumption DEF CapInv
  <1>7. Committed' <= Committed
    <2>1. SumOver(Asks, Unplaced) \in Nat /\ SumOver(Asks, Unplaced)' = SumOver(Asks, Unplaced)
      BY <1>3, AmountsTyped DEF CapInv, SumOver
    <2> QED
      BY <1>1, <1>2, <2>1 DEF Committed
  <1>6. ASSUME NEW s \in (Unplaced \ taken)'
        PROVE  100 * command'[s].stake <= Percent * Spare'
    <2>1. /\ s \in Unplaced \ taken /\ Asks[s] \in Nat
          /\ command'[s].stake = Asks[s] /\ command[s].stake = Asks[s]
      BY <1>1, <1>3 DEF Unplaced, Asks, TypeInv, TypeOK
    <2>2. /\ Percent * Spare \in Int /\ Percent * Spare' \in Int
          /\ Percent * Spare <= Percent * Spare'
      BY <1>1, <1>4, FactorGrows, FundAssumption
    <2> QED
      BY <2>1, <2>2 DEF CapInv
  <1> QED
    BY <1>5, <1>6, <1>7 DEF CapInv

\* A command leaves the terminal's hands, or the queue: at most its stake becomes exposed.
LEMMA CapDrops ==
    ASSUME TypeInv, TypeInv', CapInv, \A t \in Tickets : Coherent(order[t])',
           NEW s \in Signals, taken' = taken \ {s},
           \A r \in Signals : command'[r].stake = command[r].stake,
           \A r \in Signals : r # s => command'[r] = command[r],
           command'[s].status # "pending", Realised' = Realised,
           Exposure' <= Exposure + IF s \in taken THEN command[s].stake ELSE 0
    PROVE  CapInv' /\ Committed' <= Committed
  <1> DEFINE b == command[s].stake
  <1>1. /\ \A S \in SUBSET Signals : SumOver(Asks, S) \in Nat /\ IsFiniteSet(S)
        /\ \A r \in Signals : Asks[r] = command[r].stake /\ Asks[r] \in Nat
        /\ Exposure \in Nat /\ InHand \in Nat /\ Spare \in Int
        /\ Unplaced \in SUBSET Signals /\ taken \in SUBSET Signals
    BY AmountsTyped, Finite DEF CapInv
  <1>2. Exposure' \in Nat
    BY ExposuresTyped DEF TypeInv, TypeOK, Exposure, Exposures, Exposed
  <1>3. Asks' = Asks /\ Unplaced' = Unplaced \ {s}
    BY DEF Asks, Unplaced
  <1>4. InHand' = IF s \in taken THEN InHand - b ELSE InHand
    <2>1. InHand' = SumOver(Asks, taken \ {s})
      BY <1>3 DEF InHand, SumOver
    <2>2. CASE s \in taken
      <3>1. InHand = Asks[s] + SumOver(Asks, taken \ {s})
        BY <1>1, <2>2, SumOverWithout DEF InHand
      <3> QED
        BY <1>1, <2>1, <2>2, <3>1
    <2>3. CASE s \notin taken
      <3>1. taken \ {s} = taken
        BY <2>3
      <3> QED
        BY <2>1, <2>3, <3>1 DEF InHand
    <2> QED
      BY <2>2, <2>3
  <1> DEFINE out == SumOver(Asks, Unplaced)
             out1 == SumOver(Asks, Unplaced \ {s})
  <1>5. SumOver(Asks, Unplaced)' = out1 /\ out \in Nat /\ out1 \in Nat
    <2>1. Unplaced \ {s} \in SUBSET Signals
      BY <1>1
    <2> QED
      BY <1>1, <1>3, <2>1 DEF SumOver
  <1>6. out1 <= out /\ (s \in taken => out1 = out - b)
    <2>1. CASE s \in Unplaced
      <3>1. out = Asks[s] + out1
        BY <1>1, <2>1, SumOverWithout
      <3> QED
        BY <1>1, <1>5, <3>1
    <2>2. CASE s \notin Unplaced
      <3>1. Unplaced \ {s} = Unplaced /\ s \notin taken
        BY <2>2 DEF Unplaced
      <3>2. out1 = out
        BY <3>1, Zenon
      <3> QED
        BY <1>5, <3>1, <3>2
    <2> QED
      BY <2>1, <2>2
  <1>7. b \in Nat /\ Cap \in Nat
    BY <1>1, FundAssumption
  <1> HIDE DEF b, out, out1
  <1>8. Exposure' + SumOver(Asks, Unplaced)' <= Cap
    <2>1. Exposure + out <= Cap
      BY DEF CapInv, out
    <2>2. Exposure' <= Exposure + IF s \in taken THEN b ELSE 0
      BY DEF b
    <2>3. \A e, f, o, p \in Nat :
              /\ f <= e + (IF s \in taken THEN b ELSE 0) /\ e + o <= Cap
              /\ p <= o /\ (s \in taken => p = o - b)
              => f + p <= Cap
      BY <1>7
    <2>4. Exposure' + out1 <= Cap
      BY <1>1, <1>2, <1>5, <1>6, <2>1, <2>2, <2>3
    <2> QED
      BY <1>5, <2>4
  <1>12. Committed' <= Committed
    <2>1. Exposure' <= Exposure + IF s \in taken THEN b ELSE 0
      BY DEF b
    <2>2. \A e, f, o, p \in Nat :
              /\ f <= e + (IF s \in taken THEN b ELSE 0)
              /\ p <= o /\ (s \in taken => p = o - b)
              => f + p <= e + o
      BY <1>7
    <2>3. Exposure' + out1 <= Exposure + out
      BY <1>1, <1>2, <1>5, <1>6, <2>1, <2>2
    <2> QED
      BY <1>5, <2>3 DEF Committed, out
  <1>9. Spare' \in Int /\ Spare <= Spare'
    <2>1. Spare = Cap - Exposure - InHand /\ Spare' = Cap - Exposure' - InHand'
      BY DEF Spare
    <2>2. Exposure' <= Exposure + IF s \in taken THEN b ELSE 0
      BY DEF b
    <2>3. \A e, f, h \in Nat : f <= e + (IF s \in taken THEN b ELSE 0)
              => Cap - e - h <= Cap - f - (IF s \in taken THEN h - b ELSE h)
      BY <1>7
    <2>4. Cap - Exposure - InHand
            <= Cap - Exposure' - (IF s \in taken THEN InHand - b ELSE InHand)
      BY <1>1, <1>2, <2>2, <2>3
    <2>5. InHand' = (IF s \in taken THEN InHand - b ELSE InHand)
      BY <1>4 DEF b
    <2>6. Spare <= Spare'
      BY <2>1, <2>4, <2>5
    <2>7. Spare' \in Int
      BY <1>1, <1>2, <1>7, <2>1, <2>5
    <2> QED
      BY <2>6, <2>7
  <1>10. ASSUME NEW r \in (Unplaced \ taken)'
         PROVE  100 * command'[r].stake <= Percent * Spare'
    <2>1. /\ r \in Unplaced \ taken /\ Asks[r] \in Nat
          /\ command'[r].stake = Asks[r] /\ command[r].stake = Asks[r]
      BY <1>1, <1>3 DEF Unplaced
    <2>2. /\ Percent * Spare \in Int /\ Percent * Spare' \in Int
          /\ Percent * Spare <= Percent * Spare'
      BY <1>1, <1>9, FactorGrows, FundAssumption
    <2> QED
      BY <2>1, <2>2 DEF CapInv
  <1>11. \A r \in taken' : /\ command'[r].status = "claimed"
                           /\ 100 * command'[r].stake <= Percent * (Cap + Realised')
    BY <1>1 DEF CapInv
  <1> QED
    BY <1>8, <1>10, <1>11, <1>12 DEF CapInv

\* A poll takes all that is pending; until the batch is worked off nothing is booked.
LEMMA CapPoll ==
    ASSUME TypeInv, TypeInv', CapInv, Poll
    PROVE  CapInv' /\ Committed' <= Committed
  <1>1. /\ \A S \in SUBSET Signals : SumOver(Asks, S) \in Nat /\ IsFiniteSet(S)
        /\ \A r \in Signals : Asks[r] = command[r].stake /\ Asks[r] \in Nat
        /\ Exposure \in Nat /\ Unplaced \in SUBSET Signals
    BY AmountsTyped, Finite DEF CapInv
  <1>2. /\ UNCHANGED order /\ taken = {} /\ (taken' = Pending \/ taken' = {})
        /\ \A r \in Signals : /\ command'[r].stake = command[r].stake
                              /\ command'[r].status # "pending"
                              /\ r \in Pending => command'[r].status = "claimed"
    BY DEF Poll, BetweenBatches, TypeInv, TypeOK, Command, Pending
  <1>3. Unplaced = Pending /\ Unplaced' = taken' /\ Pending \in SUBSET Signals
    BY <1>2 DEF Unplaced, Pending
  <1>4. Asks' = Asks /\ Exposure' = Exposure /\ Realised' = Realised
    BY <1>2 DEF Asks, Exposure, Exposures, Realised, Pnls
  <1>5. SumOver(Asks, Unplaced)' = SumOver(Asks, taken')
    BY <1>3, <1>4 DEF SumOver
  <1>6. Exposure' + SumOver(Asks, Unplaced)' <= Cap
    <2>1. CASE taken' = Pending
      BY <1>3, <1>4, <1>5, <2>1 DEF CapInv
    <2>2. CASE taken' = {}
      <3>1. SumOver(Asks, {}) = 0 /\ SumOver(Asks, Unplaced) \in Nat
        BY <1>1, SumOverEmpty
      <3> QED
        BY <1>1, <1>4, <1>5, <2>2, <3>1, FundAssumption DEF CapInv
    <2> QED
      BY <1>2, <2>1, <2>2
  <1>8. Committed' <= Committed
    <2>1. CASE taken' = Pending
      BY <1>1, <1>3, <1>4, <1>5, <2>1 DEF Committed
    <2>2. CASE taken' = {}
      <3>1. SumOver(Asks, {}) = 0 /\ SumOver(Asks, Unplaced) \in Nat
        BY <1>1, SumOverEmpty
      <3> QED
        BY <1>1, <1>4, <1>5, <2>2, <3>1 DEF Committed
    <2> QED
      BY <1>2, <2>1, <2>2
  <1>7. ASSUME NEW r \in Pending
        PROVE  100 * command[r].stake <= Percent * (Cap + Realised)
    <2>1. InHand = 0
      BY <1>2, SumOverEmpty DEF InHand
    <2>2. /\ 100 * command[r].stake <= Percent * Spare
          /\ command[r].stake \in Nat
      BY <1>1, <1>2, <1>3, <1>7 DEF CapInv
    <2>3. Realised \in Int /\ 0 <= Exposure + Realised
      BY LossesExposed DEF CapInv
    <2>4. Spare \in Int /\ Cap + Realised \in Int /\ Spare <= Cap + Realised
      BY <1>1, <2>1, <2>3, FundAssumption DEF Spare
    <2>5. /\ Percent * Spare <= Percent * (Cap + Realised)
          /\ Percent * Spare \in Int /\ Percent * (Cap + Realised) \in Int
      BY <2>4, FactorGrows, FundAssumption
    <2> QED
      BY <2>2, <2>5
  <1> QED
    BY <1>2, <1>3, <1>4, <1>6, <1>7, <1>8 DEF CapInv

\* A signal is sized from what the books leave: they show all that is exposed, and the charge
\* for the entries in flight covers all that is still to be placed.
LEMMA CapSize ==
    ASSUME OnlyStopsLose, TypeInv, CapInv, NEW w \in Workers, Size(w)
    PROVE  /\ 100 * Stake(First(w).of) <= Percent * (Cap - Committed)
           /\ Stake(First(w).of) <= Cap - Committed
  <1> DEFINE c       == First(w)
             s       == c.of
             b       == Stake(s)
             n       == Cardinality(InFlight)
             unspent == Unspent(Realised)
             booked  == Sum(Stakes, Booked)
             charge  == n * unspent * Percent
             percent == IF Override[s] > 0 THEN Override[s] ELSE Percent
             out     == SumOver(Asks, Unplaced)
  <1>1. /\ \A S \in SUBSET Signals : SumOver(Asks, S) \in Nat /\ IsFiniteSet(S)
        /\ \A r \in Signals : Asks[r] = command[r].stake /\ Asks[r] \in Nat
        /\ Exposure \in Nat /\ InHand \in Nat /\ Spare \in Int /\ out \in Nat
        /\ Unplaced \in SUBSET Signals /\ taken \in SUBSET Signals
    BY AmountsTyped, Finite DEF CapInv
  <1>2. s \in Signals
    BY FirstOfThem DEF Size, Copy
  <1>3. /\ booked \in Nat /\ n \in Nat /\ b \in 0..Cap /\ b > 0
        /\ Left \in Nat /\ Left <= 100 * Cap
    BY <1>2, FundTyped DEF Size
  <1>4. /\ Realised \in Int /\ Cap + Realised \in Nat /\ unspent = Cap + Realised
        /\ Cap - Exposure = unspent - booked
    <2>1. Unreported = {}
      BY DEF Size, OnlyStopsLose
    <2>2. Realised \in Int /\ 0 <= Exposure + Realised /\ Exposure + Realised = booked
      BY <2>1, LossesExposed DEF CapInv
    <2>3. Exposure <= Cap
      BY <1>1, FundAssumption DEF CapInv
    <2>4. Cap + Realised \in Nat
      BY <1>1, <2>2, <2>3, FundAssumption
    <2>5. unspent = Cap + Realised
      BY <2>4 DEF Unspent, NotBelowZero
    <2> QED
      BY <1>1, <1>3, <2>2, <2>4, <2>5, FundAssumption
  <1>5. percent \in 0..Percent /\ Percent \in 0..100
    <2>1. Override[s] \in 0..100 /\ Override[s] <= Percent
      BY <1>2, OverrideBounded DEF OnlyStopsLose
    <2> QED
      BY <2>1, PercentBounded
  <1>6. 10000 * b <= NotBelowZero(100 * (unspent - booked) - charge) * percent
    <2>1. Left = NotBelowZero(100 * (unspent - booked) - charge)
      BY DEF Left, Remaining
    <2>2. b = Risk(Left, percent)
      BY DEF Stake
    <2>3. 10000 * Risk(Left, percent) <= Left * percent
      <3>1. percent \in 0..100
        BY <1>5
      <3> HIDE DEF percent
      <3> QED
        BY <1>3, <3>1, RiskBounded
    <2> QED
      BY <2>1, <2>2, <2>3
  <1>7. charge \in Nat /\ 100 * InHand <= charge /\ 100 * out <= charge
    <2> DEFINE share == Percent * unspent
    <2>1. share \in Nat
      BY <1>4, <1>5
    <2>2. ASSUME NEW r \in Unplaced
          PROVE  100 * Asks[r] <= share
      <3>1. CASE r \in taken
        BY <1>1, <1>4, <3>1 DEF CapInv
      <3>2. CASE r \notin taken
        <4>1. Spare <= unspent
          <5>1. 0 <= Exposure + Realised
            BY LossesExposed DEF CapInv
          <5> QED
            BY <1>1, <1>4, <5>1, FundAssumption DEF Spare
        <4>2. Percent * Spare <= share /\ Percent * Spare \in Int
          BY <1>1, <1>4, <1>5, <4>1, FactorGrows
        <4>3. 100 * Asks[r] <= Percent * Spare
          BY <1>1, <2>2, <3>2 DEF CapInv
        <4> QED
          BY <1>1, <2>1, <2>2, <4>2, <4>3
      <3> QED
        BY <3>1, <3>2
    <2>3. ASSUME NEW S \in SUBSET Unplaced
          PROVE  100 * SumOver(Asks, S) <= n * share
      <3> HIDE DEF share, n
      <3>1. 100 * SumOver(Asks, S) <= Cardinality(S) * share
        BY <1>1, <2>1, <2>2, FS_Subset, SumOverBounded
      <3>2. S \subseteq InFlight
        BY <1>1 DEF Unplaced, InFlight, CapInv
      <3>3. Cardinality(S) <= n /\ Cardinality(S) \in Nat
        BY <3>2, Finite, FS_Subset, FS_CardinalityType DEF InFlight, n
      <3>4. /\ Cardinality(S) * share <= n * share
            /\ Cardinality(S) * share \in Nat /\ n * share \in Nat
        BY <1>3, <2>1, <3>3, ProductGrows DEF n
      <3>5. SumOver(Asks, S) \in Nat
        BY <1>1
      <3> QED
        BY <3>1, <3>4, <3>5
    <2>4. n * share = charge /\ n * share \in Nat
      <3>1. \A i, j, k \in Nat : i * (k * j) = i * j * k /\ i * j * k \in Nat
        OBVIOUS
      <3> QED
        BY <1>3, <1>4, <1>5, <3>1
    <2>5. taken \subseteq Unplaced
      BY <1>1 DEF Unplaced
    <2> QED
      BY <2>3, <2>4, <2>5 DEF InHand
  <1> HIDE DEF c, s, b, n, unspent, booked, charge, percent, out
  <1>8. /\ booked \in Nat /\ charge \in Nat /\ unspent \in Nat /\ b \in Nat /\ b > 0
        /\ InHand \in Nat /\ out \in Nat /\ Percent \in 0..100 /\ percent \in 0..Percent
    BY <1>1, <1>3, <1>4, <1>5, <1>7
  <1>9. /\ 100 * b <= Percent * (unspent - booked - out)
        /\ out + b <= unspent - booked
    <2>1. Sized(b, percent, unspent, booked, charge, out)
      BY <1>6, <1>7 DEF Sized
    <2> QED
      BY <1>8, <2>1, ChargesSuffice
  <1>10. Cap - Committed = unspent - booked - out
    <2>1. Committed = Exposure + out
      BY DEF Committed, out
    <2> HIDE DEF Committed
    <2> QED
      BY <1>1, <1>4, <1>8, <2>1, FundAssumption
  <1>11. b <= Cap - Committed
    BY <1>8, <1>9, <1>10
  <1> QED
    BY <1>9, <1>10, <1>11 DEF b, s, c

\* What was free when it was sized is free when it is asked for.
LEMMA CapExecute ==
    ASSUME OnlyStopsLose, TypeInv, TypeInv', CapInv, Promises, NEW w \in Workers, Execute(w)
    PROVE  CapInv'
  <1> DEFINE c   == First(w)
             s   == c.of
             b   == sized[w]
             out == SumOver(Asks, Unplaced)
  <1>1. /\ \A S \in SUBSET Signals : SumOver(Asks, S) \in Nat /\ IsFiniteSet(S)
        /\ \A r \in Signals : Asks[r] = command[r].stake /\ Asks[r] \in Nat
        /\ Exposure \in Nat /\ InHand \in Nat /\ Spare \in Int /\ out \in Nat
        /\ Unplaced \in SUBSET Signals /\ taken \in SUBSET Signals
    BY AmountsTyped, Finite DEF CapInv
  <1>2. s \in Signals
    BY FirstOfThem DEF Execute, Copy
  <1>3. b \in Nat /\ b > 0 /\ w \in Executors
    BY FundAssumption DEF Execute, TypeInv, TypeOK
  <1>8. out \in Nat /\ b \in Nat
    BY <1>1, <1>3
  <1>4. 100 * b <= Percent * (Cap - (Exposure + out)) /\ b <= Cap - (Exposure + out)
    BY <1>3 DEF Promises, Committed
  <1>5. InHand <= out
    <2>1. taken \subseteq Unplaced /\ \A r \in Unplaced : Asks[r] \in Nat
      BY <1>1 DEF Unplaced
    <2> QED
      BY <1>1, <2>1, SumOverSubset DEF InHand
  <1> HIDE DEF b, out, s, c
  <1>6. 100 * b <= Percent * Spare
    <2>1. Cap - (Exposure + out) <= Spare /\ Cap - (Exposure + out) \in Int
      BY <1>1, <1>5, FundAssumption DEF Spare
    <2>2. /\ Percent * (Cap - (Exposure + out)) <= Percent * Spare
          /\ Percent * (Cap - (Exposure + out)) \in Int /\ Percent * Spare \in Int
      BY <1>1, <2>1, FactorGrows, FundAssumption
    <2> QED
      BY <1>3, <1>4, <2>2
  <1>11. PICK asked \in Enqueued(c, b) : command' = [command EXCEPT ![s] = asked]
    BY DEF Execute, c, s, b
  <1>12. UNCHANGED <<taken, order>>
    BY DEF Execute
  <1>13. /\ Exposure' = Exposure /\ Realised' = Realised
         /\ \A t \in Tickets : Coherent(order[t])'
    BY <1>12 DEF Exposure, Exposures, Realised, Pnls, CapInv, Coherent
  <1>14. s \in Signals /\ \A r \in Signals : r # s => command'[r] = command[r]
    BY <1>2, <1>11 DEF TypeInv, TypeOK
  <1>15. CASE command' = command
    BY <1>12, <1>13, <1>15, CapEases, <1>1
  <1>16. CASE command' # command
    <2>1. /\ command[s].status \in {"absent", "expired", "failed"}
          /\ command'[s] = Asked(c, b)
      <3>1. command'[s] = asked /\ command \in [Signals -> Command]
        BY <1>11, <1>14 DEF TypeInv, TypeOK
      <3>2. asked # command[s]
        BY <1>11, <1>16, <3>1
      <3> QED
        BY <3>1, <3>2, <1>11 DEF Enqueued, s
    <2>2. /\ s \notin taken /\ s \notin Unplaced
          /\ command'[s].status = "pending" /\ command'[s].stake = b
      BY <2>1 DEF CapInv, Unplaced, Asked
    <2>3. Unplaced' = Unplaced \union {s} /\ taken' = taken
      BY <1>12, <1>14, <2>2 DEF Unplaced
    <2>4. Asks'[s] = b /\ \A r \in Signals : r # s => Asks'[r] = Asks[r]
      BY <1>14, <2>2 DEF Asks
    <2>5. InHand' = InHand
      <3>1. SumOver(Asks', taken) = SumOver(Asks, taken)
        BY <1>1, <2>2, <2>4, SumOverEqual
      <3> QED
        BY <2>3, <3>1 DEF InHand, SumOver
    <2>6. SumOver(Asks, Unplaced)' = out + b
      <3> DEFINE more == Unplaced \union {s}
      <3>1. /\ more \in SUBSET Signals /\ s \in more /\ more \ {s} = Unplaced
            /\ \A r \in more : Asks'[r] \in Int
        BY <1>1, <1>3, <1>14, <2>2, <2>4
      <3> HIDE DEF more
      <3>2. SumOver(Asks', more) = Asks'[s] + SumOver(Asks', more \ {s})
        BY <1>1, <3>1, SumOverWithout
      <3>3. SumOver(Asks', Unplaced) = out
        BY <1>1, <2>2, <2>4, SumOverEqual DEF out
      <3>4. SumOver(Asks, Unplaced)' = SumOver(Asks', more)
        BY <2>3 DEF SumOver, more
      <3> QED
        BY <1>8, <2>4, <3>1, <3>2, <3>3, <3>4
    <2>7. Exposure' + SumOver(Asks, Unplaced)' <= Cap
      <3>1. Exposure + (out + b) <= Cap
        BY <1>1, <1>3, <1>4, FundAssumption
      <3> QED
        BY <1>13, <2>6, <3>1
    <2>8. Spare' = Spare
      <3>1. Spare = Cap - Exposure - InHand /\ Spare' = Cap - Exposure' - InHand'
        BY DEF Spare
      <3> QED
        BY <1>13, <2>5, <3>1
    <2>9. ASSUME NEW r \in (Unplaced \ taken)'
          PROVE  100 * command'[r].stake <= Percent * Spare'
      <3>1. CASE r = s
        BY <1>6, <2>2, <2>8, <3>1
      <3>2. CASE r # s
        <4>1. r \in Unplaced \ taken /\ command'[r] = command[r]
          BY <1>1, <1>14, <2>3, <2>9, <3>2
        <4> QED
          BY <2>8, <4>1 DEF CapInv
      <3> QED
        BY <3>1, <3>2
    <2>10. \A r \in taken' : command'[r] = command[r] /\ r \in taken
      BY <1>1, <1>14, <2>2, <2>3
    <2> QED
      BY <1>13, <2>7, <2>9, <2>10 DEF CapInv
  <1> QED
    BY <1>15, <1>16

\* What was asked for becomes a position of the same stake.
LEMMA CapPlace ==
    ASSUME OnlyStopsLose, TypeInv, TypeInv', CapInv, NEW s \in Signals, Place(s)
    PROVE  CapInv' /\ Committed' <= Committed
  <1> DEFINE placed == [NoOrder EXCEPT !.stage = IF s \in AtLevel THEN "resting" ELSE "held",
                                       !.levels = command[s].levels, !.stake = command[s].stake]
  <1>1. PICK n \in 1..MaxOrders : /\ order[<<s, n>>].stage = "none"
                                  /\ order' = [order EXCEPT ![<<s, n>>] = placed]
    BY DEF Place
  <1>2. /\ placed.stage = "held" /\ placed.stake = command[s].stake
        /\ placed.pnl = 0 /\ placed.row = "absent"
    <2> DEFINE staged  == [NoOrder EXCEPT !.stage = IF s \in AtLevel THEN "resting" ELSE "held"]
               leveled == [staged EXCEPT !.levels = command[s].levels]
    <2>1. /\ DOMAIN NoOrder = {"stage", "levels", "stake", "pnl", "stop", "row"}
          /\ NoOrder.pnl = 0 /\ NoOrder.row = "absent"
      BY DEF NoOrder
    <2>2. /\ DOMAIN staged = {"stage", "levels", "stake", "pnl", "stop", "row"}
          /\ staged.stage = "held" /\ staged.pnl = 0 /\ staged.row = "absent"
      BY <2>1 DEF OnlyStopsLose
    <2> HIDE DEF staged
    <2>3. /\ DOMAIN leveled = {"stage", "levels", "stake", "pnl", "stop", "row"}
          /\ leveled.stage = "held" /\ leveled.pnl = 0 /\ leveled.row = "absent"
      BY <2>2
    <2> HIDE DEF leveled
    <2>4. /\ [leveled EXCEPT !.stake = command[s].stake].stage = "held"
          /\ [leveled EXCEPT !.stake = command[s].stake].stake = command[s].stake
          /\ [leveled EXCEPT !.stake = command[s].stake].pnl = 0
          /\ [leveled EXCEPT !.stake = command[s].stake].row = "absent"
      BY <2>3
    <2> QED
      BY <2>4 DEF leveled, staged
  <1> HIDE DEF placed
  <1> DEFINE t == <<s, n>>
  <1>3. t \in Tickets
    BY DEF Tickets
  <1>4. order'[t] = placed /\ \A u \in Tickets : u # t => order'[u] = order[u]
    BY <1>1, <1>3 DEF TypeInv, TypeOK
  <1>5. Coherent(order[t]) /\ order[t].stage = "none"
    BY <1>1, <1>3 DEF CapInv
  <1> HIDE DEF t
  <1>6. command[s].stake \in Nat /\ order[t].pnl = 0
    BY <1>5, FundAssumption DEF TypeInv, TypeOK, Command, Coherent
  <1>7. \A u \in Tickets : Coherent(order[u]) /\ Coherent(order[u])'
    <2>1. Coherent(placed)
      BY <1>2, <1>6 DEF Coherent
    <2> QED
      BY <1>4, <2>1 DEF CapInv, Coherent
  <1>8. order[t].row = "absent"
    <2>1. order[t].row \in {"absent", "open", "stopped_out", "fully_closed"}
      BY <1>3 DEF TypeInv, TypeOK, Order
    <2> QED
      BY <1>5, <2>1 DEF Coherent
  <1>9. Exposed(order[t]) = 0 /\ Exposed(order'[t]) = command[s].stake
    BY <1>2, <1>4, <1>5, <1>8 DEF Exposed
  <1>10. Exposure' = Exposure + command[s].stake
    <2>1. Exposure' = Exposure - Exposed(order[t]) + Exposed(order'[t])
      BY <1>3, <1>4, <1>7, ExposureMoves
    <2>2. Exposure \in Nat
      BY <1>7, AmountsTyped
    <2> QED
      BY <1>6, <1>9, <2>1, <2>2
  <1>11. Realised' = Realised
    BY <1>2, <1>4, <1>8, RealisedSame
  <1>12. /\ s \in taken /\ taken' = taken \ {s}
         /\ \A r \in Signals : command'[r].stake = command[r].stake
         /\ \A r \in Signals : r # s => command'[r] = command[r]
         /\ command'[s].status # "pending"
    <2>1. command \in [Signals -> Command] /\ s \in taken /\ command[s].status = "claimed"
      BY DEF Place, TypeInv, TypeOK, CapInv
    <2>2. Status(s, "done") \/ UNCHANGED command
      BY DEF Place
    <2> QED
      BY <2>1, <2>2 DEF Place, Status, Command
  <1>13. Exposure' <= Exposure + IF s \in taken THEN command[s].stake ELSE 0
    <2>1. Exposure \in Nat
      BY <1>7, AmountsTyped
    <2>2. \A e, b \in Nat : e + b <= e + b
      OBVIOUS
    <2> QED
      BY <1>6, <1>10, <1>12, <2>1, <2>2
  <1> QED
    BY <1>7, <1>11, <1>12, <1>13, CapDrops

\* An order the broker refuses, and one that expires, are asked for no more.
LEMMA CapRefuse ==
    ASSUME OnlyStopsLose, TypeInv, TypeInv', CapInv, NEW s \in Signals, Refuse(s) \/ Expire(s)
    PROVE  CapInv' /\ Committed' <= Committed
  <1>1. UNCHANGED order
    BY DEF Refuse, Expire
  <1>2. taken' = taken \ {s}
    <2>1. CASE Refuse(s)
      BY <2>1 DEF Refuse
    <2>2. CASE Expire(s)
      BY <2>2 DEF Expire, OnlyStopsLose
    <2> QED
      BY <2>1, <2>2
  <1>3. Exposure' = Exposure /\ Realised' = Realised /\ \A t \in Tickets : Coherent(order[t])'
    BY <1>1 DEF Exposure, Exposures, Realised, Pnls, CapInv, Coherent
  <1>4. /\ \A r \in Signals : command'[r].stake = command[r].stake
        /\ \A r \in Signals : r # s => command'[r] = command[r]
        /\ command'[s].status # "pending"
    <2>1. command \in [Signals -> Command]
      BY DEF TypeInv, TypeOK
    <2>2. Status(s, "failed") \/ Status(s, "expired")
      BY DEF Refuse, Expire
    <2> QED
      BY <2>1, <2>2 DEF Status, Command
  <1>5. Exposure' <= Exposure + IF s \in taken THEN command[s].stake ELSE 0
    <2>1. Exposure \in Nat /\ command[s].stake \in Nat
      BY AmountsTyped DEF CapInv
    <2>2. \A e, b \in Nat : e <= e + (IF s \in taken THEN b ELSE 0)
      OBVIOUS
    <2> QED
      BY <1>3, <2>1, <2>2
  <1> QED
    BY <1>2, <1>3, <1>4, <1>5, CapDrops

\* A position that closes, and the rows written for it: what is exposed is the same until its
\* result is booked, and then no more.
LEMMA CapBooks ==
    ASSUME OnlyStopsLose, TypeInv, TypeInv', CapInv, NEW t \in Tickets, NEW o,
           order' = [order EXCEPT ![t] = o], Coherent(o), Exposed(o) <= Exposed(order[t]),
           UNCHANGED <<command, taken>>,
           \/ taken = {}
           \/ order[t].row # "stopped_out" /\ o.row # "stopped_out"
    PROVE  CapInv' /\ Committed' <= Committed
  <1>1. order'[t] = o /\ \A u \in Tickets : u # t => order'[u] = order[u]
    BY DEF TypeInv, TypeOK
  <1>2. \A u \in Tickets : Coherent(order[u]) /\ Coherent(order[u])'
    BY <1>1 DEF CapInv, Coherent
  <1>3. Exposure' <= Exposure
    <2>1. Exposure' = Exposure - Exposed(order[t]) + Exposed(order'[t])
      BY <1>1, <1>2, ExposureMoves
    <2>2. Exposed(order[t]) \in Nat /\ Exposed(order'[t]) \in Nat
      BY ExposuresTyped DEF TypeInv, TypeOK
    <2>3. Exposure \in Nat
      BY <1>2, AmountsTyped
    <2>4. \A e, x, y \in Nat : y <= x => e - x + y <= e
      OBVIOUS
    <2> QED
      BY <1>1, <2>1, <2>2, <2>3, <2>4
  <1>4. taken = {} \/ Realised' = Realised
    BY <1>1, RealisedSame
  <1> QED
    BY <1>2, <1>3, <1>4, CapEases

\* Each step of the broker and the book exposes no more.
LEMMA CapBroker ==
    ASSUME OnlyStopsLose, TypeInv, TypeInv', CapInv, NEW t \in Tickets,
           \/ Fill(t) \/ Retire(t) \/ RecordOpen(t) \/ RecordClose(t)
           \/ \E stop \in BOOLEAN : \E pnl \in {0, -order[t].stake} : Close(t, stop, pnl)
    PROVE  CapInv' /\ Committed' <= Committed
  <1>1. order[t] \in Order /\ Coherent(order[t])
    BY DEF TypeInv, TypeOK, CapInv
  <1>2. order[t].stake \in Nat /\ order[t].pnl \in Int /\ order[t].pnl <= 0
    BY <1>1, FundAssumption DEF Order, TypeInv
  <1>3. ~Fill(t) /\ ~Retire(t)
    BY <1>1 DEF Fill, Retire, At, Coherent
  <1>4. CASE RecordOpen(t)
    <2> DEFINE o == [order[t] EXCEPT !.row = "open"]
    <2>1. order[t].stage \in {"held", "gone"} /\ order[t].row = "absent"
      BY <1>4 DEF RecordOpen, Unreported
    <2>2. /\ o.stage = order[t].stage /\ o.row = "open" /\ o.pnl = order[t].pnl
          /\ o.stop = order[t].stop /\ o.stake = order[t].stake
      BY <1>1 DEF Order
    <2>3. order' = [order EXCEPT ![t] = o] /\ UNCHANGED <<command, taken>>
      BY <1>4 DEF RecordOpen
    <2> HIDE DEF o
    <2>4. Coherent(o) /\ Exposed(o) <= Exposed(order[t])
      BY <1>1, <1>2, <2>1, <2>2 DEF Coherent, Exposed
    <2> QED
      BY <2>1, <2>2, <2>3, <2>4, CapBooks
  <1>5. CASE RecordClose(t)
    <2> DEFINE row == IF order[t].stop THEN "stopped_out" ELSE "fully_closed"
               o   == [order[t] EXCEPT !.row = row]
    <2>1. order[t].stage = "gone" /\ order[t].row = "open" /\ taken = {}
      BY <1>5 DEF RecordClose, At, BetweenBatches
    <2>2. /\ o.stage = order[t].stage /\ o.row = row /\ o.pnl = order[t].pnl
          /\ o.stop = order[t].stop /\ o.stake = order[t].stake
      BY <1>1 DEF Order
    <2>3. order' = [order EXCEPT ![t] = o] /\ UNCHANGED <<command, taken>>
      BY <1>5 DEF RecordClose, rows
    <2> HIDE DEF o
    <2>4. Coherent(o) /\ Exposed(o) <= Exposed(order[t])
      BY <1>1, <1>2, <2>1, <2>2 DEF Coherent, Exposed
    <2> QED
      BY <2>1, <2>3, <2>4, CapBooks
  <1>6. ASSUME NEW stop \in BOOLEAN, NEW pnl \in {0, -order[t].stake}, Close(t, stop, pnl)
        PROVE  CapInv' /\ Committed' <= Committed
    <2> DEFINE o == [order[t] EXCEPT !.stage = "gone", !.stop = stop, !.pnl = pnl]
    <2>1. order[t].stage = "held" /\ (stop \/ pnl = 0) /\ pnl \in Int /\ -pnl <= order[t].stake
      <3>1. /\ order[t].stage = "held" /\ ~ByHand
            /\ pnl \in {0} \union (IF stop \/ ByHand THEN {-order[t].stake} ELSE {})
        BY <1>6 DEF Close, At, OnlyStopsLose
      <3>2. CASE pnl = 0
        BY <1>2, <3>1, <3>2
      <3>3. CASE pnl = -order[t].stake /\ stop
        BY <1>2, <3>1, <3>3
      <3> QED
        BY <3>1, <3>2, <3>3
    <2>2. /\ o.stage = "gone" /\ o.row = order[t].row /\ o.pnl = pnl
          /\ o.stop = stop /\ o.stake = order[t].stake
      BY <1>1 DEF Order
    <2>3. order' = [order EXCEPT ![t] = o] /\ UNCHANGED <<command, taken>>
      BY <1>6 DEF Close, rows
    <2>4. order[t].row \notin {"stopped_out", "fully_closed"}
      BY <1>1, <2>1 DEF Coherent
    <2> HIDE DEF o
    <2>5. Coherent(o) /\ Exposed(o) <= Exposed(order[t])
      BY <1>1, <1>2, <2>1, <2>2, <2>4 DEF Coherent, Exposed
    <2> QED
      BY <2>2, <2>3, <2>4, <2>5, CapBooks
  <1> QED
    BY <1>3, <1>4, <1>5, <1>6

\* What leaves commands and orders alone changes nothing about the money.
LEMMA CapKept ==
    ASSUME TypeInv, TypeInv', CapInv, UNCHANGED <<command, taken, order>>
    PROVE  CapInv' /\ Committed' <= Committed
  <1>1. /\ Exposure' = Exposure /\ Realised' = Realised
        /\ \A t \in Tickets : Coherent(order[t])'
    BY DEF Exposure, Exposures, Realised, Pnls, CapInv, Coherent
  <1>2. Exposure \in Nat
    BY AmountsTyped DEF CapInv
  <1> QED
    BY <1>1, <1>2, CapEases

\* A promise outlives every step that commits no more and sizes nothing.
LEMMA PromisesKept ==
    ASSUME TypeInv, TypeInv', CapInv, CapInv', Promises, Committed' <= Committed,
           \A w \in Executors : sized'[w] = sized[w] \/ sized'[w] = 0
    PROVE  Promises'
  <1>1. Committed \in Int /\ Committed' \in Int
    <2>1. Exposure \in Nat /\ SumOver(Asks, Unplaced) \in Nat
      BY AmountsTyped DEF CapInv
    <2>2. Exposure' \in Nat
      BY ExposuresTyped DEF TypeInv, TypeOK, Exposure, Exposures, Exposed
    <2>3. SumOver(Asks, Unplaced)' \in Nat
      <3>1. \A s \in Unplaced' : Asks'[s] \in Nat
        BY FundAssumption DEF TypeInv, TypeOK, Command, Asks, Unplaced
      <3>2. Unplaced' \in SUBSET Signals
        BY DEF TypeInv, TypeOK, Unplaced
      <3>3. SumOver(Asks', Unplaced') \in Nat
        BY <3>1, <3>2, Finite, SumOverNat
      <3> QED
        BY <3>3 DEF SumOver
    <2> QED
      BY <2>1, <2>2, <2>3 DEF Committed
  <1>2. Cap - Committed <= Cap - Committed'
        /\ Cap - Committed \in Int /\ Cap - Committed' \in Int
    <2>1. \A a, b \in Int : b <= a => /\ Cap - a <= Cap - b
                                       /\ Cap - a \in Int /\ Cap - b \in Int
      BY FundAssumption
    <2> QED
      BY <1>1, <2>1
  <1>3. /\ Percent * (Cap - Committed) <= Percent * (Cap - Committed')
        /\ Percent * (Cap - Committed) \in Int /\ Percent * (Cap - Committed') \in Int
    BY <1>2, FactorGrows, FundAssumption
  <1>4. ASSUME NEW w \in Executors, sized'[w] > 0
        PROVE  /\ sized'[w] = sized[w] /\ sized[w] > 0
               /\ 100 * sized'[w] <= Percent * (Cap - Committed')
               /\ sized'[w] <= Cap - Committed'
    <2>1. sized'[w] = sized[w] /\ sized[w] > 0 /\ sized[w] \in Nat
      BY <1>4, FundAssumption DEF TypeInv, TypeOK
    <2>2. 100 * sized[w] <= Percent * (Cap - Committed) /\ sized[w] <= Cap - Committed
      BY <2>1 DEF Promises
    <2> QED
      BY <1>2, <1>3, <2>1, <2>2
  <1> QED
    BY <1>4 DEF Promises

\* Who sizes while nobody else has is promised what is free.
LEMMA SizePromises ==
    ASSUME OnlyStopsLose, TypeInv, CapInv, NEW w \in Workers, Size(w), ~raced'
    PROVE  Promises'
  <1> DEFINE b == Stake(First(w).of)
  <1>1. w \in Executors /\ sized' = [sized EXCEPT ![w] = b]
    BY DEF Size
  <1>2. \A v \in Executors : ~(sized[v] > 0)
    BY DEF Size
  <1>3. /\ 100 * b <= Percent * (Cap - Committed)
        /\ b <= Cap - Committed
    BY CapSize
  <1> HIDE DEF b
  <1>4. sized'[w] = b /\ \A v \in Executors : v # w => sized'[v] = sized[v]
    BY <1>1 DEF TypeInv, TypeOK
  <1>5. Committed' = Committed
    BY DEF Size, rows, Committed, Exposure, Exposures, Asks, Unplaced, SumOver
  <1>6. \A v \in Executors : sized'[v] > 0 => v = w
    BY <1>2, <1>4
  <1> QED
    BY <1>3, <1>4, <1>5, <1>6 DEF Promises

\* Who asks for what was promised has no promise left, and nobody else had one.
LEMMA ExecutePromises ==
    ASSUME TypeInv, Promises, NEW w \in Workers, Execute(w)
    PROVE  Promises'
  <1>1. w \in Executors /\ sized[w] > 0 /\ sized' = [sized EXCEPT ![w] = 0]
    BY DEF Execute, Ends
  <1>2. \A v \in Executors : v # w => ~(sized[v] > 0)
    BY <1>1 DEF Promises
  <1>3. \A v \in Executors : ~(sized'[v] > 0)
    BY <1>1, <1>2 DEF TypeInv, TypeOK
  <1> QED
    BY <1>3 DEF Promises

\* What leaves commands and orders alone, and sizes nothing.
LEMMA FundKept ==
    ASSUME TypeInv, TypeInv', FundInv, UNCHANGED <<command, taken, order, raced>>,
           \A w \in Executors : sized'[w] = sized[w] \/ sized'[w] = 0
    PROVE  FundInv'
  BY CapKept, PromisesKept DEF FundInv

\* A step that commits no more.
LEMMA FundEases ==
    ASSUME TypeInv, TypeInv', FundInv, UNCHANGED money,
           CapInv => CapInv' /\ Committed' <= Committed
    PROVE  FundInv'
  BY PromisesKept DEF FundInv, money

\* Every step keeps the money within the cap.
LEMMA CapNext ==
    ASSUME OnlyStopsLose, TypeInv, TypeInv', FundInv, [Next]_vars
    PROVE  FundInv'
  <1>1. CASE \E s \in Signals, l \in Levels \union {NoLevels} :
                Capture(s, l) \/ Edit(s, l) \/ Correct(s, l)
    BY <1>1, FundKept DEF Capture, Edit, Correct, money
  <1>2. CASE ReviewPass \/ ExecutePass
    BY <1>2, FundKept DEF ReviewPass, ExecutePass, Reads, rows, money
  <1>3. CASE \E w \in Workers, s \in Signals : Press(w, s)
    BY <1>3, FundKept DEF Press, Reads, rows, money
  <1>4. ASSUME NEW w \in Workers, Works(w)
        PROVE  FundInv'
    <2>1. CASE AskModel(w)
      BY <2>1, FundKept DEF AskModel, rows, money
    <2>2. CASE \E v \in {"approved", "declined"} : Review(w, v)
      BY <2>2, FundKept DEF Review, money
    <2>3. CASE Block(w)
      <3>1. UNCHANGED <<command, taken, order, raced>> /\ sized' = [sized EXCEPT ![w] = 0]
        BY <2>3 DEF Block, Ends
      <3>2. \A v \in Executors : sized'[v] = sized[v] \/ sized'[v] = 0
        BY <3>1 DEF TypeInv, TypeOK
      <3> QED
        BY <3>1, <3>2, FundKept
    <2>4. CASE Size(w)
      <3>1. UNCHANGED <<command, taken, order>> /\ (raced => raced')
        BY <2>4 DEF Size, rows
      <3> QED
        BY <2>4, <3>1, CapKept, SizePromises DEF FundInv
    <2>5. CASE Execute(w)
      <3>1. UNCHANGED raced
        BY <2>5 DEF Execute
      <3> QED
        BY <2>5, <3>1, CapExecute, ExecutePromises DEF FundInv
    <2> QED
      BY <1>4, <2>1, <2>2, <2>3, <2>4, <2>5 DEF Works
  <1>5. CASE \E s \in Signals : Decide(s) \/ \E p \in Signals : AddEntry(s, p)
    BY <1>5, FundKept DEF Decide, AddEntry, Originate, money
  <1>6. CASE Poll
    BY <1>6, CapPoll, FundEases DEF Poll
  <1>7. CASE \E s \in Signals : Place(s) \/ Refuse(s) \/ Expire(s)
    <2>1. UNCHANGED money
      BY <1>7 DEF Place, Refuse, Expire
    <2> QED
      BY <1>7, <2>1, CapPlace, CapRefuse, FundEases
  <1>8. CASE \E t \in Tickets : Fill(t) \/ Retire(t) \/ RecordOpen(t) \/ RecordClose(t)
    <2>1. UNCHANGED money
      BY <1>8 DEF Fill, Retire, RecordOpen, RecordClose
    <2> QED
      BY <1>8, <2>1, CapBroker, FundEases
  <1>9. CASE \E t \in Tickets, stop \in BOOLEAN : \E pnl \in {0, -order[t].stake} :
                Close(t, stop, pnl)
    <2>1. UNCHANGED money
      BY <1>9 DEF Close
    <2> QED
      BY <1>9, <2>1, CapBroker, FundEases
  <1>10. CASE UNCHANGED vars
    BY <1>10, FundKept DEF vars, rows, money
  <1> QED
    BY <1>1, <1>2, <1>3, <1>4, <1>5, <1>6, <1>7, <1>8, <1>9, <1>10 DEF Next

\* The loss is bounded by the cap for any number of signals, workers, buttons and answers lost,
\* whatever comes between the reading of the fund and the order sized from it: until two
\* executors size from one reading, and under OnlyStopsLose.
THEOREM CopierCapHolds ==
    ASSUME OnlyStopsLose
    PROVE  Spec => []CapHolds
  <1>1. Init => TypeInv /\ FundInv
    <2>1. Init => Promises
      BY DEF Init, Promises
    <2> QED
      BY <2>1, TypeInit, CapInit DEF FundInv
  <1>2. TypeInv /\ FundInv /\ [Next]_vars => (TypeInv /\ FundInv)'
    BY NextTyped, CapNext
  <1>3. TypeInv /\ FundInv => CapHolds
    BY RiskExposed DEF CapHolds, LossBounded, FundInv
  <1> QED
    BY <1>1, <1>2, <1>3, PTL DEF Spec
================================================================================
