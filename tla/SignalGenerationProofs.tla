------------------------- MODULE SignalGenerationProofs -------------------------
(***************************************************************************)
(* Proofs about SignalGeneration: types, one entry per bar, and out of the *)
(* old position before into the new one, for any bars, requests and        *)
(* faults.                                                                 *)
(***************************************************************************)
EXTENDS SignalGeneration, FiniteSetTheorems, SequenceTheorems, TLAPS

-----------------------------------------------------------------------------
\* The rows

\* A set has a sequence of its members, which is what SetToSeq chooses.
LEMMA SequenceOfSet ==
    ASSUME NEW S, IsFiniteSet(S)
    PROVE  /\ Cardinality(S) \in Nat
           /\ SetToSeq(S) \in [1..Cardinality(S) -> S]
           /\ \A x \in S : \E i \in 1..Cardinality(S) : SetToSeq(S)[i] = x
<1> DEFINE n == Cardinality(S)
           f == SetToSeq(S)
<1>1. n \in Nat /\ ExistsBijection(1..n, S)
  BY FS_CardinalityType
<1>2. \E g \in [1..n -> S] : IsInjective(g)
  BY <1>1 DEF ExistsBijection, Bijection, Injection
<1>3. f \in [1..n -> S] /\ IsInjective(f)
  BY <1>2 DEF SetToSeq
<1>4. f \in Injection(1..n, S)
  BY <1>3 DEF Injection
<1>5. Cardinality(1..n) = n
  BY <1>1, FS_Interval
<1>6. f \in Surjection(1..n, S)
  <2> HIDE DEF f
  <2> QED
    BY <1>4, <1>5, FS_Injection
<1> QED
  BY <1>1, <1>3, <1>6 DEF Surjection

LEMMA Basics ==
    TypeOK => /\ Newest \in 0..MaxBars /\ MaxBars \in Nat
              /\ Len(rows) \in Nat /\ DOMAIN rows = 1..Len(rows)
              /\ \A i \in DOMAIN rows : rows[i] \in Row
              /\ \A b \in 1..Newest : b \in Bars /\ bars[b] \in Sides
              /\ "worker" \in Passes /\ Requests \subseteq Passes
<1> SUFFICES ASSUME TypeOK PROVE Basics!2
  OBVIOUS
<1>1. Len(bars) \in Nat /\ bars \in [1..Len(bars) -> Sides]
  BY LenProperties DEF TypeOK
<1>2. Len(rows) \in Nat /\ rows \in [1..Len(rows) -> Row]
  BY LenProperties DEF TypeOK
<1> QED
  BY <1>1, <1>2, SignalAssumption DEF TypeOK, Newest, Bars, Passes

\* No row goes away, and of each one these stay.
Grows ==
    /\ rows' \in Seq(Row) /\ Len(rows) <= Len(rows') /\ DOMAIN rows \subseteq DOMAIN rows'
    /\ \A i \in DOMAIN rows : /\ rows'[i].what = rows[i].what /\ rows'[i].of = rows[i].of
                              /\ rows'[i].until = rows[i].until
                              /\ rows[i].sent # "never" => rows'[i].sent # "never"

LEMMA RowsMapped ==
    ASSUME TypeOK, NEW f \in [DOMAIN rows -> Row], rows' = f,
           \A i \in DOMAIN rows : /\ f[i].what = rows[i].what /\ f[i].of = rows[i].of
                                  /\ f[i].until = rows[i].until
                                  /\ rows[i].sent # "never" => f[i].sent # "never"
    PROVE  Grows /\ DOMAIN rows' = DOMAIN rows
<1>1. Len(rows) \in Nat /\ DOMAIN rows = 1..Len(rows)
  BY Basics
<1>2. f \in Seq(Row)
  BY <1>1, SeqDef
<1>3. Len(f) = Len(rows)
  BY <1>1, <1>2, LenProperties
<1> QED
  BY <1>1, <1>2, <1>3 DEF Grows

LEMMA RowAnswered ==
    ASSUME TypeOK, NEW i \in DOMAIN rows, NEW t \in {"done", "failed", "expired"},
           rows' = [rows EXCEPT ![i].status = t]
    PROVE  /\ Grows /\ DOMAIN rows' = DOMAIN rows
           /\ \A j \in DOMAIN rows : j # i => rows'[j] = rows[j]
           /\ rows'[i].sent = rows[i].sent /\ rows'[i].status = t
<1> DEFINE f == [j \in DOMAIN rows |-> IF j = i THEN [rows[i] EXCEPT !.status = t] ELSE rows[j]]
<1>1. rows' = f
  BY Basics DEF TypeOK
<1>2. \A j \in DOMAIN rows : /\ f[j] \in Row /\ f[j].what = rows[j].what /\ f[j].of = rows[j].of
                             /\ f[j].until = rows[j].until /\ f[j].sent = rows[j].sent
  BY Basics DEF Row
<1>3. f \in [DOMAIN rows -> Row]
  BY <1>2
<1>4. \A j \in DOMAIN rows : j # i => f[j] = rows[j]
  OBVIOUS
<1>5. f[i].status = t
  BY Basics DEF Row
<1> HIDE DEF f
<1> QED
  BY <1>1, <1>2, <1>3, <1>4, <1>5, RowsMapped

\* A pass of TradeManager: the rows there are, re-armed where they are spent, then an exit for
\* every position reversed that had none.
LEMMA ManagedRows ==
    ASSUME TypeOK
    PROVE  /\ Managed \in Seq(Row) /\ Len(Managed) \in Nat /\ Len(rows) <= Len(Managed)
           /\ \A i \in DOMAIN rows : Managed[i] = Rearmed(rows[i])
           /\ \A i \in DOMAIN Managed : i \notin DOMAIN rows => \E b \in Unasked : Managed[i] = Exit(b)
           /\ \A b \in Unasked : \E i \in DOMAIN Managed : i \notin DOMAIN rows /\ Managed[i] = Exit(b)
<1> DEFINE n == Cardinality(Unasked)
           asked == SetToSeq(Unasked)
           s1 == [i \in DOMAIN rows |-> Rearmed(rows[i])]
           s2 == [i \in DOMAIN asked |-> Exit(asked[i])]
<1>0. MaxBars \in Nat /\ Len(rows) \in Nat /\ DOMAIN rows = 1..Len(rows)
  BY Basics
<1>1. IsFiniteSet(Unasked) /\ Unasked \subseteq Bars
  <2>1. IsFiniteSet(Bars)
    BY <1>0, FS_Interval DEF Bars
  <2> QED
    BY <2>1, FS_Subset DEF Unasked
<1>2. n \in Nat /\ asked \in [1..n -> Unasked] /\ \A b \in Unasked : \E i \in 1..n : asked[i] = b
  BY <1>1, SequenceOfSet
<1>3. \A b \in Bars : Exit(b) \in Row
  BY <1>0 DEF Exit, Row
<1>4. \A i \in DOMAIN rows : Rearmed(rows[i]) \in Row
  BY Basics DEF Rearmed, Row
<1>5. s1 \in Seq(Row) /\ Len(s1) = Len(rows)
  <2>1. s1 \in [1..Len(rows) -> Row]
    BY <1>0, <1>4
  <2> HIDE DEF s1
  <2>2. s1 \in Seq(Row)
    BY <2>1, <1>0, SeqDef
  <2> QED
    BY <2>1, <2>2, <1>0, LenProperties
<1>6. s2 \in Seq(Row) /\ Len(s2) = n /\ DOMAIN s2 = 1..n
  <2>1. s2 \in [1..n -> Row]
    <3> HIDE DEF asked, n
    <3> QED
      BY <1>1, <1>2, <1>3
  <2> HIDE DEF s2, n
  <2>2. s2 \in Seq(Row)
    BY <2>1, <1>2, SeqDef
  <2> QED
    BY <2>1, <2>2, <1>2, LenProperties
<1>7. \A i \in 1..n : s2[i] = Exit(asked[i]) /\ asked[i] \in Unasked
  <2> HIDE DEF asked, n
  <2> QED
    BY <1>2
<1>8. Managed = s1 \o s2
  BY DEF Managed
<1>9. \A i \in DOMAIN rows : s1[i] = Rearmed(rows[i])
  OBVIOUS
<1> HIDE DEF s1, s2, n, asked
<1>10. /\ Managed \in Seq(Row) /\ Len(Managed) = Len(rows) + n
       /\ \A i \in 1..(Len(rows) + n) : Managed[i] = IF i <= Len(rows) THEN s1[i] ELSE s2[i - Len(rows)]
  <2>1. /\ s1 \o s2 \in Seq(Row) /\ Len(s1 \o s2) = Len(s1) + Len(s2)
        /\ \A i \in 1..(Len(s1) + Len(s2)) :
              (s1 \o s2)[i] = IF i <= Len(s1) THEN s1[i] ELSE s2[i - Len(s1)]
    BY <1>5, <1>6, ConcatProperties
  <2> QED
    BY <2>1, <1>5, <1>6, <1>8
<1>11. DOMAIN Managed = 1..(Len(rows) + n)
  BY <1>10, LenProperties
<1>12. \A i \in DOMAIN Managed : i \notin DOMAIN rows =>
          i - Len(rows) \in 1..n /\ Managed[i] = s2[i - Len(rows)]
  BY <1>0, <1>2, <1>10, <1>11
<1>13. \A i \in 1..n : /\ i + Len(rows) \in DOMAIN Managed /\ i + Len(rows) \notin DOMAIN rows
                       /\ Managed[i + Len(rows)] = s2[i]
  BY <1>0, <1>2, <1>10, <1>11
<1>14. \A b \in Unasked : \E i \in DOMAIN Managed : i \notin DOMAIN rows /\ Managed[i] = Exit(b)
  BY <1>2, <1>7, <1>13
<1>15. \A i \in DOMAIN rows : Managed[i] = Rearmed(rows[i])
  BY <1>0, <1>2, <1>9, <1>10
<1>16. \A i \in DOMAIN Managed : i \notin DOMAIN rows => \E b \in Unasked : Managed[i] = Exit(b)
  BY <1>7, <1>12
<1>17. Len(Managed) \in Nat /\ Len(rows) <= Len(Managed)
  BY <1>0, <1>2, <1>10
<1> QED
  BY <1>10, <1>14, <1>15, <1>16, <1>17

LEMMA ManagedGrows ==
    ASSUME TypeOK, rows' = Managed
    PROVE  /\ Grows
           /\ \A i \in DOMAIN rows' :
                 \/ i \in DOMAIN rows /\ (rows'[i] = rows[i] \/ rows'[i].status = "pending")
                                      /\ rows'[i].sent = rows[i].sent
                 \/ i \notin DOMAIN rows /\ \E b \in Unasked : rows'[i] = Exit(b)
<1>1. \A i \in DOMAIN rows : /\ rows'[i].what = rows[i].what /\ rows'[i].of = rows[i].of
                             /\ rows'[i].until = rows[i].until /\ rows'[i].sent = rows[i].sent
                             /\ rows'[i] = rows[i] \/ rows'[i].status = "pending"
  BY Basics, ManagedRows DEF Rearmed, Row
<1>2. DOMAIN rows = 1..Len(rows) /\ DOMAIN rows' = 1..Len(rows') /\ Len(rows) \in Nat
  BY Basics, ManagedRows, LenProperties
<1> QED
  BY <1>1, <1>2, ManagedRows DEF Grows

LEMMA AppendGrows ==
    ASSUME TypeOK, NEW x \in Row, rows' = Append(rows, x)
    PROVE  /\ Grows /\ Len(rows') = Len(rows) + 1 /\ rows'[Len(rows')] = x
           /\ DOMAIN rows' = DOMAIN rows \union {Len(rows')}
           /\ \A i \in DOMAIN rows : rows'[i] = rows[i] /\ i < Len(rows')
<1>1. Len(rows) \in Nat /\ DOMAIN rows = 1..Len(rows) /\ rows \in Seq(Row)
  BY Basics DEF TypeOK
<1>2. /\ rows' \in Seq(Row) /\ Len(rows') = Len(rows) + 1
      /\ \A i \in 1..Len(rows) : rows'[i] = rows[i]
      /\ rows'[Len(rows) + 1] = x
  BY <1>1, AppendProperties
<1>3. DOMAIN rows' = 1..Len(rows')
  BY <1>2, LenProperties
<1> QED
  BY <1>1, <1>2, <1>3 DEF Grows

LEMMA PollGrows ==
    ASSUME TypeOK, Poll
    PROVE  /\ Grows /\ DOMAIN rows' = DOMAIN rows
           /\ \A i \in DOMAIN rows :
                 IF Claimable(i) THEN rows'[i].status = "claimed" /\ rows'[i].sent # "never"
                                 ELSE rows'[i] = rows[i]
           /\ batch' \subseteq {i \in DOMAIN rows : Claimable(i)}
<1>1. PICK sent \in [DOMAIN rows -> {"lost", "received"}] :
         /\ rows' = [i \in DOMAIN rows |-> Claimed(i, sent[i])]
         /\ batch' \subseteq {i \in DOMAIN rows : Claimable(i)}
  <2>1. CASE /\ rows' = [i \in DOMAIN rows |-> Claimed(i, "received")]
             /\ batch' = {i \in DOMAIN rows : Claimable(i)}
    <3>1. [i \in DOMAIN rows |-> "received"] \in [DOMAIN rows -> {"lost", "received"}]
      OBVIOUS
    <3> QED
      BY <2>1, <3>1
  <2>2. CASE rows' = [i \in DOMAIN rows |-> Claimed(i, Missed(i))] /\ batch' = batch /\ batch = {}
    <3>1. [i \in DOMAIN rows |-> Missed(i)] \in [DOMAIN rows -> {"lost", "received"}]
      BY DEF Missed
    <3> QED
      BY <2>2, <3>1
  <2> QED
    BY <2>1, <2>2 DEF Poll
<1> DEFINE f == [i \in DOMAIN rows |-> Claimed(i, sent[i])]
<1>2. \A i \in DOMAIN rows : /\ f[i] \in Row /\ f[i].what = rows[i].what /\ f[i].of = rows[i].of
                             /\ f[i].until = rows[i].until
                             /\ rows[i].sent # "never" => f[i].sent # "never"
                             /\ IF Claimable(i) THEN f[i].status = "claimed" /\ f[i].sent # "never"
                                                ELSE f[i] = rows[i]
  BY Basics DEF Row, Claimed
<1>3. f \in [DOMAIN rows -> Row]
  BY <1>2
<1>4. rows' = f
  BY <1>1
<1> HIDE DEF f
<1> QED
  BY <1>1, <1>2, <1>3, <1>4, RowsMapped

\* What is asked of an execution: the order is carried out, or not, and answered, or not.
LEMMA ExecuteSteps ==
    ASSUME TypeOK, NEW i \in DOMAIN rows, Execute(i)
    PROVE  /\ IsNext(i) /\ batch' = batch \ {i}
           /\ \/ rows' = rows
              \/ \E t \in {"done", "failed", "expired"} : rows' = [rows EXCEPT ![i].status = t]
           /\ \/ position' = position
              \/ /\ rows[i].what = "enter" /\ position' = [position EXCEPT ![rows[i].of] = "held"]
              \/ /\ rows[i].what = "exit" /\ position[rows[i].of] = "held"
                 /\ position' = [position EXCEPT ![rows[i].of] = "closed"]
           /\ faults' \in Nat
<1>1. faults \in Nat /\ rows[i].what \in {"enter", "exit"}
  BY Basics DEF TypeOK, Row
<1> QED
  BY <1>1 DEF Execute, Fault

-----------------------------------------------------------------------------
\* The types

\* A pass about to write has a bar to write of.
WritesABar == \A p \in Passes : pass[p].at = "writing" => pass[p].bar \in Bars

TypeInv == TypeOK /\ WritesABar

\* Both hold wherever a pass goes next that is not to write.
PassesOK == pass \in [Passes -> Pass] /\ WritesABar

LEMMA PassMoves ==
    ASSUME TypeInv, NEW p \in Passes, NEW x \in Pass, x.at = "writing" => x.bar \in Bars,
           pass' = [pass EXCEPT ![p] = x]
    PROVE  PassesOK'
BY DEF TypeInv, TypeOK, WritesABar, PassesOK

LEMMA PassOver ==
    ASSUME TypeInv, NEW p \in Passes, Over(p)
    PROVE  PassesOK' /\ job' \in BOOLEAN
<1> DEFINE x == IF p \in Requests THEN [Idle EXCEPT !.at = "answering"] ELSE Idle
<1>1. x \in Pass /\ x.at # "writing"
  <2>1. MaxBars \in Nat
    BY SignalAssumption
  <2> QED
    <3>1. Idle \in Pass /\ Idle.at # "writing"
      BY <2>1 DEF Idle, Pass, Stages
    <3>2. [Idle EXCEPT !.at = "answering"] \in Pass /\ [Idle EXCEPT !.at = "answering"].at # "writing"
      <4>1. \A y \in Pass : /\ [y EXCEPT !.at = "answering"] \in Pass
                            /\ [y EXCEPT !.at = "answering"].at = "answering"
        BY DEF Pass, Stages
      <4> QED
        BY <3>1, <4>1
    <3> QED
      BY <3>1, <3>2
<1>2. job' \in BOOLEAN /\ pass' = [pass EXCEPT ![p] = x]
  BY DEF Over, TypeInv, TypeOK
<1> HIDE DEF x
<1> QED
  BY <1>1, <1>2, PassMoves

\* What is left to say of the types once the rows and the passes are.
Rest ==
    /\ bars \in Seq(Sides) /\ Newest <= MaxBars /\ pushed \in 0..Newest
    /\ awaiting \in Requests \union {Nobody} /\ batch \subseteq DOMAIN rows
    /\ position \in [Bars -> {"none", "held", "closed"}]
    /\ stored \in 0..Newest /\ signals \in [Bars -> {"none", "accepted", "skipped"}]
    /\ filed \in [Bars -> [status : {"none", "open", "closed"}, opened : 0..(MaxBars + 1)]]
    /\ queued \in BOOLEAN /\ job \in BOOLEAN
    /\ evaluated \in 0..stored
    /\ faults \in Nat /\ killed \in BOOLEAN

LEMMA Parts == TypeInv <=> Rest /\ rows \in Seq(Row) /\ PassesOK
BY DEF TypeInv, TypeOK, WritesABar, Rest, PassesOK

LEMMA PartsNext == (Rest /\ rows \in Seq(Row) /\ PassesOK)' => TypeInv'
BY DEF TypeInv, TypeOK, WritesABar, Rest, PassesOK

\* What the terminal and the dashboard have of the bars seen before the first one followed.
LEMMA StartsAt ==
    ASSUME Init
    PROVE  /\ bars \in Seq(Sides) /\ Newest = Seen /\ Seen \in 0..MaxBars /\ MaxBars \in Nat
           /\ rows \in Seq(Row) /\ \A i \in DOMAIN rows : i = 1 /\ rows[i] = EntryDone /\ Seen > 0
           /\ \A b \in Bars : \/ filed[b] = Unfiled
                              \/ filed[b] = OnFile /\ Carried(b)
<1>1. Seen \in 0..MaxBars /\ MaxBars \in Nat
  BY SignalAssumption
<1>2. bars \in Seq(Sides) /\ Len(bars) = Seen
  <2>1. Turned \in Sides
    BY DEF Turned, Sides
  <2>2. bars \in [1..Seen -> Sides]
    BY <2>1 DEF Init
  <2>3. bars \in Seq(Sides)
    BY <1>1, <2>2, SeqDef
  <2> QED
    BY <1>1, <2>2, <2>3, LenProperties
<1>3. rows \in Seq(Row) /\ \A i \in DOMAIN rows : i = 1 /\ rows[i] = EntryDone /\ Seen > 0
  <2>1. CASE Seen > 0
    <3>1. EntryDone \in Row
      BY <1>1, <2>1 DEF EntryDone, Row, Bars
    <3>2. rows = <<EntryDone>>
      BY <2>1 DEF Init
    <3> QED
      BY <2>1, <3>1, <3>2
  <2>2. CASE ~(Seen > 0)
    <3>1. rows = <<>>
      BY <2>2 DEF Init
    <3> QED
      BY <3>1, EmptySeq
  <2> QED
    BY <2>1, <2>2
<1>4. \A b \in Bars : filed[b] = Unfiled \/ (filed[b] = OnFile /\ Carried(b))
  BY DEF Init
<1> QED
  BY <1>1, <1>2, <1>3, <1>4 DEF Newest

LEMMA SignalsInit == Init => TypeInv
<1> SUFFICES ASSUME Init PROVE TypeInv
  OBVIOUS
<1>1. bars \in Seq(Sides) /\ rows \in Seq(Row) /\ Newest = Seen /\ Seen \in 0..MaxBars
  BY StartsAt
<1>2. Idle \in Pass
  BY SignalAssumption DEF Idle, Pass, Stages
<1>3. queued \in BOOLEAN
  BY SignalAssumption DEF Init
<1>4. Rest
  <2>1. /\ position \in [Bars -> {"none", "held", "closed"}]
        /\ signals \in [Bars -> {"none", "accepted", "skipped"}]
    BY DEF Init
  <2>2. filed \in [Bars -> [status : {"none", "open", "closed"}, opened : 0..(MaxBars + 1)]]
    <3>1. Unfiled \in [status : {"none", "open", "closed"}, opened : 0..(MaxBars + 1)]
      BY SignalAssumption DEF Unfiled
    <3>2. Seen > 0 => OnFile \in [status : {"none", "open", "closed"}, opened : 0..(MaxBars + 1)]
      BY SignalAssumption DEF OnFile
    <3>3. DOMAIN filed = Bars /\ filed = [b \in Bars |-> filed[b]]
      BY DEF Init
    <3>4. \A b \in Bars : filed[b] \in [status : {"none", "open", "closed"}, opened : 0..(MaxBars + 1)]
      BY <3>1, <3>2, StartsAt DEF Carried
    <3> QED
      BY <3>3, <3>4
  <2>3. pushed = Seen /\ stored = Seen /\ evaluated = Seen /\ faults = 0 /\ batch = {}
        /\ awaiting = Nobody /\ job = FALSE /\ killed = FALSE
    BY DEF Init
  <2>4. /\ Newest <= MaxBars /\ pushed \in 0..Newest /\ stored \in 0..Newest /\ evaluated \in 0..stored
        /\ faults \in Nat
    BY <1>1, <2>3, SignalAssumption
  <2>5. awaiting \in Requests \union {Nobody} /\ batch \subseteq DOMAIN rows
    BY <2>3
  <2>6. job \in BOOLEAN /\ killed \in BOOLEAN
    BY <2>3
  <2> QED
    BY <1>1, <1>3, <2>1, <2>2, <2>4, <2>5, <2>6 DEF Rest
<1>5. PassesOK
  BY <1>2 DEF Init, PassesOK, WritesABar, Idle
<1> QED
  BY <1>1, <1>4, <1>5, Parts

LEMMA TypeStep ==
    ASSUME TypeInv, [Next]_vars
    PROVE  TypeInv'
<1> USE DEF terminal, server, counts
<1>0. Rest /\ rows \in Seq(Row) /\ PassesOK /\ TypeOK /\ Newest \in 0..MaxBars /\ MaxBars \in Nat
  BY Parts, Basics DEF TypeInv
<1>1. ASSUME NEW side \in Sides, BarCloses(side) PROVE TypeInv'
  <2>1. bars' \in Seq(Sides) /\ Newest' = Newest + 1 /\ Newest < MaxBars
    BY <1>0, <1>1, AppendProperties DEF BarCloses, Newest, Rest
  <2>2. Rest'
    BY <1>0, <1>1, <2>1 DEF BarCloses, Rest
  <2> QED
    BY <1>0, <1>1, <2>2, PartsNext DEF BarCloses, PassesOK, WritesABar
<1>2. ASSUME NEW r \in Requests, Push(r) PROVE TypeInv'
  <2>1. PassesOK'
    <3>1. r \in Passes /\ pass[r] \in Pass
      BY <1>0, Basics DEF PassesOK
    <3>2. [pass[r] EXCEPT !.at = "reading"] \in Pass
      BY <3>1 DEF Pass, Stages
    <3>3. pass' = [pass EXCEPT ![r] = [pass[r] EXCEPT !.at = "reading"]]
      BY <1>2 DEF Push
    <3> QED
      BY <3>1, <3>2, <3>3, PassMoves DEF Pass
  <2>2. Rest' /\ rows' = rows
    BY <1>0, <1>2 DEF Push, Rest, Newest
  <2> QED
    BY <1>0, <2>1, <2>2, PartsNext
<1>3. ASSUME NEW r \in Requests, ReadKnown(r) PROVE TypeInv'
  <2>1. PassesOK'
    <3>1. r \in Passes /\ pass[r] \in Pass
      BY <1>0, Basics DEF PassesOK
    <3> DEFINE x == [pass[r] EXCEPT !.at = "storing", !.fresh = IsFresh]
    <3>2. x \in Pass /\ x.at = "storing"
      <4>1. IsFresh \in BOOLEAN
        BY DEF IsFresh
      <4> QED
        BY <3>1, <4>1 DEF Pass, Stages
    <3>3. pass' = [pass EXCEPT ![r] = x]
      BY <1>3 DEF ReadKnown
    <3> HIDE DEF x
    <3> QED
      BY <3>1, <3>2, <3>3, PassMoves
  <2>2. Rest' /\ rows' = rows
    BY <1>0, <1>3 DEF ReadKnown, Rest, Newest
  <2> QED
    BY <1>0, <2>1, <2>2, PartsNext
<1>4. ASSUME NEW r \in Requests, Store(r) PROVE TypeInv'
  <2>1. PassesOK'
    <3>1. r \in Passes /\ pass[r] \in Pass
      BY <1>0, Basics DEF PassesOK
    <3> DEFINE x == [pass[r] EXCEPT !.at = IF pass[r].fresh /\ ~queued THEN "managing" ELSE "answering"]
    <3>2. x \in Pass /\ x.at # "writing"
      BY <3>1 DEF Pass, Stages
    <3>3. pass' = [pass EXCEPT ![r] = x]
      BY <1>4 DEF Store
    <3> HIDE DEF x
    <3> QED
      BY <3>1, <3>2, <3>3, PassMoves
  <2>2. Rest' /\ rows' = rows
    BY <1>0, <1>4 DEF Store, Rest, Newest
  <2> QED
    BY <1>0, <2>1, <2>2, PartsNext
<1>5. ASSUME NEW r \in Requests, Answer(r) PROVE TypeInv'
  <2>1. PassesOK'
    <3>1. r \in Passes /\ Idle \in Pass /\ Idle.at # "writing"
      BY <1>0, Basics DEF Idle, Pass, Stages
    <3> QED
      BY <1>5, <3>1, PassMoves DEF Answer
  <2>2. Rest' /\ rows' = rows
    BY <1>0, <1>5 DEF Answer, Rest, Newest, Closed, Fault
  <2> QED
    BY <1>0, <2>1, <2>2, PartsNext
<1>6. ASSUME NEW p \in Passes, Manage(p) PROVE TypeInv'
  <2>1. PassesOK'
    <3>1. pass[p] \in Pass
      BY <1>0 DEF PassesOK
    <3>2. [pass[p] EXCEPT !.at = "evaluating"] \in Pass
      BY <3>1 DEF Pass, Stages
    <3>3. pass' = [pass EXCEPT ![p] = [pass[p] EXCEPT !.at = "evaluating"]]
      BY <1>6 DEF Manage
    <3> QED
      BY <3>1, <3>2, <3>3, PassMoves DEF Pass
  <2>2. Grows
    BY <1>0, <1>6, ManagedGrows DEF Manage
  <2>3. Rest'
    BY <1>0, <1>6, <2>2 DEF Manage, Rest, Grows, Newest
  <2> QED
    BY <2>1, <2>2, <2>3, PartsNext DEF Grows
<1>7. ASSUME NEW p \in Passes, Evaluate(p) PROVE TypeInv'
  <2>1. evaluated' \in 0..stored /\ stored' = stored /\ rows' = rows
    BY <1>0, <1>7 DEF Evaluate, Later, Rest
  <2>2. PassesOK' /\ job' \in BOOLEAN
    <3>1. CASE Over(p)
      BY <3>1, PassOver
    <3>2. CASE Fires /\ UNCHANGED job
               /\ \E wanted \in BOOLEAN :
                    pass' = [pass EXCEPT ![p].at = "writing", ![p].bar = stored, ![p].wanted = wanted]
      <4>1. PICK wanted \in BOOLEAN :
              pass' = [pass EXCEPT ![p].at = "writing", ![p].bar = stored, ![p].wanted = wanted]
        BY <3>2
      <4>2. pass[p] \in Pass /\ stored \in Bars /\ stored \in 0..MaxBars
        BY <1>0, <3>2 DEF PassesOK, Fires, Rest, Bars
      <4> DEFINE x == [pass[p] EXCEPT !.at = "writing", !.bar = stored, !.wanted = wanted]
      <4>3. x \in Pass /\ x.bar \in Bars
        BY <4>2 DEF Pass, Stages
      <4>4. pass' = [pass EXCEPT ![p] = x]
        BY <4>1
      <4> HIDE DEF x
      <4>5. PassesOK'
        BY <4>3, <4>4, PassMoves
      <4> QED
        BY <1>0, <3>2, <4>5 DEF Rest
    <3> QED
      BY <1>7, <3>1, <3>2 DEF Evaluate
  <2>3. Rest'
    BY <1>0, <1>7, <2>1, <2>2 DEF Evaluate, Rest, Newest
  <2> QED
    BY <1>0, <2>1, <2>2, <2>3, PartsNext
<1>8. ASSUME NEW p \in Passes, Write(p) PROVE TypeInv'
  <2>1. PassesOK' /\ job' \in BOOLEAN
    BY <1>8, PassOver DEF Write
  <2>2. pass[p].bar \in Bars
    BY <1>0, <1>8 DEF Write, PassesOK, WritesABar
  <2>3. Entry(pass[p].bar) \in Row
    BY <1>0, <2>2 DEF Entry, Row
  <2>4. rows' \in Seq(Row) /\ DOMAIN rows \subseteq DOMAIN rows'
    <3>1. CASE rows' = rows
      BY <1>0, <3>1
    <3>2. CASE rows' = Append(rows, Entry(pass[p].bar))
      BY <1>0, <2>3, <3>2, AppendGrows DEF Grows
    <3> QED
      BY <1>8, <3>1, <3>2 DEF Write
  <2>5. signals' \in [Bars -> {"none", "accepted", "skipped"}]
    BY <1>0, <1>8, <2>2 DEF Write, Rest
  <2>6. Rest'
    BY <1>0, <1>8, <2>1, <2>4, <2>5 DEF Write, Rest, Newest
  <2> QED
    BY <2>1, <2>4, <2>6, PartsNext
<1>9. ASSUME NEW p \in Passes, Kill(p) PROVE TypeInv'
  <2>1. Idle \in Pass /\ Idle.at # "writing"
    BY <1>0 DEF Idle, Pass, Stages
  <2>2. PassesOK'
    BY <1>9, <2>1, PassMoves DEF Kill
  <2>3. Rest' /\ rows' = rows
    BY <1>0, <1>9 DEF Kill, Rest, Newest, Fault
  <2> QED
    BY <1>0, <2>2, <2>3, PartsNext
<1>10. ASSUME TimeOut PROVE TypeInv'
  <2>1. Rest' /\ rows' = rows /\ pass' = pass
    BY <1>0, <1>10 DEF TimeOut, Rest, Newest, Fault
  <2> QED
    BY <1>0, <2>1, PartsNext DEF PassesOK, WritesABar
<1>11. ASSUME ManageTrades PROVE TypeInv'
  <2>1. Grows
    BY <1>0, <1>11, ManagedGrows DEF ManageTrades
  <2>2. Rest' /\ pass' = pass
    BY <1>0, <1>11, <2>1 DEF ManageTrades, Rest, Grows, Newest
  <2> QED
    BY <1>0, <2>1, <2>2, PartsNext DEF PassesOK, WritesABar, Grows
<1>12. ASSUME StartJob PROVE TypeInv'
  <2>1. PassesOK'
    <3>1. "worker" \in Passes /\ pass["worker"] \in Pass
      BY <1>0, Basics DEF PassesOK
    <3>2. [pass["worker"] EXCEPT !.at = "managing"] \in Pass
      BY <3>1 DEF Pass, Stages
    <3>3. pass' = [pass EXCEPT !["worker"] = [pass["worker"] EXCEPT !.at = "managing"]]
      BY <1>12 DEF StartJob
    <3> QED
      BY <3>1, <3>2, <3>3, PassMoves DEF Pass
  <2>2. Rest' /\ rows' = rows
    BY <1>0, <1>12 DEF StartJob, Rest, Newest
  <2> QED
    BY <1>0, <2>1, <2>2, PartsNext
<1>13. ASSUME Poll PROVE TypeInv'
  <2>1. Grows /\ batch' \subseteq DOMAIN rows'
    BY <1>0, <1>13, PollGrows
  <2>2. Rest' /\ pass' = pass
    <3>1. faults' \in Nat
      <4>1. faults \in Nat
        BY <1>0 DEF Rest
      <4>2. faults' = faults \/ faults' = faults + 1
        BY <1>13 DEF Poll, Fault
      <4> QED
        BY <4>1, <4>2
    <3>2. UNCHANGED <<bars, pushed, awaiting, position, stored, signals, filed, queued, job, pass,
                      evaluated, killed>>
      BY <1>13 DEF Poll
    <3> QED
      BY <1>0, <2>1, <3>1, <3>2 DEF Rest, Newest
  <2> QED
    BY <1>0, <2>1, <2>2, PartsNext DEF PassesOK, WritesABar, Grows
<1>14. ASSUME NEW i \in DOMAIN rows, Execute(i) PROVE TypeInv'
  <2>1. rows' \in Seq(Row) /\ DOMAIN rows \subseteq DOMAIN rows'
    <3>1. CASE rows' = rows
      BY <1>0, <3>1
    <3>2. ASSUME NEW t \in {"done", "failed", "expired"}, rows' = [rows EXCEPT ![i].status = t]
          PROVE  rows' \in Seq(Row) /\ DOMAIN rows \subseteq DOMAIN rows'
      BY <1>0, <3>2, RowAnswered DEF Grows
    <3> QED
      BY <1>0, <1>14, <3>1, <3>2, ExecuteSteps
  <2>2. position' \in [Bars -> {"none", "held", "closed"}] /\ batch' \subseteq batch /\ faults' \in Nat
    <3>1. position \in [Bars -> {"none", "held", "closed"}]
      BY <1>0 DEF Rest
    <3> QED
      BY <1>0, <1>14, <3>1, ExecuteSteps
  <2>3. Rest' /\ pass' = pass
    BY <1>0, <1>14, <2>1, <2>2 DEF Execute, Rest, Newest
  <2> QED
    BY <1>0, <2>1, <2>3, PartsNext DEF PassesOK, WritesABar
<1>15. ASSUME NEW i \in DOMAIN rows, Sweep(i) PROVE TypeInv'
  <2>1. Grows
    BY <1>0, <1>15, RowAnswered DEF Sweep
  <2>2. Rest' /\ pass' = pass
    BY <1>0, <1>15, <2>1 DEF Sweep, Rest, Newest, Grows
  <2> QED
    BY <1>0, <2>1, <2>2, PartsNext DEF PassesOK, WritesABar, Grows
<1>16. ASSUME NEW b \in Bars, Report(b) PROVE TypeInv'
  <2>1. filed' \in [Bars -> [status : {"none", "open", "closed"}, opened : 0..(MaxBars + 1)]]
    <3>1. [status |-> "open", opened |-> Newest + 1]
             \in [status : {"none", "open", "closed"}, opened : 0..(MaxBars + 1)]
      BY <1>0
    <3>2. filed \in [Bars -> [status : {"none", "open", "closed"}, opened : 0..(MaxBars + 1)]]
      BY <1>0 DEF Rest
    <3>3. [filed[b] EXCEPT !.status = "closed"]
             \in [status : {"none", "open", "closed"}, opened : 0..(MaxBars + 1)]
      BY <3>2
    <3>4. \/ filed' = [filed EXCEPT ![b] = [status |-> "open", opened |-> Newest + 1]]
          \/ filed' = [filed EXCEPT ![b] = [filed[b] EXCEPT !.status = "closed"]]
      BY <1>16 DEF Report
    <3> QED
      BY <3>1, <3>2, <3>3, <3>4
  <2>2. Rest' /\ rows' = rows /\ pass' = pass
    BY <1>0, <1>16, <2>1 DEF Report, Rest, Newest
  <2> QED
    BY <1>0, <2>2, PartsNext DEF PassesOK, WritesABar
<1>17. ASSUME UNCHANGED vars PROVE TypeInv'
  BY <1>17 DEF vars, TypeInv, TypeOK, WritesABar, Newest
<1> QED
  BY <1>1, <1>2, <1>3, <1>4, <1>5, <1>6, <1>7, <1>8, <1>9, <1>10, <1>11, <1>12, <1>13, <1>14,
     <1>15, <1>16, <1>17 DEF Next, Request, Step, Carry

\* The terminal, the dashboard, the passes and the commands stay in their types.
THEOREM SignalsType == Spec => []TypeOK
<1>1. TypeInv => TypeOK
  BY DEF TypeInv
<1> QED
  BY <1>1, SignalsInit, TypeStep, PTL DEF Spec

-----------------------------------------------------------------------------
\* One entry per bar

\* Only writing a signal adds an entry, or says anything of a signal.
LEMMA RowsStep ==
    ASSUME TypeInv, [Next]_vars
    PROVE  /\ Grows /\ queued' = queued
           /\ \/ \E p \in Passes : Write(p)
              \/ /\ signals' = signals
                 /\ \A i \in DOMAIN rows' : i \notin DOMAIN rows => rows'[i].what = "exit"
<1> DEFINE Goal == /\ Grows /\ queued' = queued
                   /\ \/ \E p \in Passes : Write(p)
                      \/ /\ signals' = signals
                         /\ \A i \in DOMAIN rows' : i \notin DOMAIN rows => rows'[i].what = "exit"
<1> SUFFICES Goal
  OBVIOUS
<1> USE DEF terminal, server, counts
<1>0. TypeOK /\ rows \in Seq(Row) /\ Len(rows) \in Nat
  BY Basics DEF TypeInv, TypeOK
<1>1. ASSUME rows' = rows, signals' = signals, queued' = queued PROVE Goal
  BY <1>0, <1>1 DEF Grows
<1>2. ASSUME rows' = Managed, signals' = signals, queued' = queued PROVE Goal
  BY <1>0, <1>2, ManagedGrows DEF Exit
<1>3. ASSUME NEW p \in Passes, Write(p) PROVE Goal
  <2>1. pass[p].bar \in Bars /\ MaxBars \in Nat /\ Newest \in 0..MaxBars
    BY <1>0, <1>3, Basics DEF Write, WritesABar, TypeInv
  <2>2. Entry(pass[p].bar) \in Row
    BY <2>1 DEF Entry, Row
  <2>3. rows' = rows \/ rows' = Append(rows, Entry(pass[p].bar))
    BY <1>3 DEF Write
  <2>4. Grows
    BY <1>0, <2>2, <2>3, AppendGrows DEF Grows
  <2> QED
    BY <1>3, <2>4 DEF Write
<1>4. CASE Poll
  BY <1>0, <1>4, PollGrows DEF Poll
<1>5. ASSUME NEW i \in DOMAIN rows, Execute(i) \/ Sweep(i) PROVE Goal
  <2>1. signals' = signals /\ queued' = queued
    BY <1>5 DEF Execute, Sweep
  <2>2. rows' = rows \/ \E t \in {"done", "failed", "expired"} : rows' = [rows EXCEPT ![i].status = t]
    BY <1>0, <1>5, ExecuteSteps DEF Sweep
  <2> QED
    BY <1>0, <1>1, <2>1, <2>2, RowAnswered
<1>6. CASE ManageTrades
  BY <1>2, <1>6 DEF ManageTrades
<1>7. ASSUME NEW p \in Passes, Manage(p) PROVE Goal
  BY <1>2, <1>7 DEF Manage
<1>8. ASSUME NEW p \in Passes, Evaluate(p) \/ Kill(p) PROVE Goal
  BY <1>1, <1>8 DEF Evaluate, Kill
<1>9. ASSUME NEW r \in Requests, Request(r) PROVE Goal
  BY <1>1, <1>9 DEF Request, Push, ReadKnown, Store, Answer
<1>10. CASE TimeOut \/ StartJob \/ UNCHANGED vars
  BY <1>1, <1>10 DEF TimeOut, StartJob, vars
<1>11. ASSUME NEW b \in Bars, Report(b) PROVE Goal
  BY <1>1, <1>11 DEF Report
<1>12. ASSUME NEW side \in Sides, BarCloses(side) PROVE Goal
  BY <1>1, <1>12 DEF BarCloses
<1> QED
  BY <1>3, <1>4, <1>5, <1>6, <1>7, <1>8, <1>9, <1>10, <1>11, <1>12 DEF Next, Step, Carry

LEMMA EntryStep ==
    ASSUME TypeInv, OneEntryPerBar, [Next]_vars
    PROVE  OneEntryPerBar'
<1>0. Grows /\ TypeOK /\ \A i \in DOMAIN rows : rows[i].of \in Bars
  BY RowsStep, Basics DEF TypeInv, Row
<1>1. ASSUME NEW p \in Passes, Write(p) PROVE OneEntryPerBar'
  <2> DEFINE b == pass[p].bar
  <2>1. b \in Bars /\ MaxBars \in Nat /\ Newest \in 0..MaxBars
    BY <1>0, <1>1, Basics DEF Write, WritesABar, TypeInv
  <2>2. Entry(b) \in Row /\ Entry(b).of = b
    BY <2>1 DEF Entry, Row
  <2>3. CASE rows' = rows
    <3>1. \A c \in Bars : signals[c] = "accepted" => signals'[c] = "accepted"
      BY <1>0, <1>1, <2>1 DEF Write, IsCreated, TypeOK
    <3> QED
      BY <1>0, <2>3, <3>1 DEF OneEntryPerBar
  <2>4. CASE rows' = Append(rows, Entry(b)) /\ rows' # rows
    <3>1. IsCreated(b) /\ pass[p].wanted /\ signals' = [signals EXCEPT ![b] = "accepted"]
      BY <1>1, <2>4 DEF Write
    <3>2. \A i \in DOMAIN rows : rows[i].what = "enter" => rows[i].of # b
      BY <3>1 DEF IsCreated, OneEntryPerBar
    <3>3. /\ rows'[Len(rows')] = Entry(b) /\ DOMAIN rows' = DOMAIN rows \union {Len(rows')}
          /\ \A i \in DOMAIN rows : rows'[i] = rows[i]
      BY <1>0, <2>2, <2>4, AppendGrows
    <3>4. signals'[b] = "accepted" /\ \A c \in Bars : c # b => signals'[c] = signals[c]
      BY <1>0, <2>1, <3>1 DEF TypeOK
    <3>5. \A i \in DOMAIN rows : rows'[i] = rows[i]
      BY <3>3
    <3>6. ASSUME NEW i \in DOMAIN rows', NEW j \in DOMAIN rows',
                 rows'[i].what = "enter", rows'[j].what = "enter", rows'[i].of = rows'[j].of
          PROVE  i = j /\ signals'[rows'[i].of] = "accepted"
      <4>1. CASE i \in DOMAIN rows /\ j \in DOMAIN rows
        BY <1>0, <3>2, <3>4, <3>5, <3>6, <4>1 DEF OneEntryPerBar
      <4>2. CASE i = Len(rows') /\ j = Len(rows')
        BY <2>2, <3>3, <3>4, <4>2
      <4>3. CASE i \in DOMAIN rows /\ j = Len(rows')
        BY <2>2, <3>2, <3>3, <3>5, <3>6, <4>3
      <4>4. CASE j \in DOMAIN rows /\ i = Len(rows')
        BY <2>2, <3>2, <3>3, <3>5, <3>6, <4>4
      <4> QED
        BY <3>3, <4>1, <4>2, <4>3, <4>4
    <3> QED
      BY <3>6 DEF OneEntryPerBar
  <2> QED
    BY <1>1, <2>3, <2>4 DEF Write
<1>2. CASE signals' = signals /\ \A i \in DOMAIN rows' : i \notin DOMAIN rows => rows'[i].what = "exit"
  BY <1>0, <1>2 DEF Grows, OneEntryPerBar
<1> QED
  BY <1>1, <1>2, RowsStep

\* However many pushes, jobs and killed requests look at a bar, one entry is queued for it, and
\* its signal says so: the row of the signal and the command are written together.
THEOREM SignalsOneEntryPerBar == Spec => []OneEntryPerBar
<1>1. Init => OneEntryPerBar
  <2> SUFFICES ASSUME Init PROVE OneEntryPerBar
    OBVIOUS
  <2>1. \A i \in DOMAIN rows : i = 1 /\ rows[i] = EntryDone /\ Seen \in 0..MaxBars /\ Seen > 0
    BY StartsAt
  <2>2. Seen > 0 /\ Seen \in 0..MaxBars => signals[EntryDone.of] = "accepted"
    BY SignalAssumption DEF Init, Bars, Carried, EntryDone
  <2> QED
    BY <2>1, <2>2 DEF OneEntryPerBar
<1> QED
  BY <1>1, SignalsInit, TypeStep, EntryStep, PTL DEF Spec

-----------------------------------------------------------------------------
\* Out of the old position, then into the new one

\* Without a queue there is no job.
Inline == ~queued => ~job /\ pass["worker"].at = "idle"

\* Once a request has stored its bars, the newest one is stored for as long as it goes on.
AtNewest == \A r \in Requests :
                pass[r].at \in {"managing", "evaluating", "writing"} => stored = Newest

\* A request writes of the bar it is on, and the averages cross there.
OnItsBar == \A r \in Requests :
                pass[r].at = "writing" => pass[r].bar = stored /\ Crosses(stored)

\* Past the positions, every exit the newest bar calls for has been asked for.
AsksFirst == ~queued =>
                \A r \in Requests : pass[r].at \in {"evaluating", "writing"} =>
                    \A c \in Bars : Reversed(c) => HasExit(c)

PassInv == Inline /\ AtNewest /\ OnItsBar /\ AsksFirst

\* What there is belongs to a bar there is.
Known ==
    /\ \A b \in Bars : position[b] # "none" \/ filed[b].status # "none" => b <= Newest
    /\ \A i \in DOMAIN rows : rows[i].of <= Newest
    /\ \A p \in Passes : pass[p].at = "writing" => pass[p].bar <= Newest

HandedOut == \A i \in batch : rows[i].sent # "never"

\* An exit does not lapse.
ExitsWait == \A i \in DOMAIN rows :
                rows[i].what = "exit" => /\ rows[i].until = MaxBars + 1
                                         /\ rows[i].sent # "never" \/ rows[i].status = "pending"

\* Before every entry stand the exits its bar called for, handed out no later than it is.
OutFirst == ~queued =>
    \A j \in DOMAIN rows : rows[j].what = "enter" =>
        \A c \in Bars :
            filed[c].status = "open" /\ filed[c].opened < rows[j].of /\ bars[rows[j].of] # bars[c] =>
                \E i \in DOMAIN rows : /\ i < j /\ rows[i].what = "exit" /\ rows[i].of = c
                                       /\ rows[j].sent # "never" => rows[i].sent # "never"

RowInv == Known /\ HandedOut /\ ExitsWait /\ OutFirst

OutInv == TypeInv /\ PassInv /\ RowInv

LEMMA OutInit == Init => OutInv
<1> SUFFICES ASSUME Init PROVE OutInv
  OBVIOUS
<1>1. TypeInv /\ Newest = Seen /\ Seen \in 0..MaxBars /\ MaxBars \in Nat
  BY SignalsInit, StartsAt
<1>2. \A p \in Passes : pass[p].at = "idle"
  BY DEF Init, Idle
<1>3. "worker" \in Passes /\ Requests \subseteq Passes
  BY DEF Passes
<1>4. PassInv
  BY <1>2, <1>3 DEF Init, PassInv, Inline, AtNewest, OnItsBar, AsksFirst
<1>5. \A b \in Bars : /\ position[b] # "none" \/ filed[b].status # "none" => b = 1 /\ Seen > 0
                      /\ filed[b].status = "open" => filed[b].opened = 2
  <2>1. \A b \in Bars : filed[b] = Unfiled \/ (filed[b] = OnFile /\ b = 1 /\ Seen > 0)
    BY StartsAt DEF Carried
  <2>2. \A b \in Bars : position[b] # "none" => b = 1 /\ Seen > 0
    BY DEF Init, Carried
  <2> QED
    BY <2>1, <2>2 DEF Unfiled, OnFile
<1>6. \A i \in DOMAIN rows : rows[i].what = "enter" /\ rows[i].of = 1 /\ Seen > 0
  <2>1. EntryDone.what = "enter" /\ EntryDone.of = 1
    BY DEF EntryDone
  <2> QED
    BY <2>1, StartsAt
<1>7. Known
  <2>1. \A b \in Bars : position[b] # "none" \/ filed[b].status # "none" => b <= Newest
    BY <1>1, <1>5
  <2>2. \A i \in DOMAIN rows : rows[i].of <= Newest
    BY <1>1, <1>6
  <2>3. \A p \in Passes : pass[p].at = "writing" => pass[p].bar <= Newest
    BY <1>2
  <2> QED
    BY <2>1, <2>2, <2>3 DEF Known
<1>8. HandedOut
  BY DEF Init, HandedOut
<1>9. ExitsWait
  BY <1>6 DEF ExitsWait
<1>10. OutFirst
  <2>1. \A j \in DOMAIN rows, c \in Bars :
            ~(filed[c].status = "open" /\ filed[c].opened < rows[j].of)
    BY <1>5, <1>6
  <2> QED
    BY <2>1 DEF OutFirst
<1> QED
  BY <1>1, <1>4, <1>7, <1>8, <1>9, <1>10 DEF OutInv, RowInv

LEMMA ExitStays == ASSUME Grows, NEW c, HasExit(c) PROVE HasExit(c)'
BY DEF Grows, HasExit

\* Without a queue nobody but the requests is anywhere.
LEMMA NobodyElse ==
    ASSUME OutInv, ~queued, NEW p \in Passes, pass[p].at # "idle"
    PROVE  p \in Requests
BY DEF OutInv, PassInv, Inline, Passes

\* After a pass over the positions.
LEMMA ManagedAsks ==
    ASSUME TypeOK, rows' = Managed, UNCHANGED <<bars, stored, filed>>
    PROVE  \A c \in Bars : Reversed(c)' => HasExit(c)'
<1> SUFFICES ASSUME NEW c \in Bars, Reversed(c) PROVE HasExit(c)'
  BY DEF Reversed, Crosses
<1>1. CASE HasExit(c)
  BY <1>1, ManagedGrows, ExitStays
<1>2. CASE ~HasExit(c)
  <2>1. c \in Unasked
    BY <1>2 DEF Unasked
  <2>2. PICK i \in DOMAIN Managed : Managed[i] = Exit(c)
    BY <2>1, ManagedRows
  <2> QED
    BY <2>2 DEF HasExit, Exit
<1> QED
  BY <1>1, <1>2

\* The steps that leave the passes where they are, and the series.
LEMMA PassesStay ==
    ASSUME OutInv, Grows, UNCHANGED <<bars, stored, queued, job, pass>>,
           \A c \in Bars : Reversed(c)' => Reversed(c)
    PROVE  PassInv'
<1>1. Inline' /\ AtNewest' /\ OnItsBar'
  BY DEF OutInv, PassInv, Inline, AtNewest, OnItsBar, Newest, Crosses
<1>2. AsksFirst'
  BY ExitStays DEF OutInv, PassInv, AsksFirst
<1> QED
  BY <1>1, <1>2 DEF PassInv

\* The steps of one pass that leave the rows, the books and the series as they are.
LEMMA OnePassMoves ==
    ASSUME OutInv, NEW p \in Passes, NEW x \in Pass, pass' = [pass EXCEPT ![p] = x],
           UNCHANGED <<bars, stored, filed, rows, queued>>,
           ~queued /\ p = "worker" => x.at = "idle", ~queued => ~job',
           x.at \in {"managing", "evaluating", "writing"} => stored = Newest \/ p = "worker",
           x.at = "writing" /\ p \in Requests => x.bar = stored /\ Crosses(stored),
           x.at \in {"evaluating", "writing"} => pass[p].at \in {"evaluating", "writing"}
    PROVE  PassInv'
<1>0. /\ pass \in [Passes -> Pass] /\ "worker" \in Passes /\ Requests \subseteq Passes
      /\ "worker" \notin Requests /\ Newest' = Newest
      /\ PassInv
  BY Basics, SignalAssumption DEF OutInv, TypeInv, TypeOK, Newest
<1>1. Inline'
  BY <1>0 DEF PassInv, Inline
<1>2. AtNewest'
  BY <1>0 DEF PassInv, AtNewest
<1>3. OnItsBar'
  BY <1>0 DEF PassInv, OnItsBar, Crosses
<1>4. AsksFirst'
  <2>1. \A c \in Bars : (Reversed(c)' <=> Reversed(c)) /\ (HasExit(c)' <=> HasExit(c))
    BY DEF Reversed, Crosses, HasExit
  <2> QED
    BY <1>0, <2>1 DEF PassInv, AsksFirst
<1> QED
  BY <1>1, <1>2, <1>3, <1>4 DEF PassInv

LEMMA PassStep ==
    ASSUME OutInv, [Next]_vars
    PROVE  PassInv'
<1> USE DEF terminal, server, counts
<1>0. /\ TypeInv /\ TypeOK /\ Grows /\ queued' = queued /\ PassInv /\ Requests \subseteq Passes
      /\ "worker" \notin Requests /\ "worker" \in Passes /\ stored \in 0..Newest /\ MaxBars \in Nat
      /\ Newest \in 0..MaxBars /\ Idle \in Pass /\ \A p \in Passes : pass[p] \in Pass
  <2>1. TypeInv /\ TypeOK /\ Grows /\ queued' = queued
    BY RowsStep DEF OutInv, TypeInv
  <2>2. MaxBars \in Nat
    BY SignalAssumption
  <2>3. Idle \in Pass
    BY <2>2 DEF Idle, Pass, Stages
  <2> QED
    BY <2>1, <2>2, <2>3, Basics, SignalAssumption DEF OutInv, TypeOK
<1>1. ASSUME NEW side \in Sides, BarCloses(side) PROVE PassInv'
  <2>1. \A r \in Requests : pass'[r].at = "idle"
    BY <1>1 DEF BarCloses
  <2>2. Inline'
    BY <1>0, <1>1 DEF BarCloses, PassInv, Inline
  <2> QED
    BY <2>1, <2>2 DEF PassInv, AtNewest, OnItsBar, AsksFirst
<1>2. ASSUME NEW r \in Requests, Push(r) PROVE PassInv'
  <2> DEFINE x == [pass[r] EXCEPT !.at = "reading"]
  <2>1. x \in Pass /\ x.at = "reading" /\ pass' = [pass EXCEPT ![r] = x]
    BY <1>0, <1>2 DEF Push, Pass, Stages
  <2>2. UNCHANGED <<bars, stored, filed, rows, queued, job>>
    BY <1>2 DEF Push
  <2> HIDE DEF x
  <2> QED
    BY <1>0, <2>1, <2>2, OnePassMoves DEF PassInv, Inline
<1>3. ASSUME NEW r \in Requests, ReadKnown(r) PROVE PassInv'
  <2> DEFINE x == [pass[r] EXCEPT !.at = "storing", !.fresh = IsFresh]
  <2>0. IsFresh \in BOOLEAN
    BY DEF IsFresh
  <2>1. x \in Pass /\ x.at = "storing" /\ pass' = [pass EXCEPT ![r] = x]
    BY <1>0, <1>3, <2>0 DEF ReadKnown, Pass, Stages
  <2>2. UNCHANGED <<bars, stored, filed, rows, queued, job>>
    BY <1>3 DEF ReadKnown
  <2> HIDE DEF x
  <2> QED
    BY <1>0, <2>1, <2>2, OnePassMoves DEF PassInv, Inline
<1>4. ASSUME NEW r \in Requests, Store(r) PROVE PassInv'
  <2>1. stored' = Newest /\ Newest' = Newest /\ UNCHANGED <<bars, filed, rows, queued>>
    BY <1>4 DEF Store, Newest
  <2>2. /\ \A p \in Passes : p # r => pass'[p] = pass[p]
        /\ pass'[r].at \in {"managing", "answering"}
        /\ ~queued => job' = job
    BY <1>0, <1>4 DEF Store, TypeOK, Pass
  <2>3. Inline' /\ AtNewest'
    BY <1>0, <2>1, <2>2 DEF PassInv, Inline, AtNewest
  <2>4. ASSUME NEW q \in Requests, pass'[q].at \in {"evaluating", "writing"}
        PROVE  q # r /\ pass'[q] = pass[q] /\ stored' = stored
    BY <1>0, <2>1, <2>2, <2>4 DEF PassInv, AtNewest
  <2>5. OnItsBar'
    BY <1>0, <2>1, <2>4 DEF PassInv, OnItsBar, Crosses
  <2>6. AsksFirst'
    <3> SUFFICES ASSUME ~queued, NEW q \in Requests, pass'[q].at \in {"evaluating", "writing"},
                        NEW c \in Bars, Reversed(c)'
                 PROVE  HasExit(c)'
      BY <2>1 DEF AsksFirst
    <3>1. Reversed(c) /\ pass[q].at \in {"evaluating", "writing"}
      BY <2>1, <2>4 DEF Reversed, Crosses
    <3> QED
      BY <1>0, <3>1, ExitStays DEF PassInv, AsksFirst
  <2> QED
    BY <2>3, <2>5, <2>6 DEF PassInv
<1>5. ASSUME NEW r \in Requests, Answer(r) PROVE PassInv'
  <2>1. pass' = [pass EXCEPT ![r] = Idle] /\ Idle.at = "idle"
        /\ UNCHANGED <<bars, stored, filed, rows, queued, job>>
    BY <1>5 DEF Answer, Idle
  <2> QED
    BY <1>0, <2>1, OnePassMoves DEF PassInv, Inline
<1>6. ASSUME NEW p \in Passes, Manage(p) PROVE PassInv'
  <2>1. UNCHANGED <<bars, stored, filed, queued, job>> /\ rows' = Managed /\ Newest' = Newest
    BY <1>6 DEF Manage, Newest
  <2>2. /\ \A q \in Passes : q # p => pass'[q] = pass[q]
        /\ pass'[p].at = "evaluating" /\ pass[p].at = "managing"
    BY <1>0, <1>6 DEF Manage, TypeOK, Pass
  <2>3. Inline' /\ AtNewest'
    BY <1>0, <2>1, <2>2 DEF PassInv, Inline, AtNewest
  <2>4. OnItsBar'
    BY <1>0, <2>1, <2>2 DEF PassInv, OnItsBar, Crosses
  <2>5. AsksFirst'
    BY <1>0, <2>1, ManagedAsks DEF AsksFirst
  <2> QED
    BY <2>3, <2>4, <2>5 DEF PassInv
<1>7. ASSUME NEW p \in Passes, UNCHANGED <<bars, stored, filed, rows, queued>>, Over(p) PROVE PassInv'
  <2> DEFINE x == IF p \in Requests THEN [Idle EXCEPT !.at = "answering"] ELSE Idle
  <2>1. \A y \in Pass : /\ [y EXCEPT !.at = "answering"] \in Pass
                        /\ [y EXCEPT !.at = "answering"].at = "answering"
    BY DEF Pass, Stages
  <2>2. x \in Pass /\ x.at \in {"idle", "answering"} /\ (p = "worker" => x.at = "idle")
    BY <1>0, <2>1 DEF Idle
  <2>3. pass' = [pass EXCEPT ![p] = x] /\ (~queued => ~job')
    BY <1>0, <1>7 DEF Over, PassInv, Inline
  <2> HIDE DEF x
  <2> QED
    BY <1>7, <2>2, <2>3, OnePassMoves
<1>8. ASSUME NEW p \in Passes, Evaluate(p) PROVE PassInv'
  <2>1. UNCHANGED <<bars, stored, filed, rows, queued>> /\ pass[p].at = "evaluating"
    BY <1>8 DEF Evaluate
  <2>2. ASSUME Fires, UNCHANGED job, NEW wanted \in BOOLEAN,
               pass' = [pass EXCEPT ![p].at = "writing", ![p].bar = stored, ![p].wanted = wanted]
        PROVE  PassInv'
    <3> DEFINE x == [pass[p] EXCEPT !.at = "writing", !.bar = stored, !.wanted = wanted]
    <3>1. pass' = [pass EXCEPT ![p] = x]
      BY <2>2
    <3>2. stored \in 0..MaxBars
      BY <1>0
    <3>3. x \in Pass /\ x.at = "writing" /\ x.bar = stored
      BY <1>0, <3>2 DEF Pass, Stages
    <3>4. Crosses(stored)
      BY <2>2 DEF Fires
    <3>5. p \in Requests => stored = Newest
      BY <1>0, <2>1 DEF PassInv, AtNewest
    <3>6. p = "worker" => queued
      BY <1>0, <2>1 DEF PassInv, Inline
    <3>7. (~queued => ~job') /\ (p \in Requests \/ p = "worker")
      BY <1>0, <2>2 DEF PassInv, Inline, Passes
    <3> HIDE DEF x
    <3> QED
      BY <2>1, <3>1, <3>3, <3>4, <3>5, <3>6, <3>7, OnePassMoves
  <2> QED
    BY <1>7, <1>8, <2>1, <2>2 DEF Evaluate
<1>9. ASSUME NEW p \in Passes, Write(p) PROVE PassInv'
  <2>1. UNCHANGED <<bars, stored, filed, queued>> /\ Over(p) /\ Newest' = Newest
    BY <1>9 DEF Write, Newest
  <2>2. /\ \A q \in Passes : q # p => pass'[q] = pass[q]
        /\ pass'[p].at \in {"idle", "answering"} /\ (p = "worker" => pass'[p].at = "idle")
        /\ ~queued => ~job'
    <3>1. \A y \in Pass : [y EXCEPT !.at = "answering"].at = "answering"
      BY DEF Pass
    <3>2. Idle.at = "idle"
      BY DEF Idle
    <3> QED
      BY <1>0, <2>1, <3>1, <3>2 DEF Over, TypeOK, PassInv, Inline
  <2>3. Inline' /\ AtNewest'
    BY <1>0, <2>1, <2>2 DEF PassInv, Inline, AtNewest
  <2>4. OnItsBar'
    BY <1>0, <2>1, <2>2 DEF PassInv, OnItsBar, Crosses
  <2>5. AsksFirst'
    <3> SUFFICES ASSUME ~queued, NEW q \in Requests, pass'[q].at \in {"evaluating", "writing"},
                        NEW c \in Bars, Reversed(c)'
                 PROVE  HasExit(c)'
      BY <2>1 DEF AsksFirst
    <3>1. Reversed(c) /\ pass[q].at \in {"evaluating", "writing"}
      BY <1>0, <2>1, <2>2 DEF Reversed, Crosses
    <3> QED
      BY <1>0, <3>1, ExitStays DEF PassInv, AsksFirst
  <2> QED
    BY <2>3, <2>4, <2>5 DEF PassInv
<1>10. ASSUME NEW p \in Passes, Kill(p) PROVE PassInv'
  <2>1. pass' = [pass EXCEPT ![p] = Idle] /\ Idle.at = "idle"
        /\ UNCHANGED <<bars, stored, filed, rows, queued, job>>
    BY <1>10 DEF Kill, Idle
  <2> QED
    BY <1>0, <2>1, OnePassMoves DEF PassInv, Inline
<1>11. CASE StartJob
  <2> DEFINE x == [pass["worker"] EXCEPT !.at = "managing"]
  <2>1. x \in Pass /\ x.at = "managing" /\ pass' = [pass EXCEPT !["worker"] = x]
    BY <1>0, <1>11 DEF StartJob, Pass, Stages
  <2>2. UNCHANGED <<bars, stored, filed, rows, queued, job>> /\ queued
    BY <1>0, <1>11 DEF StartJob, PassInv, Inline
  <2> HIDE DEF x
  <2> QED
    BY <1>0, <2>1, <2>2, OnePassMoves
<1>12. ASSUME UNCHANGED <<bars, stored, filed, queued, job, pass>> PROVE PassInv'
  <2>1. \A c \in Bars : Reversed(c)' => Reversed(c)
    BY <1>12 DEF Reversed, Crosses
  <2> QED
    BY <1>0, <1>12, <2>1, PassesStay
<1>13. ASSUME NEW b \in Bars, Report(b) PROVE PassInv'
  <2>1. UNCHANGED <<bars, stored, queued, job, pass>>
    BY <1>13 DEF Report
  <2>2. ASSUME NEW c \in Bars, Reversed(c)' PROVE Reversed(c)
    <3>1. CASE filed'[c] = filed[c]
      BY <2>1, <2>2, <3>1 DEF Reversed, Crosses
    <3>2. CASE filed'[c].status = "open" /\ filed'[c].opened = Newest + 1
      BY <1>0, <2>1, <2>2, <3>2 DEF Reversed
    <3>3. \/ filed'[c] = filed[c] \/ filed'[c].status = "closed"
          \/ (filed'[c].status = "open" /\ filed'[c].opened = Newest + 1)
      <4>1. filed \in [Bars -> [status : {"none", "open", "closed"}, opened : 0..(MaxBars + 1)]]
        BY <1>0 DEF TypeOK
      <4>2. CASE filed' = [filed EXCEPT ![b] = [status |-> "open", opened |-> Newest + 1]]
        BY <4>1, <4>2
      <4>3. CASE filed' = [filed EXCEPT ![b].status = "closed"]
        BY <4>1, <4>3
      <4> QED
        BY <1>13, <4>2, <4>3 DEF Report
    <3> QED
      BY <2>2, <3>1, <3>2, <3>3 DEF Reversed
  <2> QED
    BY <1>0, <2>1, <2>2, PassesStay
<1>14. ASSUME NEW i \in DOMAIN rows, Execute(i) \/ Sweep(i) PROVE PassInv'
  BY <1>12, <1>14 DEF Execute, Sweep
<1>15. CASE TimeOut \/ ManageTrades \/ Poll \/ UNCHANGED vars
  BY <1>12, <1>15 DEF TimeOut, ManageTrades, Poll, vars
<1> QED
  BY <1>1, <1>2, <1>3, <1>4, <1>5, <1>6, <1>8, <1>9, <1>10, <1>11, <1>13, <1>14, <1>15
     DEF Next, Request, Step, Carry

\* The steps that add no entry, hand nothing out and leave the books and the series.
LEMMA RowsStay ==
    ASSUME OutInv, Grows, UNCHANGED <<bars, filed, queued>>,
           \A i \in DOMAIN rows' : i \notin DOMAIN rows => rows'[i].what = "exit",
           \A i \in DOMAIN rows : rows'[i].what = "enter" /\ rows'[i].sent # "never" => rows[i].sent # "never"
    PROVE  OutFirst'
<1> SUFFICES ASSUME ~queued, NEW j \in DOMAIN rows', rows'[j].what = "enter", NEW c \in Bars,
                    filed[c].status = "open", filed[c].opened < rows'[j].of,
                    bars[rows'[j].of] # bars[c]
             PROVE  \E i \in DOMAIN rows' : /\ i < j /\ rows'[i].what = "exit" /\ rows'[i].of = c
                                            /\ rows'[j].sent # "never" => rows'[i].sent # "never"
  BY DEF OutFirst
<1>1. j \in DOMAIN rows /\ rows[j].what = "enter" /\ rows[j].of = rows'[j].of
  BY DEF Grows
<1>2. PICK i \in DOMAIN rows : /\ i < j /\ rows[i].what = "exit" /\ rows[i].of = c
                               /\ rows[j].sent # "never" => rows[i].sent # "never"
  BY <1>1 DEF OutInv, RowInv, OutFirst
<1> QED
  BY <1>1, <1>2 DEF Grows

LEMMA RowStep ==
    ASSUME OutInv, [Next]_vars
    PROVE  RowInv'
<1> USE DEF terminal, server, counts
<1>0. /\ TypeInv /\ TypeOK /\ Grows /\ queued' = queued /\ PassInv /\ RowInv
      /\ Requests \subseteq Passes /\ stored \in 0..Newest
      /\ MaxBars \in Nat /\ Newest \in 0..MaxBars /\ DOMAIN rows = 1..Len(rows) /\ Len(rows) \in Nat
      /\ \A i \in DOMAIN rows : rows[i] \in Row
  BY RowsStep, Basics DEF OutInv, TypeInv, TypeOK
<1>1. ASSUME UNCHANGED <<bars, position, filed, rows, queued, batch>>,
             \A p \in Passes : pass'[p].at = "writing" => pass'[p] = pass[p] \/ pass'[p].bar = stored
      PROVE  RowInv'
  <2>1. Known'
    <3>1. \A p \in Passes : pass'[p].at = "writing" => pass'[p].bar <= Newest
      BY <1>0, <1>1 DEF RowInv, Known
    <3> QED
      BY <1>0, <1>1, <3>1 DEF RowInv, Known, Newest
  <2>2. HandedOut' /\ ExitsWait' /\ OutFirst'
    BY <1>0, <1>1 DEF RowInv, HandedOut, ExitsWait, OutFirst
  <2> QED
    BY <2>1, <2>2 DEF RowInv
<1>2. ASSUME NEW side \in Sides, BarCloses(side) PROVE RowInv'
  <2>1. /\ Newest' = Newest + 1 /\ \A b \in 1..Newest : bars'[b] = bars[b]
        /\ UNCHANGED <<position, filed, rows, batch, pass>>
    BY <1>0, <1>2, AppendProperties DEF BarCloses, Newest, TypeOK
  <2>2. Known'
    <3>1. \A p \in Passes : pass[p].at = "writing" => pass[p].bar <= Newest + 1
      BY <1>0 DEF RowInv, Known, TypeOK, Pass
    <3>2. \A i \in DOMAIN rows : rows[i].of <= Newest + 1
      BY <1>0 DEF RowInv, Known, Row, Bars
    <3>3. \A b \in Bars : position[b] # "none" \/ filed[b].status # "none" => b <= Newest + 1
      BY <1>0 DEF RowInv, Known, Bars
    <3> QED
      BY <2>1, <3>1, <3>2, <3>3 DEF Known
  <2>3. HandedOut' /\ ExitsWait'
    BY <1>0, <2>1 DEF RowInv, HandedOut, ExitsWait
  <2>4. OutFirst'
    <3>1. ASSUME NEW c \in Bars, filed[c].status = "open" PROVE bars'[c] = bars[c]
      <4>1. c \in 1..Newest
        BY <1>0, <3>1 DEF RowInv, Known, Bars
      <4> QED
        BY <2>1, <4>1
    <3>2. ASSUME NEW j \in DOMAIN rows PROVE bars'[rows[j].of] = bars[rows[j].of]
      <4>1. rows[j].of \in 1..Newest
        BY <1>0 DEF RowInv, Known, Row, Bars
      <4> QED
        BY <2>1, <4>1
    <3> QED
      BY <1>0, <2>1, <3>1, <3>2 DEF RowInv, OutFirst
  <2> QED
    BY <2>2, <2>3, <2>4 DEF RowInv
<1>3. ASSUME rows' = Managed, UNCHANGED <<bars, position, filed, queued, batch>>,
             \A p \in Passes : pass'[p].at = "writing" => pass'[p] = pass[p]
      PROVE  RowInv'
  <2>1. \A i \in DOMAIN rows' :
            \/ i \in DOMAIN rows /\ (rows'[i] = rows[i] \/ rows'[i].status = "pending")
                                 /\ rows'[i].sent = rows[i].sent
            \/ i \notin DOMAIN rows /\ \E b \in Unasked : rows'[i] = Exit(b)
    BY <1>0, <1>3, ManagedGrows
  <2>2. ASSUME NEW b \in Unasked
        PROVE  /\ b <= Newest /\ Exit(b).of = b /\ Exit(b).what = "exit"
               /\ Exit(b).until = MaxBars + 1 /\ Exit(b).status = "pending"
    BY <1>0 DEF RowInv, Known, Unasked, Reversed, Exit
  <2>3. Known'
    <3>1. \A i \in DOMAIN rows' : rows'[i].of <= Newest
      BY <1>0, <2>1, <2>2 DEF RowInv, Known, Grows
    <3> QED
      BY <1>0, <1>3, <3>1 DEF RowInv, Known, Newest
  <2>4. HandedOut'
    BY <1>0, <1>3 DEF RowInv, HandedOut, Grows, TypeOK
  <2>5. ExitsWait'
    BY <1>0, <2>1, <2>2 DEF RowInv, ExitsWait, Grows
  <2>6. OutFirst'
    <3>1. \A i \in DOMAIN rows : rows'[i].sent = rows[i].sent
      BY <1>0, <2>1 DEF Grows
    <3>2. \A i \in DOMAIN rows' : i \notin DOMAIN rows => rows'[i].what = "exit"
      BY <2>1, <2>2
    <3> QED
      BY <1>0, <1>3, <3>1, <3>2, RowsStay
  <2> QED
    BY <2>3, <2>4, <2>5, <2>6 DEF RowInv
<1>4. ASSUME NEW p \in Passes, Write(p) PROVE RowInv'
  <2> DEFINE b == pass[p].bar
  <2>1. UNCHANGED <<bars, position, filed, queued, batch>> /\ Newest' = Newest
        /\ pass[p].at = "writing" /\ b \in Bars /\ b <= Newest
    BY <1>0, <1>4 DEF Write, Newest, TypeInv, WritesABar, RowInv, Known
  <2>2. \A q \in Passes : pass'[q].at = "writing" => pass'[q] = pass[q]
    <3>1. \A y \in Pass : [y EXCEPT !.at = "answering"].at = "answering"
      BY DEF Pass
    <3>2. Idle.at = "idle" /\ Idle \in Pass
      BY <1>0 DEF Idle, Pass, Stages
    <3> QED
      BY <1>0, <1>4, <3>1, <3>2 DEF Write, Over, TypeOK
  <2>3. CASE rows' = rows
    BY <1>1, <2>1, <2>2, <2>3
  <2>4. CASE rows' = Append(rows, Entry(b))
    <3>1. Entry(b) \in Row /\ Entry(b).of = b /\ Entry(b).what = "enter" /\ Entry(b).sent = "never"
      BY <1>0, <2>1 DEF Entry, Row
    <3> DEFINE n == Len(rows')
    <3>2. /\ rows'[n] = Entry(b) /\ DOMAIN rows' = DOMAIN rows \union {n}
          /\ \A i \in DOMAIN rows : rows'[i] = rows[i] /\ i < n
      BY <1>0, <2>4, <3>1, AppendGrows
    <3> HIDE DEF n
    <3>3. \A i \in DOMAIN rows' : rows'[i].of <= Newest
      BY <1>0, <2>1, <3>1, <3>2 DEF RowInv, Known
    <3>4. Known'
      BY <1>0, <2>1, <2>2, <3>3 DEF RowInv, Known
    <3>5. HandedOut'
      BY <1>0, <2>1, <3>2 DEF RowInv, HandedOut, TypeOK
    <3>6. ExitsWait'
      BY <1>0, <3>1, <3>2 DEF RowInv, ExitsWait
    <3>7. ASSUME ~queued, NEW c \in Bars, filed[c].status = "open", filed[c].opened < b,
                 bars[b] # bars[c]
          PROVE  HasExit(c)
      <4>1. p \in Requests
        BY <2>1, <3>7, NobodyElse
      <4>2. b = stored /\ Crosses(stored)
        BY <1>0, <2>1, <4>1 DEF PassInv, OnItsBar
      <4>3. Reversed(c)
        BY <3>7, <4>2 DEF Reversed
      <4> QED
        BY <1>0, <2>1, <3>7, <4>1, <4>3 DEF PassInv, AsksFirst
    <3>8. OutFirst'
      <4> SUFFICES ASSUME ~queued, NEW j \in DOMAIN rows', rows'[j].what = "enter", NEW c \in Bars,
                          filed[c].status = "open", filed[c].opened < rows'[j].of,
                          bars[rows'[j].of] # bars[c]
                   PROVE  \E i \in DOMAIN rows' : /\ i < j /\ rows'[i].what = "exit" /\ rows'[i].of = c
                                                  /\ rows'[j].sent # "never" => rows'[i].sent # "never"
        BY <2>1 DEF OutFirst
      <4>1. CASE j = n
        BY <3>1, <3>2, <3>7, <4>1 DEF HasExit
      <4>2. CASE j \in DOMAIN rows
        <5>1. PICK i \in DOMAIN rows : /\ i < j /\ rows[i].what = "exit" /\ rows[i].of = c
                                       /\ rows[j].sent # "never" => rows[i].sent # "never"
          BY <1>0, <3>2, <4>2 DEF RowInv, OutFirst
        <5> QED
          BY <3>2, <4>2, <5>1
      <4> QED
        BY <3>2, <4>1, <4>2
    <3> QED
      BY <3>4, <3>5, <3>6, <3>8 DEF RowInv
  <2> QED
    BY <1>4, <2>3, <2>4 DEF Write
<1>5. ASSUME Poll PROVE RowInv'
  <2>1. /\ DOMAIN rows' = DOMAIN rows
        /\ \A i \in DOMAIN rows :
              IF Claimable(i) THEN rows'[i].status = "claimed" /\ rows'[i].sent # "never"
                              ELSE rows'[i] = rows[i]
        /\ batch' \subseteq {i \in DOMAIN rows : Claimable(i)}
        /\ UNCHANGED <<bars, position, filed, queued, pass>> /\ Newest' = Newest
    BY <1>0, <1>5, PollGrows DEF Poll, Newest
  <2>2. Known'
    BY <1>0, <2>1 DEF RowInv, Known, Grows
  <2>3. HandedOut'
    BY <2>1 DEF HandedOut
  <2>4. ExitsWait'
    BY <1>0, <2>1 DEF RowInv, ExitsWait, Grows
  <2>5. OutFirst'
    <3> SUFFICES ASSUME ~queued, NEW j \in DOMAIN rows, rows[j].what = "enter", NEW c \in Bars,
                        filed[c].status = "open", filed[c].opened < rows[j].of,
                        bars[rows[j].of] # bars[c]
                 PROVE  \E i \in DOMAIN rows' : /\ i < j /\ rows'[i].what = "exit" /\ rows'[i].of = c
                                                /\ rows'[j].sent # "never" => rows'[i].sent # "never"
      BY <1>0, <2>1 DEF OutFirst, Grows
    <3>1. PICK i \in DOMAIN rows : /\ i < j /\ rows[i].what = "exit" /\ rows[i].of = c
                                   /\ rows[j].sent # "never" => rows[i].sent # "never"
      BY <1>0 DEF RowInv, OutFirst
    <3>2. rows[i].sent # "never" \/ Claimable(i)
      BY <1>0, <3>1 DEF RowInv, ExitsWait, Claimable
    <3>3. rows'[i].sent # "never"
      BY <1>0, <2>1, <3>2 DEF Grows
    <3> QED
      BY <1>0, <2>1, <3>1, <3>3 DEF Grows
  <2> QED
    BY <2>2, <2>3, <2>4, <2>5 DEF RowInv
<1>6. ASSUME NEW i \in DOMAIN rows, UNCHANGED <<bars, filed, queued, pass>>, batch' \subseteq batch,
             \A b \in Bars : position'[b] # "none" => position[b] # "none" \/ b = rows[i].of,
             \/ rows' = rows
             \/ /\ \E t \in {"done", "failed", "expired"} : rows' = [rows EXCEPT ![i].status = t]
                /\ rows[i].what = "exit" => rows[i].sent # "never"
      PROVE  RowInv'
  <2>1. /\ DOMAIN rows' = DOMAIN rows
        /\ \A j \in DOMAIN rows : rows'[j] = rows[j] \/ j = i
        /\ rows'[i].sent = rows[i].sent
    BY <1>0, <1>6, RowAnswered
  <2>2. Known'
    <3>1. \A b \in Bars : position'[b] # "none" => b <= Newest
      BY <1>0, <1>6 DEF RowInv, Known
    <3> QED
      BY <1>0, <1>6, <2>1, <3>1 DEF RowInv, Known, Grows, Newest
  <2>3. HandedOut'
    BY <1>0, <1>6, <2>1 DEF RowInv, HandedOut, Grows, TypeOK
  <2>4. ExitsWait'
    <3> SUFFICES ASSUME NEW j \in DOMAIN rows, rows'[j].what = "exit"
                 PROVE  /\ rows'[j].until = MaxBars + 1
                        /\ rows'[j].sent # "never" \/ rows'[j].status = "pending"
      BY <2>1 DEF ExitsWait
    <3>1. CASE rows'[j] = rows[j]
      BY <1>0, <3>1 DEF RowInv, ExitsWait
    <3>2. CASE j = i /\ rows' # rows
      BY <1>0, <1>6, <2>1, <3>2 DEF RowInv, ExitsWait, Grows
    <3> QED
      BY <2>1, <3>1, <3>2
  <2>5. OutFirst'
    <3>1. \A j \in DOMAIN rows : rows'[j].sent = rows[j].sent
      BY <2>1
    <3> QED
      BY <1>0, <1>6, <2>1, <3>1, RowsStay
  <2> QED
    BY <2>2, <2>3, <2>4, <2>5 DEF RowInv
<1>7. ASSUME NEW i \in DOMAIN rows, Execute(i) PROVE RowInv'
  <2>1. UNCHANGED <<bars, filed, queued, pass>>
    BY <1>7 DEF Execute
  <2>2. rows[i].sent # "never" /\ batch' \subseteq batch
    BY <1>0, <1>7, ExecuteSteps DEF IsNext, RowInv, HandedOut
  <2>3. \A b \in Bars : position'[b] # "none" => position[b] # "none" \/ b = rows[i].of
    <3>1. position \in [Bars -> {"none", "held", "closed"}]
      BY <1>0 DEF TypeOK
    <3> QED
      BY <1>0, <1>7, <3>1, ExecuteSteps
  <2> QED
    BY <1>0, <1>6, <1>7, <2>1, <2>2, <2>3, ExecuteSteps
<1>8. ASSUME NEW i \in DOMAIN rows, Sweep(i) PROVE RowInv'
  <2>1. UNCHANGED <<bars, filed, queued, pass, batch, position>>
        /\ rows' = [rows EXCEPT ![i].status = "expired"]
    BY <1>8 DEF Sweep
  <2>2. rows[i].what = "exit" => rows[i].sent # "never"
    BY <1>0, <1>8 DEF Sweep, RowInv, ExitsWait
  <2> QED
    BY <1>6, <2>1, <2>2
<1>9. ASSUME NEW b \in Bars, Report(b) PROVE RowInv'
  <2>1. UNCHANGED <<bars, position, rows, queued, batch, pass>> /\ Newest' = Newest
    BY <1>9 DEF Report, Newest
  <2>2. /\ \A c \in Bars : c # b => filed'[c] = filed[c]
        /\ position[b] # "none"
        /\ filed'[b].status = "open" => filed'[b].opened = Newest + 1
    <3>1. filed \in [Bars -> [status : {"none", "open", "closed"}, opened : 0..(MaxBars + 1)]]
          /\ position[b] \in {"none", "held", "closed"}
      BY <1>0 DEF TypeOK
    <3>2. CASE /\ position[b] # "none"
               /\ filed' = [filed EXCEPT ![b] = [status |-> "open", opened |-> Newest + 1]]
      BY <3>1, <3>2
    <3>3. CASE position[b] = "closed" /\ filed' = [filed EXCEPT ![b].status = "closed"]
      BY <3>1, <3>3
    <3> QED
      BY <1>9, <3>2, <3>3 DEF Report
  <2>3. Known'
    BY <1>0, <2>1, <2>2 DEF RowInv, Known
  <2>4. HandedOut' /\ ExitsWait'
    BY <1>0, <2>1 DEF RowInv, HandedOut, ExitsWait
  <2>5. OutFirst'
    <3> SUFFICES ASSUME ~queued, NEW j \in DOMAIN rows, rows[j].what = "enter", NEW c \in Bars,
                        filed'[c].status = "open", filed'[c].opened < rows[j].of,
                        bars[rows[j].of] # bars[c]
                 PROVE  \E i \in DOMAIN rows : /\ i < j /\ rows[i].what = "exit" /\ rows[i].of = c
                                               /\ rows[j].sent # "never" => rows[i].sent # "never"
      BY <2>1 DEF OutFirst
    <3>1. rows[j].of <= Newest /\ rows[j].of \in Nat
      BY <1>0 DEF RowInv, Known, Row, Bars
    <3>2. c # b
      BY <1>0, <2>2, <3>1
    <3> QED
      BY <1>0, <2>2, <3>2 DEF RowInv, OutFirst
  <2> QED
    BY <2>3, <2>4, <2>5 DEF RowInv
<1>10. ASSUME NEW p \in Passes, Manage(p) PROVE RowInv'
  <2>1. \A q \in Passes : pass'[q].at = "writing" => pass'[q] = pass[q]
    BY <1>0, <1>10 DEF Manage, TypeOK, Pass
  <2> QED
    BY <1>3, <1>10, <2>1 DEF Manage
<1>11. ASSUME NEW p \in Passes, Evaluate(p) PROVE RowInv'
  <2>1. \A q \in Passes : pass'[q].at = "writing" => pass'[q] = pass[q] \/ pass'[q].bar = stored
    <3>1. CASE Over(p)
      <4>1. \A y \in Pass : [y EXCEPT !.at = "answering"].at = "answering"
        BY DEF Pass
      <4>2. Idle.at = "idle" /\ Idle \in Pass
        BY <1>0 DEF Idle, Pass, Stages
      <4> QED
        BY <1>0, <3>1, <4>1, <4>2 DEF Over, TypeOK
    <3>2. ASSUME NEW wanted \in BOOLEAN,
                 pass' = [pass EXCEPT ![p].at = "writing", ![p].bar = stored, ![p].wanted = wanted]
          PROVE  <2>1
      BY <1>0, <3>2 DEF TypeOK, Pass
    <3> QED
      BY <1>11, <3>1, <3>2 DEF Evaluate
  <2> QED
    BY <1>1, <1>11, <2>1 DEF Evaluate
<1>12. ASSUME NEW p \in Passes, Kill(p) PROVE RowInv'
  <2>1. \A q \in Passes : pass'[q].at = "writing" => pass'[q] = pass[q]
    BY <1>0, <1>12 DEF Kill, TypeOK, Idle
  <2> QED
    BY <1>1, <1>12, <2>1 DEF Kill
<1>13. ASSUME NEW r \in Requests, Request(r) PROVE RowInv'
  <2>1. \A q \in Passes : pass'[q].at = "writing" => pass'[q] = pass[q]
    BY <1>0, <1>13 DEF Request, Push, ReadKnown, Store, Answer, TypeOK, Idle, Pass
  <2> QED
    BY <1>1, <1>13, <2>1 DEF Request, Push, ReadKnown, Store, Answer
<1>14. CASE StartJob
  <2>1. \A q \in Passes : pass'[q].at = "writing" => pass'[q] = pass[q]
    BY <1>0, <1>14 DEF StartJob, TypeOK, Pass
  <2> QED
    BY <1>1, <1>14, <2>1 DEF StartJob
<1>15. CASE ManageTrades
  BY <1>3, <1>15 DEF ManageTrades
<1>16. CASE TimeOut \/ UNCHANGED vars
  BY <1>1, <1>16 DEF TimeOut, vars
<1> QED
  BY <1>2, <1>4, <1>5, <1>7, <1>8, <1>9, <1>10, <1>11, <1>12, <1>13, <1>14, <1>15, <1>16
     DEF Next, Step, Carry

LEMMA OutStep == OutInv /\ [Next]_vars => OutInv'
BY TypeStep, PassStep, RowStep DEF OutInv

\* The step that opens a position.
LEMMA OpensOut ==
    ASSUME OutInv, [Next]_vars, NEW b \in Bars, NEW c \in Bars,
           position[b] = "none", position'[b] = "held", ~queued,
           filed[c].status = "open", filed[c].opened < b, bars[b] # bars[c]
    PROVE  \E i \in DOMAIN rows :
              /\ rows[i].what = "exit" /\ rows[i].of = c
              /\ rows[i].sent = "lost" \/ (rows[i].sent = "received" /\ i \notin batch)
<1> USE DEF terminal, server, counts
<1>0. TypeOK /\ RowInv /\ position \in [Bars -> {"none", "held", "closed"}]
      /\ DOMAIN rows = 1..Len(rows) /\ Len(rows) \in Nat
  BY Basics DEF OutInv, TypeInv, TypeOK
<1>1. PICK j \in DOMAIN rows : Execute(j)
  <2>1. position' # position
    OBVIOUS
  <2> QED
    BY <2>1 DEF Next, Request, Step, Carry, BarCloses, Push, ReadKnown, Store, Answer, Manage,
       Evaluate, Write, Kill, TimeOut, ManageTrades, StartJob, Poll, Sweep, Report, vars
<1>2. IsNext(j) /\ rows[j].what = "enter" /\ rows[j].of = b
  BY <1>0, <1>1, ExecuteSteps
<1>3. rows[j].sent # "never"
  BY <1>0, <1>2 DEF IsNext, RowInv, HandedOut
<1>4. PICK i \in DOMAIN rows : i < j /\ rows[i].what = "exit" /\ rows[i].of = c /\ rows[i].sent # "never"
  BY <1>0, <1>2, <1>3 DEF RowInv, OutFirst
<1>5. i \notin batch
  BY <1>0, <1>2, <1>4 DEF IsNext
<1>6. rows[i].sent \in {"never", "lost", "received"}
  BY <1>0, Basics DEF Row
<1> QED
  BY <1>4, <1>5, <1>6

\* Evaluated in the request, no position is opened before the terminal has had the exit of
\* every position its bar reverses, whatever is refused, late or killed, and whatever else is
\* lost than the answer that carried that exit.
THEOREM SignalsOutBeforeIn == Spec => OutBeforeIn
<1>1. OutInv /\ [Next]_vars =>
        [\A b, c \in Bars :
            /\ position[b] = "none" /\ position'[b] = "held" /\ ~queued
            /\ position[c] = "held" /\ filed[c].status = "open" /\ filed[c].opened < b
            /\ bars[b] # bars[c]
            => \E i \in DOMAIN rows :
                  /\ rows[i].what = "exit" /\ rows[i].of = c
                  /\ rows[i].sent = "lost" \/ (rows[i].sent = "received" /\ i \notin batch)]_vars
  BY OpensOut
<1> QED
  BY <1>1, OutInit, OutStep, PTL DEF Spec, OutBeforeIn

=============================================================================
