----------------------------- MODULE ViewProofs -----------------------------
(***************************************************************************)
(* Proofs about what the API shows.  Of Availability, for any length of a  *)
(* day and of a second and any number of rows, stops, gaps and cycles: the *)
(* reports count every moment once, but for what their conversions to      *)
(* seconds lose or add, and every outage once.  Of Topology, for any       *)
(* number of endpoints, routers, requests, transitions and faults: the     *)
(* graph is well formed, follows the rows, and leads to every endpoint.    *)
(***************************************************************************)
EXTENDS Availability, Topology, SequenceTheorems, FiniteSetTheorems, TLAPS

-----------------------------------------------------------------------------
(* Availability.                                                           *)

\* What the proofs need of the types.
RowTypes ==
  /\ now \in Times /\ Created <= now
  /\ rows \in Seq(Row)
  /\ Len(rows) \in Nat

Inv == RowTypes /\ RowsAreDisjoint

LEMMA InitInv == Init => Inv
BY BoundsAssumption DEF Init, Inv, RowTypes, RowsAreDisjoint, Times, Row

\* Closing all rows now leaves closed rows that are disjoint and not in the future.
LEMMA ClosedRows ==
  ASSUME Inv
  PROVE  /\ CloseAll \in Seq(Row) /\ Len(CloseAll) = Len(rows)
         /\ \A i \in 1..Len(rows) :
              /\ CloseAll[i].start = rows[i].start /\ CloseAll[i].end \in Nat
              /\ rows[i].start <= CloseAll[i].end /\ CloseAll[i].end <= now
              /\ Created <= rows[i].start
              /\ \A j \in 1..Len(rows) : i < j => CloseAll[i].end <= rows[j].start
<1>1. \A i \in 1..Len(rows) : rows[i] \in Row
  BY DEF Inv, RowTypes
<1>2. \A i \in 1..Len(rows) :
        /\ Closed(rows[i]) \in Row
        /\ Closed(rows[i]).start = rows[i].start
        /\ Closed(rows[i]).end = EndOf(rows[i])
  BY <1>1, BoundsAssumption DEF Closed, EndOf, IsOpen, Row, Inv, RowTypes
<1>3. CloseAll = [i \in 1..Len(rows) |-> Closed(rows[i])]
  BY DEF CloseAll, Inv, RowTypes
<1>4. \A i \in 1..Len(rows) : EndOf(rows[i]) \in Nat
  BY <1>1, BoundsAssumption DEF EndOf, IsOpen, Row, Inv, RowTypes, Times
<1>5. CloseAll \in Seq(Row) /\ Len(CloseAll) = Len(rows)
  BY <1>2, <1>3 DEF Inv, RowTypes
<1>6. DOMAIN rows = 1..Len(rows)
  BY DEF Inv, RowTypes
<1>7. \A i \in 1..Len(rows) : CloseAll[i] = Closed(rows[i])
  BY <1>3
<1> QED BY <1>2, <1>4, <1>5, <1>6, <1>7 DEF Inv, RowsAreDisjoint, EndOf

\* Rows that are all closed, disjoint and not in the future stay so.
LEMMA AllClosed ==
  ASSUME Inv, rows' = CloseAll, now' = now
  PROVE  Inv'
<1>1. DOMAIN rows' = 1..Len(rows) /\ Len(rows') = Len(rows)
  BY ClosedRows DEF Inv, RowTypes
<1>2. \A i \in 1..Len(rows) : rows'[i].end # Null
  BY ClosedRows, BoundsAssumption
<1>3. RowTypes'
  BY ClosedRows DEF Inv, RowTypes
<1> QED BY <1>1, <1>2, <1>3, ClosedRows DEF Inv, RowsAreDisjoint, EndOf, IsOpen

\* So does a new row after them.
LEMMA Added ==
  ASSUME Inv, NEW op \in Ops, rows' = Append(CloseAll, NewRow(op)), now' = now
  PROVE  Inv'
<1> DEFINE n == Len(rows)
<1>1. NewRow(op) \in Row /\ NewRow(op).start = now /\ NewRow(op).end = Null
  BY DEF NewRow, Row, Inv, RowTypes
<1>2. /\ rows' \in Seq(Row) /\ Len(rows') = n + 1 /\ n \in Nat
      /\ rows'[n + 1] = NewRow(op) /\ \A i \in 1..n : rows'[i] = CloseAll[i]
  BY <1>1, ClosedRows DEF Inv, RowTypes
<1>3. DOMAIN rows' = 1..(n + 1)
  BY <1>2
<1>4. RowTypes'
  BY <1>2 DEF Inv, RowTypes
<1>5. now \in Nat /\ Created <= now
  BY BoundsAssumption DEF Inv, RowTypes, Times
<1>6. ASSUME NEW i \in 1..(n + 1)
      PROVE  /\ Created <= rows'[i].start
             /\ rows'[i].start <= EndOf(rows[i])' /\ EndOf(rows[i])' <= now'
             /\ \A j \in 1..(n + 1) :
                  i < j => rows'[i].end # Null /\ rows'[i].end <= rows'[j].start
  <2>1. CASE i = n + 1
    BY <1>1, <1>2, <1>5, <2>1 DEF EndOf, IsOpen
  <2>2. CASE i \in 1..n
    <3>1. /\ rows'[i] = CloseAll[i] /\ CloseAll[i].end \in Nat /\ CloseAll[i].end # Null
          /\ CloseAll[i].start = rows[i].start
          /\ rows[i].start <= CloseAll[i].end /\ CloseAll[i].end <= now
          /\ Created <= rows[i].start
          /\ \A j \in 1..n : i < j => CloseAll[i].end <= rows[j].start
      BY <1>2, <2>2, ClosedRows, BoundsAssumption
    <3>2. EndOf(rows[i])' = CloseAll[i].end
      BY <3>1 DEF EndOf, IsOpen
    <3>3. \A j \in 1..n : rows'[j].start = rows[j].start
      BY <1>2, ClosedRows
    <3> QED BY <1>1, <1>2, <3>1, <3>2, <3>3
  <2> QED BY <1>2, <2>1, <2>2
<1> QED BY <1>3, <1>4, <1>6 DEF Inv, RowsAreDisjoint, EndOf, IsOpen

\* What a roll-over or a replacement repeats is an operational state.
LEMMA LatestOp ==
  ASSUME Inv, rows # <<>>
  PROVE  Latest.op \in Ops
<1>1. rows \in Seq(Row)
  BY DEF Inv, RowTypes
<1>2. Len(rows) \in Nat \ {0}
  BY <1>1, EmptySeq
<1>3. rows[Len(rows)] \in Row
  BY <1>1, <1>2
<1> QED BY <1>3 DEF Latest, Row

LEMMA StepInv == Inv /\ [Next]_vars => Inv'
<1> SUFFICES ASSUME Inv, [Next]_vars PROVE Inv'
  OBVIOUS
<1>1. CASE Start \/ ForeignStartup
  BY <1>1, AllClosed DEF Start, ForeignStartup
<1>2. CASE FirstCycle
  <2>1. CloseAll = rows
    <3>1. CloseAll \in Seq(Row) /\ Len(CloseAll) = 0 /\ rows = <<>>
      BY <1>2, ClosedRows DEF FirstCycle
    <3> QED BY <3>1, EmptySeq
  <2> QED BY <1>2, <2>1, Added DEF FirstCycle, Cycle, AddRow
<1>3. CASE ChangeCycle
  BY <1>3, Added DEF ChangeCycle, Cycle, AddRow
<1>4. CASE SameCycle
  <2>1. CASE UNCHANGED rows
    BY <1>4, <2>1 DEF SameCycle, Cycle, Inv, RowTypes, RowsAreDisjoint, EndOf
  <2>2. CASE AddRow(CloseAll, Latest.op)
    BY <1>4, <2>2, LatestOp, Added DEF SameCycle, Cycle, AddRow
  <2> QED BY <1>4, <2>1, <2>2 DEF SameCycle
<1>5. CASE Tick
  <2>1. now' = now + 1 /\ rows' = rows /\ now' \in Times
    BY <1>5, BoundsAssumption DEF Tick, Inv, RowTypes, Times
  <2>2. \A i \in DOMAIN rows : rows[i] \in Row
    BY DEF Inv, RowTypes
  <2> QED BY <2>1, <2>2, BoundsAssumption
          DEF Inv, RowTypes, RowsAreDisjoint, EndOf, IsOpen, Times, Row
<1>6. CASE Stop \/ EnterGap \/ UNCHANGED vars
  BY <1>6 DEF Stop, EnterGap, vars, Inv, RowTypes, RowsAreDisjoint, EndOf
<1> QED BY <1>1, <1>2, <1>3, <1>4, <1>5, <1>6 DEF Next

\* Roll-overs, confirmed changes, replaced rows, start-ups and other workers'
\* cleanups leave rows that share no moment, so that a sum over rows counts none
\* twice.
THEOREM NoMomentTwice == Spec => []RowsAreDisjoint
<1>1. Inv => RowsAreDisjoint
  BY DEF Inv
<1> QED BY <1>1, InitInv, StepInv, PTL DEF Spec

-----------------------------------------------------------------------------
(* What the history variables and the gaps have to do with the rows.       *)

\* The times a row lasts.
Span(r) == r.start..(EndOf(r) - 1)

\* past repeats what the rows say of every time that has passed.
PastInv ==
  /\ past \in [0..(now - 1) -> Ops \cup {"none"}]
  /\ \A t \in 0..(now - 1), op \in Ops :
       past[t] = op <=> \E i \in 1..Len(rows) : rows[i].op = op /\ t \in Span(rows[i])

\* Gaps are past, not empty, and share no time.
GapInv ==
  /\ IsFiniteSet(gaps)
  /\ \A g \in gaps :
       /\ g.start \in Nat /\ g.end \in Nat /\ g.start < g.end
       /\ \A h \in gaps : g # h => g.end <= h.start \/ h.end <= g.start

\* Rows start at different times, and two DOWN rows belong to the same outage
\* exactly when there is no UP row between them.
OutageInv ==
  /\ outages \in Seq(Nat) /\ Len(outages) = Len(rows)
  /\ \A i \in 1..Len(rows) :
       /\ outages[i] = 0 <=> rows[i].op = "UP"
       /\ rows[i].start = now => done
       /\ \A j \in 1..Len(rows) : i < j =>
            /\ rows[i].start < rows[j].start
            /\ rows[i].op = "DOWN" /\ rows[j].op = "DOWN" =>
                 /\ outages[i] <= outages[j]
                 /\ outages[i] = outages[j] <=> \A k \in i..j : rows[k].op = "DOWN"

\* What a step other than Tick leaves of the rows there are.
SameRows ==
  /\ now' = now /\ past' = past
  /\ \A i \in 1..Len(rows) :
       /\ rows'[i].op = rows[i].op /\ rows'[i].start = rows[i].start
       /\ EndOf(rows[i])' = EndOf(rows[i])

\* A step that adds no row.
Kept ==
  /\ SameRows
  /\ Len(rows') = Len(rows) /\ outages' = outages /\ (done => done')

\* The number a new row's outage gets.
NextOutage(op) ==
  IF op = "UP" THEN 0
  ELSE IF rows # <<>> /\ Latest.op = "DOWN" THEN LastOutage
  ELSE LastOutage + 1

\* A step that adds a row.
Grown(op) ==
  /\ SameRows
  /\ Len(rows') = Len(rows) + 1 /\ rows'[Len(rows) + 1] = NewRow(op)
  /\ outages' = Append(outages, NextOutage(op))
  /\ ~done /\ done'

\* Closing the rows now changes neither their states nor the times they last.
LEMMA ClosedSame ==
  ASSUME Inv
  PROVE  \A i \in 1..Len(rows) :
           /\ CloseAll[i].op = rows[i].op /\ CloseAll[i].start = rows[i].start
           /\ CloseAll[i].end = EndOf(rows[i]) /\ CloseAll[i].end # Null
<1>1. \A i \in 1..Len(rows) : rows[i] \in Row
  BY DEF Inv, RowTypes
<1>2. CloseAll = [i \in 1..Len(rows) |-> Closed(rows[i])]
  BY DEF CloseAll, Inv, RowTypes
<1>3. \A i \in 1..Len(rows) : CloseAll[i] = Closed(rows[i])
  BY <1>2
<1>4. now \in Nat /\ Null \notin Nat
  BY BoundsAssumption DEF Inv, RowTypes, Times
<1> QED BY <1>1, <1>3, <1>4 DEF Closed, EndOf, IsOpen, Row, Times

LEMMA AddedRow ==
  ASSUME Inv, NEW op \in Ops, AddRow(CloseAll, op), Cycle
  PROVE  Grown(op)
<1>1. NewRow(op) \in Row
  BY DEF NewRow, Row, Inv, RowTypes
<1>2. /\ rows' = Append(CloseAll, NewRow(op)) /\ outages' = Append(outages, NextOutage(op))
      /\ now' = now /\ past' = past /\ ~done /\ done'
  BY DEF AddRow, Cycle, NextOutage
<1>3. /\ Len(rows') = Len(rows) + 1 /\ rows'[Len(rows) + 1] = NewRow(op)
      /\ \A i \in 1..Len(rows) : rows'[i] = CloseAll[i]
  BY <1>1, <1>2, ClosedRows DEF Inv, RowTypes
<1>4. \A i \in 1..Len(rows) : EndOf(rows[i])' = EndOf(rows[i])
  BY <1>3, ClosedSame DEF EndOf, IsOpen
<1> QED BY <1>2, <1>3, <1>4, ClosedSame DEF Grown, SameRows

LEMMA Steps ==
  ASSUME Inv, [Next]_vars
  PROVE  Kept \/ (\E op \in Ops : Grown(op)) \/ Tick
<1>1. CASE Start \/ ForeignStartup
  <2>1. rows' = CloseAll /\ now' = now /\ past' = past /\ outages' = outages /\ done' = done
    BY <1>1 DEF Start, ForeignStartup
  <2>2. Len(rows') = Len(rows)
    BY <2>1, ClosedRows
  <2>3. \A i \in 1..Len(rows) : EndOf(rows[i])' = EndOf(rows[i])
    BY <2>1, ClosedSame DEF EndOf, IsOpen
  <2> QED BY <2>1, <2>2, <2>3, ClosedSame DEF Kept, SameRows
<1>2. CASE FirstCycle
  <2>1. CloseAll = rows
    <3>1. CloseAll \in Seq(Row) /\ Len(CloseAll) = 0 /\ rows = <<>>
      BY <1>2, ClosedRows DEF FirstCycle
    <3> QED BY <3>1, EmptySeq
  <2> QED BY <1>2, <2>1, AddedRow DEF FirstCycle
<1>3. CASE ChangeCycle
  BY <1>3, AddedRow DEF ChangeCycle
<1>4. CASE SameCycle
  <2>1. CASE UNCHANGED <<rows, outages>>
    <3>1. now' = now /\ past' = past /\ rows' = rows /\ outages' = outages /\ done'
      BY <1>4, <2>1 DEF SameCycle, Cycle
    <3> QED BY <3>1 DEF Kept, SameRows, EndOf, IsOpen
  <2>2. CASE AddRow(CloseAll, Latest.op)
    BY <1>4, <2>2, LatestOp, AddedRow DEF SameCycle
  <2> QED BY <1>4, <2>1, <2>2 DEF SameCycle
<1>5. CASE Stop \/ EnterGap \/ UNCHANGED vars
  <2>1. now' = now /\ past' = past /\ rows' = rows /\ outages' = outages /\ done' = done
    BY <1>5 DEF Stop, EnterGap, vars
  <2> QED BY <2>1 DEF Kept, SameRows, EndOf, IsOpen
<1> QED BY <1>1, <1>2, <1>3, <1>4, <1>5 DEF Next

LEMMA InitHistory == Init => PastInv /\ GapInv /\ OutageInv
<1> SUFFICES ASSUME Init PROVE PastInv /\ GapInv /\ OutageInv
  OBVIOUS
<1>1. rows = <<>> /\ Len(rows) = 0
  BY DEF Init
<1>2. PastInv
  BY <1>1, BoundsAssumption DEF Init, PastInv, Ops
<1>3. GapInv
  BY FS_EmptySet DEF Init, GapInv
<1>4. OutageInv
  BY <1>1 DEF Init, OutageInv
<1> QED BY <1>2, <1>3, <1>4

LEMMA PastStep ==
  ASSUME Inv, PastInv, [Next]_vars
  PROVE  PastInv'
<1> DEFINE n == Len(rows)
<1>1. n \in Nat /\ now \in Nat
  BY BoundsAssumption DEF Inv, RowTypes, Times
<1>2. \A i \in 1..n : SameRows => Span(rows[i])' = Span(rows[i])
  BY DEF SameRows, Span
<1>3. CASE Kept
  BY <1>2, <1>3 DEF Kept, SameRows, PastInv
<1>4. CASE \E op \in Ops : Grown(op)
  <2>1. PICK new \in Ops : Grown(new)
    BY <1>4
  <2>2. ASSUME NEW i, i = n + 1 PROVE Span(rows[i])' = {}
    <3>1. rows'[i].start = now /\ rows'[i].end = Null /\ now' = now
      BY <2>1, <2>2 DEF Grown, SameRows, NewRow
    <3> QED BY <1>1, <3>1 DEF Span, EndOf, IsOpen
  <2>3. ASSUME NEW t \in 0..(now - 1), NEW op \in Ops
        PROVE  past'[t] = op <=> \E i \in 1..(n + 1) : rows'[i].op = op /\ t \in Span(rows[i])'
    <3>1. past[t] = op <=> \E i \in 1..n : rows[i].op = op /\ t \in Span(rows[i])
      BY DEF PastInv
    <3>2. \A i \in 1..n : rows'[i].op = rows[i].op /\ Span(rows[i])' = Span(rows[i])
      BY <1>2, <2>1 DEF Grown, SameRows
    <3>3. past' = past
      BY <2>1 DEF Grown, SameRows
    <3> HIDE DEF n
    <3> QED BY <1>1, <2>2, <3>1, <3>2, <3>3
  <2> QED BY <2>1, <2>3 DEF Grown, SameRows, PastInv
<1>5. CASE Tick
  <2>1. now' = now + 1 /\ rows' = rows
    BY <1>5 DEF Tick
  <2>2. ASSUME NEW i \in 1..n, NEW t \in 0..now
        PROVE  t \in Span(rows[i])' <=>
                 IF t < now THEN t \in Span(rows[i]) ELSE IsOpen(rows[i])
    <3>1. /\ rows[i].start \in Nat /\ rows[i].start <= now
          /\ rows[i].end \in Nat \cup {Null} /\ (rows[i].end # Null => rows[i].end <= now)
      <4>1. rows[i] \in Row /\ i \in DOMAIN rows
        BY DEF Inv, RowTypes
      <4>2. rows[i].start <= EndOf(rows[i]) /\ EndOf(rows[i]) <= now
        BY <4>1 DEF Inv, RowsAreDisjoint
      <4> QED BY <1>1, <4>1, <4>2, BoundsAssumption DEF Row, Times, EndOf, IsOpen
    <3> QED BY <1>1, <2>1, <3>1, BoundsAssumption DEF Span, EndOf, IsOpen
  <2>3. \A i \in 1..n : IsOpen(rows[i]) => i = n
    BY <1>1 DEF Inv, RowTypes, RowsAreDisjoint
  <2>4. rows = <<>> <=> n = 0
    BY DEF Inv, RowTypes
  <2>5. ASSUME NEW i \in 1..n PROVE rows[i].op \in Ops
    <3>1. rows[i] \in Row
      BY DEF Inv, RowTypes
    <3> QED BY <3>1 DEF Row
  <2>6. past' \in [0..now -> Ops \cup {"none"}]
    <3> DEFINE P(t) == IF t < now THEN past[t]
                       ELSE IF rows # <<>> /\ IsOpen(Latest) THEN Latest.op ELSE "none"
    <3>1. past' = [t \in 0..now |-> P(t)]
      BY <1>5 DEF Tick
    <3>2. \A t \in 0..now : P(t) \in Ops \cup {"none"}
      BY <1>1, <2>4, <2>5 DEF Latest, PastInv
    <3> HIDE DEF P
    <3> QED BY <3>1, <3>2
  <2>7. ASSUME NEW t \in 0..now, NEW op \in Ops
        PROVE  past'[t] = op <=> \E i \in 1..n : rows[i].op = op /\ t \in Span(rows[i])'
    <3>1. CASE t < now
      <4>1. past'[t] = past[t] /\ t \in 0..(now - 1)
        BY <1>1, <1>5, <3>1 DEF Tick
      <4> QED BY <2>2, <3>1, <4>1 DEF PastInv
    <3>2. CASE t = now
      <4>1. past'[t] = IF rows # <<>> /\ IsOpen(Latest) THEN Latest.op ELSE "none"
        BY <1>1, <1>5, <3>2 DEF Tick
      <4>2. \A i \in 1..n : t \in Span(rows[i])' <=> IsOpen(rows[i])
        BY <1>1, <2>2, <3>2
      <4>3. op # "none"
        BY DEF Ops
      <4>4. CASE n = 0
        BY <2>4, <4>1, <4>3, <4>4
      <4>5. CASE n # 0
        <5>1. n \in 1..n
          BY <1>1, <4>5
        <5> QED BY <2>3, <2>4, <4>1, <4>2, <4>3, <4>5, <5>1 DEF Latest
      <4> QED BY <4>4, <4>5
    <3> QED BY <1>1, <3>1, <3>2
  <2> QED BY ONLY <1>1, <2>1, <2>6, <2>7 DEF PastInv, n
<1> QED BY <1>3, <1>4, <1>5, Steps

LEMMA GapStep ==
  ASSUME Inv, GapInv, [Next]_vars
  PROVE  GapInv'
<1>1. CASE EnterGap
  <2>1. PICK s \in 0..now, e \in 0..now :
          /\ s < e /\ \A g \in gaps : e <= g.start \/ g.end <= s
          /\ gaps' = gaps \cup {[start |-> s, end |-> e]}
    BY <1>1 DEF EnterGap
  <2>2. IsFiniteSet(gaps')
    BY <2>1, FS_AddElement DEF GapInv
  <2>3. s \in Nat /\ e \in Nat
    OBVIOUS
  <2> QED BY <2>1, <2>2, <2>3 DEF GapInv
<1>2. CASE gaps' = gaps
  BY <1>2 DEF GapInv
<1> QED BY <1>1, <1>2 DEF Next, Start, Stop, ForeignStartup, FirstCycle, ChangeCycle,
       SameCycle, Cycle, Tick, vars

-----------------------------------------------------------------------------
(* Induction over finite sets, as the existence of a minimal set; what it   *)
(* says of sums and of greatest and least elements.                         *)

\* Of the subsets of a finite set, a minimal one can be picked: a statement that
\* fails of some subset fails of one of which it holds for all that are smaller.
LEMMA MinimalSubset ==
  ASSUME NEW S, IsFiniteSet(S), NEW T, T \subseteq SUBSET S, T # {}
  PROVE  \E s \in T : \A t \in T : t \subseteq s => t = s
<1>1. IsWellFoundedOn(StrictSubsetOrdering(S), SUBSET S)
  BY FS_StrictSubsetOrderingWellFounded, FS_FiniteSubsetsOfFinite
<1>2. \E s \in T : \A t \in T : ~ (<<t, s>> \in StrictSubsetOrdering(S))
  BY <1>1, WFMin
<1> QED BY <1>2 DEF StrictSubsetOrdering

\* A finite set of numbers that is not empty has a greatest and a least element.
LEMMA Extremes ==
  ASSUME NEW S, IsFiniteSet(S)
  PROVE  S \subseteq Int /\ S # {} =>
           /\ \E x \in S : \A y \in S : x >= y
           /\ \E x \in S : \A y \in S : x <= y
<1> DEFINE Good(s) == /\ \E x \in s : \A y \in s : x >= y
                      /\ \E x \in s : \A y \in s : x <= y
<1> DEFINE Bad == {s \in SUBSET S : s # {} /\ ~Good(s)}
<1>0. Bad # {} => \E s \in Bad : \A t \in Bad : t \subseteq s => t = s
  <2>1. Bad \subseteq SUBSET S
    OBVIOUS
  <2> HIDE DEF Bad
  <2> QED BY <2>1, MinimalSubset
<1> SUFFICES ASSUME S \subseteq Int, Bad # {} PROVE FALSE
  OBVIOUS
<1>1. PICK s \in Bad : \A t \in Bad : t \subseteq s => t = s
  BY <1>0, Zenon
<1>2. PICK x \in s : TRUE
  OBVIOUS
<1>3. s \ {x} = {} \/ Good(s \ {x})
  <2>1. s \ {x} \in SUBSET S /\ s \ {x} # s
    BY <1>2
  <2> HIDE DEF Good
  <2> QED BY <1>1, <2>1
<1>4. CASE s \ {x} = {}
  BY <1>2, <1>4
<1>5. CASE Good(s \ {x})
  <2>1. PICK g \in s \ {x} : \A y \in s \ {x} : g >= y
    BY <1>5
  <2>2. PICK l \in s \ {x} : \A y \in s \ {x} : l <= y
    BY <1>5
  <2>3. \A y \in s : y = x \/ y \in s \ {x}
    OBVIOUS
  <2>4. \E z \in s : \A y \in s : z >= y
    <3>1. CASE x >= g
      BY <1>2, <2>1, <2>3, <3>1
    <3>2. CASE g >= x
      BY <1>2, <2>1, <2>3, <3>2
    <3> QED BY <1>2, <2>1, <3>1, <3>2
  <2>5. \E z \in s : \A y \in s : z <= y
    <3>1. CASE x <= l
      BY <1>2, <2>2, <2>3, <3>1
    <3>2. CASE l <= x
      BY <1>2, <2>2, <2>3, <3>2
    <3> QED BY <1>2, <2>2, <3>1, <3>2
  <2> QED BY <2>4, <2>5
<1> QED BY <1>3, <1>4, <1>5

\* What the sets I[x] of the x in s have together.
Parts(I, s) == UNION {I[x] : x \in s}

\* Finitely many finite sets that have nothing in common.
Separate(I, S) ==
  /\ IsFiniteSet(S)
  /\ \A x \in S : IsFiniteSet(I[x])
  /\ \A x, y \in S : x # y => I[x] \cap I[y] = {}

\* One of them can be counted apart from the others.
LEMMA PartsCounted ==
  ASSUME NEW S, NEW I, Separate(I, S), NEW s \in SUBSET S, NEW x \in s
  PROVE  /\ IsFiniteSet(Parts(I, s))
         /\ Cardinality(Parts(I, s)) = Cardinality(I[x]) + Cardinality(Parts(I, s \ {x}))
<1>1. \A t \in SUBSET S : IsFiniteSet(Parts(I, t))
  <2> SUFFICES ASSUME NEW t \in SUBSET S PROVE IsFiniteSet(Parts(I, t))
    OBVIOUS
  <2>1. IsFiniteSet(t)
    BY FS_Subset DEF Separate
  <2>2. IsFiniteSet({I[y] : y \in t})
    <3> DEFINE f == [y \in t |-> I[y]]
    <3>1. f \in Surjection(t, {I[y] : y \in t})
      BY DEF Surjection
    <3> QED BY <2>1, <3>1, FS_Surjection
  <2> QED BY <2>2, FS_UNION DEF Parts, Separate
<1>2. Parts(I, s) = I[x] \cup Parts(I, s \ {x})
  BY DEF Parts
<1>3. I[x] \cap Parts(I, s \ {x}) = {}
  BY DEF Parts, Separate
<1>4. IsFiniteSet(I[x]) /\ IsFiniteSet(Parts(I, s \ {x})) /\ IsFiniteSet(Parts(I, s))
  BY <1>1 DEF Separate
<1>5. Cardinality({}) = 0 /\ Cardinality(I[x]) \in Nat /\ Cardinality(Parts(I, s \ {x})) \in Nat
  BY <1>4, FS_EmptySet, FS_CardinalityType
<1>6. Cardinality(I[x] \cup Parts(I, s \ {x})) =
        Cardinality(I[x]) + Cardinality(Parts(I, s \ {x})) - Cardinality(I[x] \cap Parts(I, s \ {x}))
  BY <1>4, FS_Union
<1>7. Cardinality(Parts(I, s)) =
        Cardinality(I[x]) + Cardinality(Parts(I, s \ {x})) - Cardinality({})
  BY <1>2, <1>3, <1>6
<1> QED BY <1>4, <1>5, <1>7

\* The element a sum over s takes first.
First(s) == CHOOSE x \in s : TRUE

\* f[s] is the sum of the F[x] of the x in s, taken one by one.
Sums(f, F, S) ==
  f = [s \in SUBSET S |-> IF s = {} THEN 0 ELSE F[First(s)] + f[s \ {First(s)}]]

LEMMA SumExists ==
  ASSUME NEW S, NEW I, Separate(I, S), NEW F, \A x \in S : F[x] = Cardinality(I[x])
  PROVE  \E f : Sums(f, F, S)
<1> DEFINE f == [s \in SUBSET S |-> Cardinality(Parts(I, s))]
<1>1. ASSUME NEW s \in SUBSET S
      PROVE  f[s] = IF s = {} THEN 0 ELSE F[First(s)] + f[s \ {First(s)}]
  <2>1. CASE s = {}
    <3>1. Parts(I, {}) = {}
      BY DEF Parts
    <3> QED BY <2>1, <3>1, FS_EmptySet
  <2>2. CASE s # {}
    <3>1. First(s) \in s
      BY <2>2 DEF First
    <3> QED BY <2>2, <3>1, PartsCounted
  <2> QED BY <2>1, <2>2
<1>2. Sums(f, F, S)
  <2> DEFINE g == [s \in SUBSET S |-> IF s = {} THEN 0 ELSE F[First(s)] + f[s \ {First(s)}]]
  <2>1. f = g
    BY <1>1, Zenon
  <2> QED BY <2>1 DEF Sums
<1> QED BY <1>2

LEMMA SumOfParts ==
  ASSUME NEW S, NEW I, Separate(I, S), NEW F, \A x \in S : F[x] = Cardinality(I[x]),
         NEW f, Sums(f, F, S)
  PROVE  f[S] = Cardinality(Parts(I, S))
<1> DEFINE Bad == {s \in SUBSET S : f[s] # Cardinality(Parts(I, s))}
<1> SUFFICES ASSUME Bad # {} PROVE FALSE
  OBVIOUS
<1>1. PICK s \in Bad : \A t \in Bad : t \subseteq s => t = s
  <2> HIDE DEF Bad
  <2>1. Bad \subseteq SUBSET S
    BY DEF Bad
  <2> QED BY <2>1, MinimalSubset DEF Separate
<1>2. s # {}
  <2>1. Parts(I, {}) = {} /\ f[{}] = 0
    BY DEF Parts, Sums
  <2> QED BY <2>1, FS_EmptySet
<1> DEFINE x == First(s)
<1>3. x \in s
  BY <1>2 DEF First
<1> HIDE DEF x
<1>4. f[s \ {x}] = Cardinality(Parts(I, s \ {x}))
  BY <1>1, <1>3
<1>5. f[s] = Cardinality(I[x]) + f[s \ {x}]
  BY <1>1, <1>2, <1>3 DEF Sums, x
<1>6. Cardinality(Parts(I, s)) = Cardinality(I[x]) + Cardinality(Parts(I, s \ {x}))
  BY <1>3, PartsCounted
<1> QED BY <1>1, <1>4, <1>5, <1>6

\* SumFunction is a sum taken one by one, where there is one.
LEMMA SumChosen ==
  ASSUME NEW S, NEW F, DOMAIN F = S, \E f : Sums(f, F, S)
  PROVE  \E g : Sums(g, F, S) /\ SumFunction(F) = g[S]
<1> DEFINE P(f) == f = [s \in SUBSET S |-> IF s = {} THEN 0
                          ELSE LET x == CHOOSE x \in s : TRUE IN F[x] + f[s \ {x}]]
<1>1. SumFunction(F) = (CHOOSE f : P(f))[S]
  BY DEF SumFunction, SumFunctionOnSet, FoldFunctionOnSet, MapThenFoldSet
<1>2. ASSUME NEW f PROVE P(f) <=> Sums(f, F, S)
  BY DEF Sums, First
<1>3. P(CHOOSE f : P(f))
  <2> HIDE DEF P
  <2>1. \E f : P(f)
    BY <1>2
  <2> QED BY <2>1
<1> DEFINE g == CHOOSE f : P(f)
<1>4. Sums(g, F, S)
  BY <1>2, <1>3
<1>5. SumFunction(F) = g[S]
  BY <1>1
<1> HIDE DEF g
<1> QED BY <1>4, <1>5

\* The sum of the sizes of sets that have nothing in common is the size of what
\* they have together: what a report adds up is what it would count.
LEMMA SumIsSize ==
  ASSUME NEW S, NEW I, Separate(I, S), NEW F, DOMAIN F = S,
         \A x \in S : F[x] = Cardinality(I[x])
  PROVE  SumFunction(F) = Cardinality(Parts(I, S))
<1>1. \E f : Sums(f, F, S)
  BY SumExists
<1>2. PICK g : Sums(g, F, S) /\ SumFunction(F) = g[S]
  BY <1>1, SumChosen
<1> QED BY <1>2, SumOfParts

\* Any natural numbers can be added up: x counts as the pairs of x with a number up
\* to F[x].
LEMMA SumDefined ==
  ASSUME NEW S, IsFiniteSet(S), NEW F, \A x \in S : F[x] \in Nat
  PROVE  \E f : Sums(f, F, S)
<1> DEFINE I == [x \in S |-> {x} \X (1..F[x])]
<1>1. ASSUME NEW x \in S
      PROVE  IsFiniteSet(I[x]) /\ F[x] = Cardinality(I[x])
  <2> DEFINE n == F[x]
  <2>1. n \in Nat /\ I[x] = {x} \X (1..n)
    OBVIOUS
  <2> HIDE DEF n, I
  <2>2. IsFiniteSet(1..n) /\ Cardinality(1..n) = n
    BY <2>1, FS_Interval
  <2>3. IsFiniteSet({x}) /\ Cardinality({x}) = 1
    BY FS_Singleton
  <2>4. /\ IsFiniteSet({x} \X (1..n))
        /\ Cardinality({x} \X (1..n)) = Cardinality({x}) * Cardinality(1..n)
    BY <2>2, <2>3, FS_Product
  <2>5. n = 1 * n
    BY <2>1
  <2> QED BY <2>1, <2>2, <2>3, <2>4, <2>5 DEF n
<1>2. \A x, y \in S : x # y => I[x] \cap I[y] = {}
  OBVIOUS
<1> HIDE DEF I
<1>3. Separate(I, S)
  BY <1>1, <1>2 DEF Separate
<1> QED BY <1>1, <1>3, SumExists

\* Each summand of F, q times, is that of G, p times, but for hi above and lo below.
Near(F, G, S, p, q, hi, lo) ==
  \A x \in S : /\ F[x] \in Nat /\ G[x] \in Nat
               /\ q * F[x] <= p * G[x] + hi /\ p * G[x] <= q * F[x] + lo

\* The sums then are the same but for as much per summand.
LEMMA SumBetween ==
  ASSUME NEW S, IsFiniteSet(S), NEW F, NEW G, DOMAIN F = S, DOMAIN G = S,
         NEW p \in Nat, NEW q \in Nat, NEW hi \in Nat, NEW lo \in Nat,
         Near(F, G, S, p, q, hi, lo)
  PROVE  /\ SumFunction(F) \in Nat /\ SumFunction(G) \in Nat
         /\ q * SumFunction(F) <= p * SumFunction(G) + hi * Cardinality(S)
         /\ p * SumFunction(G) <= q * SumFunction(F) + lo * Cardinality(S)
<1>1. PICK f : Sums(f, F, S) /\ SumFunction(F) = f[S]
  <2>1. \E f : Sums(f, F, S)
    BY SumDefined DEF Near
  <2> QED BY <2>1, SumChosen
<1>2. PICK g : Sums(g, G, S) /\ SumFunction(G) = g[S]
  <2>1. \E h : Sums(h, G, S)
    BY SumDefined DEF Near
  <2> QED BY <2>1, SumChosen
<1> DEFINE Good(s) == /\ f[s] \in Nat /\ g[s] \in Nat
                      /\ q * f[s] <= p * g[s] + hi * Cardinality(s)
                      /\ p * g[s] <= q * f[s] + lo * Cardinality(s)
           Bad == {s \in SUBSET S : ~Good(s)}
<1>3. Bad = {}
  <2> SUFFICES ASSUME Bad # {} PROVE FALSE
    OBVIOUS
  <2>1. PICK s \in Bad : \A t \in Bad : t \subseteq s => t = s
    <3>1. Bad \subseteq SUBSET S
      OBVIOUS
    <3> HIDE DEF Bad
    <3> QED BY <3>1, MinimalSubset
  <2>2. s # {}
    <3>1. f[{}] = 0 /\ g[{}] = 0
      BY <1>1, <1>2 DEF Sums
    <3>2. Cardinality({}) = 0
      BY FS_EmptySet
    <3>3. Good({})
      BY <3>1, <3>2
    <3> HIDE DEF Good
    <3> QED BY <2>1, <3>3
  <2> DEFINE x == First(s)
             t == s \ {x}
  <2>3. x \in s /\ x \in S /\ t \in SUBSET S /\ t # s
    BY <2>1, <2>2 DEF First
  <2>4. f[s] = F[x] + f[t] /\ g[s] = G[x] + g[t]
    BY <1>1, <1>2, <2>1, <2>2 DEF Sums
  <2>5. Cardinality(t) \in Nat /\ Cardinality(s) = Cardinality(t) + 1
    <3>1. IsFiniteSet(s)
      BY <2>1, FS_Subset
    <3>2. IsFiniteSet(t) /\ Cardinality(t) = Cardinality(s) - 1
      BY <2>3, <3>1, FS_RemoveElement
    <3>3. Cardinality(t) \in Nat /\ Cardinality(s) \in Nat
      BY <3>1, <3>2, FS_CardinalityType
    <3> QED BY <3>2, <3>3
  <2>6. Good(t)
    <3> HIDE DEF Good, x
    <3> QED BY <2>1, <2>3
  <2>7. /\ F[x] \in Nat /\ G[x] \in Nat
        /\ q * F[x] <= p * G[x] + hi /\ p * G[x] <= q * F[x] + lo
    BY <2>3 DEF Near
  <2>8. Good(s)
    <3> DEFINE a == F[x]
               b == G[x]
               c == f[t]
               d == g[t]
               n == Cardinality(t)
    <3>1. /\ a \in Nat /\ b \in Nat /\ c \in Nat /\ d \in Nat /\ n \in Nat
          /\ q * a <= p * b + hi /\ p * b <= q * a + lo
          /\ q * c <= p * d + hi * n /\ p * d <= q * c + lo * n
      BY <2>5, <2>6, <2>7
    <3>2. f[s] = a + c /\ g[s] = b + d /\ Cardinality(s) = n + 1
      BY <2>4, <2>5
    <3> HIDE DEF a, b, c, d, n, x, t
    <3>3. /\ q * (a + c) = q * a + q * c /\ p * (b + d) = p * b + p * d
          /\ hi * (n + 1) = hi * n + hi /\ lo * (n + 1) = lo * n + lo
          /\ q * a \in Nat /\ q * c \in Nat /\ p * b \in Nat /\ p * d \in Nat
          /\ hi * n \in Nat /\ lo * n \in Nat
      BY <3>1, Z3
    <3> QED BY <3>1, <3>2, <3>3
  <2> HIDE DEF Good
  <2> QED BY <2>1, <2>8
<1>4. Good(S)
  <2> HIDE DEF Good
  <2> QED BY <1>3
<1> QED BY <1>1, <1>2, <1>4

\* Where the summands differ by at most hi and lo, the sums differ by at most as much
\* per summand.
LEMMA SumWithin ==
  ASSUME NEW S, IsFiniteSet(S), NEW F, NEW G, DOMAIN F = S, DOMAIN G = S,
         NEW hi \in Nat, NEW lo \in Nat,
         \A x \in S : /\ F[x] \in Nat /\ G[x] \in Nat
                      /\ F[x] <= G[x] + hi /\ G[x] <= F[x] + lo
  PROVE  /\ SumFunction(F) \in Nat /\ SumFunction(G) \in Nat
         /\ SumFunction(F) <= SumFunction(G) + hi * Cardinality(S)
         /\ SumFunction(G) <= SumFunction(F) + lo * Cardinality(S)
<1> DEFINE one == 1
<1>1. Near(F, G, S, one, one, hi, lo)
  BY DEF Near
<1>2. one \in Nat
  OBVIOUS
<1> HIDE DEF one
<1>3. /\ SumFunction(F) \in Nat /\ SumFunction(G) \in Nat
      /\ one * SumFunction(F) <= one * SumFunction(G) + hi * Cardinality(S)
      /\ one * SumFunction(G) <= one * SumFunction(F) + lo * Cardinality(S)
  BY <1>1, <1>2, SumBetween
<1>4. Cardinality(S) \in Nat
  BY FS_CardinalityType
<1>5. hi * Cardinality(S) \in Nat /\ lo * Cardinality(S) \in Nat
  BY <1>4, Z3
<1> QED BY <1>3, <1>5 DEF one

-----------------------------------------------------------------------------
(* The invariant, with the history.                                        *)

LEMMA LastOutageIs ==
  ASSUME Inv, OutageInv
  PROVE  /\ LastOutage \in Nat
         /\ \A i \in 1..Len(rows) : outages[i] <= LastOutage
         /\ rows # <<>> /\ Latest.op = "DOWN" => LastOutage = outages[Len(rows)]
<1> DEFINE D == {outages[i] : i \in DOMAIN outages} \cup {0}
<1>1. DOMAIN outages = 1..Len(rows) /\ Len(rows) \in Nat
  BY DEF OutageInv, Inv, RowTypes
<1>2. \A i \in 1..Len(rows) : outages[i] \in Nat
  BY <1>1 DEF OutageInv
<1>3. D \subseteq Nat /\ D # {}
  BY <1>1, <1>2
<1>4. IsFiniteSet(D)
  <2> DEFINE f == [i \in 1..Len(rows) |-> outages[i]]
  <2>1. f \in Surjection(1..Len(rows), {outages[i] : i \in DOMAIN outages})
    BY <1>1 DEF Surjection
  <2>2. IsFiniteSet({outages[i] : i \in DOMAIN outages})
    BY <1>1, <2>1, FS_Interval, FS_Surjection
  <2> QED BY <2>2, FS_AddElement
<1>5. LastOutage \in D /\ \A y \in D : LastOutage >= y
  <2> HIDE DEF D
  <2>1. D \subseteq Int
    BY <1>3
  <2>2. \E x \in D : \A y \in D : x >= y
    BY <1>3, <1>4, <2>1, Extremes
  <2>3. LastOutage = CHOOSE x \in D : \A y \in D : x >= y
    BY DEF LastOutage, Max, D
  <2> QED BY <2>2, <2>3
<1>6. LastOutage \in Nat /\ \A i \in 1..Len(rows) : outages[i] <= LastOutage
  BY <1>1, <1>2, <1>3, <1>5
<1>7. ASSUME rows # <<>>, Latest.op = "DOWN" PROVE LastOutage = outages[Len(rows)]
  <2> DEFINE n == Len(rows)
  <2>1. n \in 1..n
    <3>1. rows \in Seq(Row)
      BY DEF Inv, RowTypes
    <3> QED BY <1>1, <1>7, <3>1, EmptySeq
  <2>2. \A i \in 1..n : rows[i].op \in Ops
    <3>1. \A i \in 1..n : rows[i] \in Row
      BY DEF Inv, RowTypes
    <3> QED BY <3>1 DEF Row
  <2>3. ASSUME NEW i \in 1..n PROVE outages[i] <= outages[n]
    <3>1. rows[n].op = "DOWN"
      BY <1>7 DEF Latest
    <3>2. CASE rows[i].op = "UP"
      BY <1>2, <2>1, <3>2 DEF OutageInv
    <3>3. CASE rows[i].op = "DOWN" /\ i < n
      BY <2>1, <3>1, <3>3 DEF OutageInv
    <3>4. CASE i = n
      BY <1>2, <2>1, <3>4
    <3> QED BY <2>1, <2>2, <3>2, <3>3, <3>4 DEF Ops
  <2>4. \A y \in D : y <= outages[n]
    BY <1>1, <1>2, <2>1, <2>3
  <2>5. outages[n] \in Nat
    BY <1>2, <2>1
  <2> HIDE DEF D, n
  <2>6. LastOutage <= outages[n] /\ outages[n] <= LastOutage
    BY <1>5, <1>6, <2>1, <2>4 DEF n
  <2>7. LastOutage = outages[n]
    BY <1>6, <2>5, <2>6
  <2> QED BY <2>7 DEF n
<1> QED BY <1>6, <1>7

LEMMA OutageStep ==
  ASSUME Inv, Inv', OutageInv, [Next]_vars
  PROVE  OutageInv'
<1> DEFINE n == Len(rows)
<1>1. n \in Nat /\ now \in Nat /\ outages \in Seq(Nat) /\ Len(outages) = n
  BY BoundsAssumption DEF Inv, RowTypes, Times, OutageInv
<1>2. \A i \in 1..n : rows[i].start \in Nat /\ rows[i].start <= now /\ rows[i].op \in Ops
  <2>1. \A i \in 1..n : rows[i] \in Row /\ i \in DOMAIN rows
    BY DEF Inv, RowTypes
  <2>2. \A i \in 1..n : rows[i].start <= EndOf(rows[i]) /\ EndOf(rows[i]) <= now
    BY <2>1 DEF Inv, RowsAreDisjoint
  <2>3. \A i \in 1..n : EndOf(rows[i]) \in Nat
    BY <1>1, <2>1 DEF Row, Times, EndOf, IsOpen
  <2>4. \A i \in 1..n : rows[i].start \in Nat /\ rows[i].op \in Ops
    BY <2>1 DEF Row, Times
  <2> HIDE DEF n
  <2> QED BY <1>1, <2>2, <2>3, <2>4
<1>10. \A i, j \in 1..n : \A k \in i..j : k \in 1..n
  BY <1>1
<1>3. CASE Kept
  <2>1. /\ Len(rows') = n /\ outages' = outages /\ now' = now /\ (done => done')
        /\ \A i \in 1..n : rows'[i].op = rows[i].op /\ rows'[i].start = rows[i].start
    BY <1>3 DEF Kept, SameRows
  <2>2. \A i, j \in 1..n :
           (\A k \in i..j : rows'[k].op = "DOWN") <=> (\A k \in i..j : rows[k].op = "DOWN")
    BY <1>10, <2>1
  <2> HIDE DEF n
  <2>3. ASSUME NEW i \in 1..n
        PROVE  /\ outages'[i] = 0 <=> rows'[i].op = "UP"
               /\ rows'[i].start = now' => done'
    BY <2>1 DEF OutageInv, n
  <2>4. ASSUME NEW i \in 1..n, NEW j \in 1..n, i < j
        PROVE  /\ rows'[i].start < rows'[j].start
               /\ rows'[i].op = "DOWN" /\ rows'[j].op = "DOWN" =>
                    /\ outages'[i] <= outages'[j]
                    /\ outages'[i] = outages'[j] <=> \A k \in i..j : rows'[k].op = "DOWN"
    <3>1. /\ rows[i].start < rows[j].start
          /\ rows[i].op = "DOWN" /\ rows[j].op = "DOWN" =>
               /\ outages[i] <= outages[j]
               /\ outages[i] = outages[j] <=> \A k \in i..j : rows[k].op = "DOWN"
      BY <2>4 DEF OutageInv, n
    <3> QED BY <2>1, <2>2, <3>1
  <2>5. outages' \in Seq(Nat) /\ Len(outages') = n /\ Len(rows') = n
    BY <1>1, <2>1 DEF OutageInv, n
  <2> QED BY ONLY <2>3, <2>4, <2>5 DEF OutageInv
<1>4. CASE \E op \in Ops : Grown(op)
  <2>1. PICK new \in Ops : Grown(new)
    BY <1>4
  <2> DEFINE o == NextOutage(new)
  <2>2. /\ Len(rows') = n + 1 /\ now' = now /\ ~done /\ done'
        /\ \A i \in 1..n : rows'[i].op = rows[i].op /\ rows'[i].start = rows[i].start
        /\ rows'[n + 1].op = new /\ rows'[n + 1].start = now
        /\ outages' = Append(outages, o)
    BY <2>1 DEF Grown, SameRows, NewRow
  <2>3. o \in Nat /\ (o = 0 <=> new = "UP")
    <3>1. CASE new = "UP"
      BY <3>1 DEF NextOutage
    <3>2. CASE new # "UP" /\ rows # <<>> /\ Latest.op = "DOWN"
      <4>1. o = outages[n] /\ o \in Nat
        BY <3>2, LastOutageIs DEF NextOutage
      <4>2. n \in 1..n /\ rows[n].op # "UP"
        BY <1>1, <3>2 DEF Latest
      <4> QED BY <3>2, <4>1, <4>2 DEF OutageInv
    <3>3. CASE new # "UP" /\ ~(rows # <<>> /\ Latest.op = "DOWN")
      BY <3>3, LastOutageIs DEF NextOutage
    <3> QED BY <3>1, <3>2, <3>3
  <2>4. /\ outages' \in Seq(Nat) /\ Len(outages') = n + 1
        /\ outages'[n + 1] = o /\ \A i \in 1..n : outages'[i] = outages[i]
    BY <1>1, <2>2, <2>3
  <2>5. \A i \in 1..n : rows[i].start < now
    BY <1>1, <1>2, <2>2 DEF OutageInv
  <2>6. ASSUME NEW i \in 1..n, rows[i].op = "DOWN", new = "DOWN"
        PROVE  /\ outages[i] <= o
               /\ outages[i] = o <=> \A k \in i..(n + 1) : rows'[k].op = "DOWN"
    <3>1. rows # <<>> /\ n \in 1..n
      BY <1>1
    <3>2. CASE Latest.op = "DOWN"
      <4>1. o = outages[n] /\ outages[i] <= o
        BY <2>6, <3>1, <3>2, LastOutageIs DEF NextOutage
      <4>2. outages[i] = outages[n] <=> \A k \in i..n : rows[k].op = "DOWN"
        <5>1. CASE i = n
          BY <3>2, <5>1, <1>1 DEF Latest
        <5>2. CASE i < n
          BY <2>6, <3>1, <3>2, <5>2 DEF OutageInv, Latest
        <5> QED BY <1>1, <5>1, <5>2
      <4>3. \A k : k \in i..(n + 1) <=> k \in i..n \/ k = n + 1
        BY <1>1
      <4>4. \A k \in i..n : k \in 1..n
        BY <1>1
      <4>5. \A k \in i..n : rows'[k].op = rows[k].op
        BY <2>2, <4>4
      <4> HIDE DEF n, o
      <4> QED BY <2>2, <2>6, <4>1, <4>2, <4>3, <4>5
    <3>3. CASE Latest.op # "DOWN"
      <4>1. o = LastOutage + 1 /\ outages[i] <= LastOutage /\ LastOutage \in Nat
        BY <2>6, <3>3, LastOutageIs DEF NextOutage
      <4>2. rows'[n].op # "DOWN" /\ n \in i..(n + 1)
        BY <1>1, <2>2, <3>1, <3>3 DEF Latest
      <4>3. outages[i] \in Nat
        BY <1>1
      <4> QED BY <4>1, <4>2, <4>3
    <3> QED BY <3>2, <3>3
  <2>7. ASSUME NEW i \in 1..(n + 1)
        PROVE  /\ outages'[i] = 0 <=> rows'[i].op = "UP"
               /\ rows'[i].start = now' => done'
               /\ \A j \in 1..(n + 1) : i < j =>
                    /\ rows'[i].start < rows'[j].start
                    /\ rows'[i].op = "DOWN" /\ rows'[j].op = "DOWN" =>
                         /\ outages'[i] <= outages'[j]
                         /\ outages'[i] = outages'[j] <=> \A k \in i..j : rows'[k].op = "DOWN"
    <3> HIDE DEF o, n
    <3>1. CASE i = n + 1
      BY <1>1, <2>2, <2>3, <2>4, <3>1
    <3>2. CASE i \in 1..n
      <4>1. outages'[i] = 0 <=> rows'[i].op = "UP"
        BY <2>2, <2>4, <3>2 DEF OutageInv, n
      <4>2. ASSUME NEW j \in 1..n, i < j
            PROVE  /\ rows'[i].start < rows'[j].start
                   /\ rows'[i].op = "DOWN" /\ rows'[j].op = "DOWN" =>
                         /\ outages'[i] <= outages'[j]
                         /\ outages'[i] = outages'[j] <=> \A k \in i..j : rows'[k].op = "DOWN"
        <5>1. \A k \in i..j : rows'[k].op = rows[k].op
          BY <1>10, <2>2, <3>2
        <5>2. /\ rows[i].start < rows[j].start
              /\ rows[i].op = "DOWN" /\ rows[j].op = "DOWN" =>
                   /\ outages[i] <= outages[j]
                   /\ outages[i] = outages[j] <=> \A k \in i..j : rows[k].op = "DOWN"
          BY <3>2, <4>2 DEF OutageInv, n
        <5> QED BY <2>2, <2>4, <3>2, <4>2, <5>1, <5>2
      <4>3. ASSUME NEW j, j = n + 1
            PROVE  /\ rows'[i].start < rows'[j].start
                   /\ rows'[i].op = "DOWN" /\ rows'[j].op = "DOWN" =>
                         /\ outages'[i] <= outages'[j]
                         /\ outages'[i] = outages'[j] <=> \A k \in i..j : rows'[k].op = "DOWN"
        BY <2>2, <2>4, <2>5, <2>6, <3>2, <4>3
      <4>4. \A j \in 1..(n + 1) : j \in 1..n \/ j = n + 1
        BY <1>1
      <4> QED BY <2>2, <4>1, <4>2, <4>3, <4>4
    <3> QED BY <1>1, <3>1, <3>2
  <2>8. outages' \in Seq(Nat) /\ Len(outages') = n + 1 /\ Len(rows') = n + 1
    BY <2>2, <2>4
  <2> QED BY ONLY <2>7, <2>8 DEF OutageInv
<1>5. CASE Tick
  <2>1. now' = now + 1 /\ rows' = rows /\ outages' = outages
    BY <1>5 DEF Tick
  <2>2. \A i \in 1..n : rows[i].start # now'
    BY <1>1, <1>2, <2>1
  <2> QED BY ONLY <2>1, <2>2, OutageInv DEF OutageInv, n
<1> QED BY <1>3, <1>4, <1>5, Steps

\* The inductive invariant.
History == Inv /\ PastInv /\ GapInv /\ OutageInv

LEMMA HistoryHolds == Spec => []History
<1>1. Init => History
  BY InitInv, InitHistory DEF History
<1>2. History /\ [Next]_vars => History'
  BY StepInv, PastStep, GapStep, OutageStep DEF History
<1> QED BY <1>1, <1>2, PTL DEF Spec

-----------------------------------------------------------------------------
(* The reports.                                                            *)

LEMMA RowFacts ==
  ASSUME Inv
  PROVE  /\ now \in Nat /\ Len(rows) \in Nat /\ DOMAIN rows = 1..Len(rows)
         /\ \A i \in 1..Len(rows) :
              /\ rows[i].start \in Nat /\ EndOf(rows[i]) \in Nat /\ rows[i].op \in Ops
              /\ Created <= rows[i].start
              /\ rows[i].start <= EndOf(rows[i]) /\ EndOf(rows[i]) <= now
              /\ IsOpen(rows[i]) => EndOf(rows[i]) = now
              /\ ~IsOpen(rows[i]) => EndOf(rows[i]) = rows[i].end
              /\ \A j \in 1..Len(rows) : i < j => EndOf(rows[i]) <= rows[j].start
<1>1. now \in Nat /\ Len(rows) \in Nat /\ DOMAIN rows = 1..Len(rows)
  BY BoundsAssumption DEF Inv, RowTypes, Times
<1>2. \A i \in 1..Len(rows) : rows[i] \in Row
  BY DEF Inv, RowTypes
<1>3. \A i \in 1..Len(rows) :
        rows[i].start \in Nat /\ rows[i].op \in Ops /\ EndOf(rows[i]) \in Nat
  BY <1>1, <1>2 DEF Row, Times, EndOf, IsOpen
<1>4. \A i \in 1..Len(rows) :
        /\ Created <= rows[i].start
        /\ rows[i].start <= EndOf(rows[i]) /\ EndOf(rows[i]) <= now
        /\ \A j \in 1..Len(rows) : i < j => ~IsOpen(rows[i]) /\ rows[i].end <= rows[j].start
  BY <1>1 DEF Inv, RowsAreDisjoint
<1> QED BY <1>1, <1>3, <1>4 DEF EndOf

\* The times of a window that row i lasts.
Seconds(i, s, e) == Most(s, rows[i].start)..(Least(e, EndOf(rows[i])) - 1)

SecondsOf(I, s, e) == [i \in I |-> Seconds(i, s, e)]

LEMMA ClampedIs ==
  ASSUME NEW a \in Nat, NEW b \in Nat, NEW s \in Nat, NEW e \in Nat,
         NEW x \in Most(s, a)..(Least(e, b) - 1)
  PROVE  a <= x /\ x < b /\ x \in Nat
BY DEF Most, Least

\* The ticks that the rows of I last in a window.
Total(I, s, e) == SumFunction([i \in I |-> Clamped(rows[i], s, e)])

\* It is the number of times of the window that the rows last.
LEMMA TotalIs ==
  ASSUME Inv, NEW I \in SUBSET (1..Len(rows)), NEW s \in Nat, NEW e \in Nat
  PROVE  Total(I, s, e) = Cardinality(Parts(SecondsOf(I, s, e), I))
<1> DEFINE P == SecondsOf(I, s, e)
           F == [i \in I |-> Clamped(rows[i], s, e)]
<1>1. ASSUME NEW i \in I
      PROVE  IsFiniteSet(P[i]) /\ F[i] = Cardinality(P[i])
  <2> DEFINE a == Most(s, rows[i].start)
             b == Least(e, EndOf(rows[i])) - 1
  <2>1. a \in Int /\ b \in Int
    BY RowFacts DEF Most, Least
  <2>2. Clamped(rows[i], s, e) = IF a > b THEN 0 ELSE b - a + 1
    BY RowFacts DEF Clamped, Most, Least
  <2>3. P[i] = a..b /\ F[i] = Clamped(rows[i], s, e)
    BY DEF SecondsOf, Seconds
  <2> HIDE DEF a, b, P, F
  <2>4. IsFiniteSet(a..b) /\ Cardinality(a..b) = IF a > b THEN 0 ELSE b - a + 1
    BY <2>1, FS_Interval
  <2> QED BY <2>2, <2>3, <2>4
<1>2. ASSUME NEW i \in I, NEW j \in I, i # j
      PROVE  P[i] \cap P[j] = {}
  <2>1. EndOf(rows[i]) <= rows[j].start \/ EndOf(rows[j]) <= rows[i].start
    BY <1>2, RowFacts
  <2>2. /\ rows[i].start \in Nat /\ EndOf(rows[i]) \in Nat
        /\ rows[j].start \in Nat /\ EndOf(rows[j]) \in Nat
    BY <1>2, RowFacts
  <2>3. /\ P[i] = Most(s, rows[i].start)..(Least(e, EndOf(rows[i])) - 1)
        /\ P[j] = Most(s, rows[j].start)..(Least(e, EndOf(rows[j])) - 1)
    BY <1>2 DEF SecondsOf, Seconds
  <2> HIDE DEF P
  <2> SUFFICES ASSUME NEW x, x \in P[i], x \in P[j] PROVE FALSE
    OBVIOUS
  <2>4. rows[i].start <= x /\ x < EndOf(rows[i]) /\ x \in Nat
    BY <2>2, <2>3, ClampedIs
  <2>5. rows[j].start <= x /\ x < EndOf(rows[j])
    BY <2>2, <2>3, ClampedIs
  <2> QED BY ONLY <2>1, <2>2, <2>4, <2>5
<1>3. IsFiniteSet(I)
  <2>1. IsFiniteSet(1..Len(rows))
    BY RowFacts, FS_Interval
  <2> QED BY <2>1, FS_Subset
<1>4. Separate(P, I)
  BY <1>1, <1>2, <1>3 DEF Separate
<1>5. DOMAIN F = I
  OBVIOUS
<1>6. Total(I, s, e) = SumFunction(F)
  BY DEF Total
<1> HIDE DEF P, F
<1>7. SumFunction(F) = Cardinality(Parts(P, I))
  BY <1>1, <1>4, <1>5, SumIsSize
<1> QED BY <1>6, <1>7 DEF P

\* Totals of rows that last the same times of the window are equal.
LEMMA SameTotal ==
  ASSUME Inv, NEW I \in SUBSET (1..Len(rows)), NEW J \in SUBSET (1..Len(rows)),
         NEW s \in Nat, NEW e \in Nat,
         \A i \in 1..Len(rows) : Seconds(i, s, e) # {} => (i \in I <=> i \in J)
  PROVE  Total(I, s, e) = Total(J, s, e)
<1>1. ASSUME NEW t
      PROVE  t \in Parts(SecondsOf(I, s, e), I) <=> t \in Parts(SecondsOf(J, s, e), J)
  <2>1. t \in Parts(SecondsOf(I, s, e), I) <=> \E i \in I : t \in Seconds(i, s, e)
    BY DEF Parts, SecondsOf
  <2>2. t \in Parts(SecondsOf(J, s, e), J) <=> \E i \in J : t \in Seconds(i, s, e)
    BY DEF Parts, SecondsOf
  <2>3. \A i \in 1..Len(rows) : t \in Seconds(i, s, e) => (i \in I <=> i \in J)
    OBVIOUS
  <2> QED BY <2>1, <2>2, <2>3
<1>2. Parts(SecondsOf(I, s, e), I) = Parts(SecondsOf(J, s, e), J)
  BY <1>1
<1> QED BY <1>2, TotalIs

\* The conversions to whole seconds.
LEMMA ConversionIs ==
  ASSUME NEW x \in Nat
  PROVE  /\ Rounded(x) \in Nat /\ Truncated(x) \in Nat
         /\ (2 * Second) * Rounded(x) <= 2 * x + Second
         /\ 2 * x < (2 * Second) * Rounded(x) + Second
         /\ Second * Truncated(x) <= x /\ x < Second * Truncated(x) + Second
         /\ Truncated(x) <= Rounded(x) /\ Rounded(x) <= Truncated(x) + 1
<1>1. Second \in Nat /\ Second > 0
  BY BoundsAssumption
<1> DEFINE k == Second
           r == (2 * x + k) \div (2 * k)
           t == x \div k
<1>2. k \in Nat /\ k > 0 /\ Rounded(x) = r /\ Truncated(x) = t
  BY <1>1 DEF Rounded, Truncated
<1> HIDE DEF k
<1>3. r \in Int /\ (2 * k) * r <= 2 * x + k /\ 2 * x + k < (2 * k) * r + 2 * k
  BY <1>2, Z3
<1>4. t \in Int /\ k * t <= x /\ x < k * t + k
  BY <1>2, Z3
<1> HIDE DEF r, t
<1>5. t >= 0
  <2> SUFFICES ASSUME t + 1 <= 0 PROVE FALSE
    BY <1>4
  <2>1. k * (t + 1) <= 0
    BY <1>2, <1>4, Z3
  <2>2. k * (t + 1) = k * t + k
    BY <1>2, <1>4, Z3
  <2> QED BY <1>2, <1>4, <2>1, <2>2, Z3
<1>6. t <= r
  <2> SUFFICES ASSUME r + 1 <= t PROVE FALSE
    BY <1>3, <1>4
  <2>1. k * (r + 1) <= k * t
    BY <1>2, <1>3, <1>4, Z3
  <2>2. k * (r + 1) = k * r + k /\ (2 * k) * r = 2 * (k * r)
    BY <1>2, <1>3, Z3
  <2> QED BY <1>2, <1>3, <1>4, <2>1, <2>2, Z3
<1>7. r <= t + 1
  <2> SUFFICES ASSUME t + 2 <= r PROVE FALSE
    BY <1>3, <1>4
  <2>1. k * (t + 2) <= k * r
    BY <1>2, <1>3, <1>4, Z3
  <2>2. k * (t + 2) = k * t + 2 * k /\ (2 * k) * r = 2 * (k * r)
    BY <1>2, <1>3, <1>4, Z3
  <2> QED BY <1>2, <1>3, <1>4, <2>1, <2>2, Z3
<1>8. r \in Nat /\ t \in Nat
  BY <1>3, <1>4, <1>5, <1>6
<1>9. 2 * x < (2 * k) * r + k
  BY <1>2, <1>3, Z3
<1> QED BY <1>2, <1>3, <1>4, <1>6, <1>7, <1>8, <1>9 DEF k

LEMMA ClampedNat ==
  ASSUME Inv, NEW i \in 1..Len(rows), NEW s \in Nat, NEW e \in Nat
  PROVE  Clamped(rows[i], s, e) \in Nat
BY RowFacts DEF Clamped, Most, Least

LEMMA SomeRows ==
  ASSUME Inv, NEW I \in SUBSET (1..Len(rows))
  PROVE  IsFiniteSet(I) /\ Cardinality(I) \in Nat
<1>1. IsFiniteSet(1..Len(rows))
  BY RowFacts, FS_Interval
<1> QED BY <1>1, FS_Subset, FS_CardinalityType

LEMMA OfAre ==
  ASSUME Inv, NEW op, NEW s, NEW e
  PROVE  Of(op, s, e) \in SUBSET (1..Len(rows))
BY RowFacts DEF Of, Overlapping

\* The times the fleet summary's rows last are those at which the rows said so.
LEMMA LastedIs ==
  ASSUME History, NEW op \in Ops, NEW s \in Times, NEW e \in Times, s < e
  PROVE  Total(Of(op, s, e), s, e) = Lasted(op, s, e)
<1> DEFINE I == {i \in Overlapping(s, e) : rows[i].op = op}
           T == {t \in Elapsed(s, e) : past[t] = op}
<1>1. Inv /\ PastInv /\ s \in Nat /\ e \in Nat
  BY BoundsAssumption DEF History, Times
<1>2. I \in SUBSET (1..Len(rows))
  BY <1>1, RowFacts DEF Overlapping
<1>3. ASSUME NEW t
      PROVE  t \in T <=> \E i \in I : t \in Seconds(i, s, e)
  <2>1. ASSUME NEW i \in 1..Len(rows), t \in Seconds(i, s, e)
        PROVE  i \in Overlapping(s, e) /\ t \in Elapsed(s, e) /\ t \in Span(rows[i])
               /\ t \in 0..(now - 1)
    BY <1>1, <2>1, RowFacts DEF Seconds, Overlapping, Elapsed, Span, Most, Least
  <2>2. ASSUME NEW i \in 1..Len(rows), t \in Elapsed(s, e), t \in Span(rows[i])
        PROVE  t \in Seconds(i, s, e) /\ i \in Overlapping(s, e)
    BY <1>1, <2>2, RowFacts DEF Seconds, Overlapping, Elapsed, Span, Most, Least
  <2>3. t \in Elapsed(s, e) => t \in 0..(now - 1)
    BY <1>1, RowFacts DEF Elapsed, Least
  <2>4. t \in 0..(now - 1) =>
          (past[t] = op <=> \E i \in 1..Len(rows) : rows[i].op = op /\ t \in Span(rows[i]))
    BY <1>1 DEF PastInv
  <2>5. ASSUME t \in T
        PROVE  \E i \in I : t \in Seconds(i, s, e)
    <3>1. t \in Elapsed(s, e) /\ past[t] = op
      BY <2>5
    <3>2. PICK i \in 1..Len(rows) : rows[i].op = op /\ t \in Span(rows[i])
      BY <2>3, <2>4, <3>1
    <3> QED BY <2>2, <3>1, <3>2
  <2>6. ASSUME NEW i \in I, t \in Seconds(i, s, e)
        PROVE  t \in T
    BY <1>2, <2>1, <2>4, <2>6
  <2> QED BY <2>5, <2>6
<1>4. Parts(SecondsOf(I, s, e), I) = T
  <2> HIDE DEF I, T
  <2>1. \A t : t \in Parts(SecondsOf(I, s, e), I) <=> \E i \in I : t \in Seconds(i, s, e)
    BY DEF Parts, SecondsOf
  <2> QED BY <1>3, <2>1
<1>5. I = Of(op, s, e) /\ Lasted(op, s, e) = Cardinality(T)
  BY DEF Of, Lasted
<1> HIDE DEF I, T
<1>6. Total(I, s, e) = Cardinality(Parts(SecondsOf(I, s, e), I))
  BY <1>1, <1>2, TotalIs
<1> QED BY <1>4, <1>5, <1>6

\* Rounding loses or adds at most half a second per row.
LEMMA FleetSecondsCounted ==
  ASSUME History, NEW op \in Ops, NEW s \in Times, NEW e \in Times, s < e
  PROVE  LET n == Cardinality(Of(op, s, e))
         IN  /\ FleetSeconds(op, s, e) \in Nat /\ Lasted(op, s, e) \in Nat /\ n \in Nat
             /\ (2 * Second) * FleetSeconds(op, s, e) <= 2 * Lasted(op, s, e) + Second * n
             /\ 2 * Lasted(op, s, e) <= (2 * Second) * FleetSeconds(op, s, e) + Second * n
<1> DEFINE I == Of(op, s, e)
           F == [i \in I |-> Rounded(Clamped(rows[i], s, e))]
           G == [i \in I |-> Clamped(rows[i], s, e)]
           k == Second
<1>1. Inv /\ s \in Nat /\ e \in Nat
  BY BoundsAssumption DEF History, Times
<1>2. I \in SUBSET (1..Len(rows))
  BY <1>1, OfAre
<1>3. IsFiniteSet(I) /\ Cardinality(I) \in Nat
  BY <1>1, <1>2, SomeRows
<1>4. k \in Nat /\ 2 * k \in Nat /\ 2 \in Nat
  BY BoundsAssumption
<1>5. ASSUME NEW i \in I
      PROVE  /\ F[i] \in Nat /\ G[i] \in Nat
             /\ (2 * k) * F[i] <= 2 * G[i] + k /\ 2 * G[i] <= (2 * k) * F[i] + k
  <2> DEFINE x == Clamped(rows[i], s, e)
             r == Rounded(x)
  <2>1. x \in Nat
    BY <1>1, <1>2, ClampedNat
  <2>2. F[i] = r /\ G[i] = x
    OBVIOUS
  <2> HIDE DEF x, F, G
  <2>3. r \in Nat /\ (2 * k) * r <= 2 * x + k /\ 2 * x < (2 * k) * r + k
    BY <2>1, ConversionIs
  <2> HIDE DEF r, k
  <2>4. (2 * k) * r \in Nat
    BY <1>4, <2>3, Z3
  <2> QED BY <1>4, <2>1, <2>2, <2>3, <2>4
<1>6. /\ FleetSeconds(op, s, e) = SumFunction(F) /\ Lasted(op, s, e) = SumFunction(G)
      /\ DOMAIN F = I /\ DOMAIN G = I
  BY LastedIs DEF FleetSeconds, Total
<1> HIDE DEF F, G, I, k
<1> DEFINE two == 2
           q == 2 * k
<1>7. q \in Nat /\ two \in Nat
  BY <1>4
<1>8. Near(F, G, I, two, q, k, k)
  BY <1>5 DEF Near
<1> HIDE DEF two, q
<1>9. /\ SumFunction(F) \in Nat /\ SumFunction(G) \in Nat
      /\ q * SumFunction(F) <= two * SumFunction(G) + k * Cardinality(I)
      /\ two * SumFunction(G) <= q * SumFunction(F) + k * Cardinality(I)
  BY <1>3, <1>4, <1>6, <1>7, <1>8, SumBetween
<1> QED BY <1>3, <1>6, <1>9 DEF I, k, two, q

\* The gaps, cut to a window and then to the endpoint's lifetime, lose less than a
\* second each of the times of that lifetime that lie in a gap.
LEMMA GapSecondsCounted ==
  ASSUME History, NEW s \in Times, NEW e \in Times, s < e,
         NEW from, from = Most(s, Created), NEW to, to = Least(e, now)
  PROVE  LET n == Cardinality({t \in from..(to - 1) : \E g \in gaps : t \in g.start..(g.end - 1)})
             m == Cardinality(ServiceGaps(s, e))
             k == GapSeconds(from, to, ServiceGaps(s, e))
         IN  /\ n \in Nat /\ m \in Nat /\ k \in Nat
             /\ Second * k <= n /\ n <= Second * k + (Second - 1) * m
<1> DEFINE S == ServiceGaps(s, e)
           Times2(g) == Most(from, g.start)..(Least(to, g.end) - 1)
           P == [g \in S |-> Times2(g)]
           F == [g \in S |-> Most(0, Least(g.end, to) - Most(g.start, from))]
           T == {t \in from..(to - 1) : \E g \in gaps : t \in g.start..(g.end - 1)}
<1>1. /\ s \in Nat /\ e \in Nat /\ now \in Nat /\ Created \in Nat
      /\ from \in Nat /\ to \in Nat /\ s <= from /\ to <= e
  BY BoundsAssumption, RowFacts DEF History, Times, Most, Least
<1>2. \A g \in gaps :
        /\ g.start \in Nat /\ g.end \in Nat /\ g.start < g.end
        /\ \A h \in gaps : g # h => g.end <= h.start \/ h.end <= g.start
  BY DEF History, GapInv
<1>3. \A c \in S : \E g \in gaps :
        /\ g.start < e /\ g.end > s
        /\ c = [start |-> Most(g.start, s), end |-> Least(g.end, e)]
  BY DEF ServiceGaps
<1>4. IsFiniteSet(S)
  <2> DEFINE G == {h \in gaps : h.start < e /\ h.end > s}
             f == [g \in G |-> [start |-> Most(g.start, s), end |-> Least(g.end, e)]]
  <2>1. IsFiniteSet(G)
    BY FS_Subset DEF History, GapInv
  <2>2. f \in Surjection(G, S)
    BY DEF Surjection, ServiceGaps
  <2> QED BY <2>1, <2>2, FS_Surjection
<1>5. ASSUME NEW c \in S
      PROVE  IsFiniteSet(P[c]) /\ F[c] = Cardinality(P[c])
  <2> DEFINE a == Most(from, c.start)
             b == Least(to, c.end) - 1
  <2>1. c.start \in Nat /\ c.end \in Nat
    BY <1>1, <1>2, <1>3 DEF Most, Least
  <2>2. a \in Int /\ b \in Int
    BY <1>1, <2>1 DEF Most, Least
  <2>3. P[c] = a..b /\ F[c] = IF a > b THEN 0 ELSE b - a + 1
    BY <1>1, <2>1 DEF Most, Least
  <2> HIDE DEF a, b, P, F
  <2>4. IsFiniteSet(a..b) /\ Cardinality(a..b) = IF a > b THEN 0 ELSE b - a + 1
    BY <2>2, FS_Interval
  <2> QED BY <2>3, <2>4
<1>6. ASSUME NEW c \in S, NEW d \in S, c # d
      PROVE  P[c] \cap P[d] = {}
  <2>1. PICK g \in gaps : c = [start |-> Most(g.start, s), end |-> Least(g.end, e)]
    BY <1>3
  <2>2. PICK h \in gaps : d = [start |-> Most(h.start, s), end |-> Least(h.end, e)]
    BY <1>3
  <2>3. g.end <= h.start \/ h.end <= g.start
    BY <1>2, <1>6, <2>1, <2>2
  <2>4. P[c] = Times2(c) /\ P[d] = Times2(d)
    OBVIOUS
  <2> HIDE DEF P
  <2>5. \A t \in P[c] : t < g.end /\ t >= g.start /\ t \in Int
    BY <1>1, <1>2, <2>1, <2>4 DEF Most, Least
  <2>6. \A t \in P[d] : t < h.end /\ t >= h.start /\ t \in Int
    BY <1>1, <1>2, <2>2, <2>4 DEF Most, Least
  <2> QED BY <1>2, <2>3, <2>5, <2>6
<1>7. ASSUME NEW t
      PROVE  t \in T <=> \E c \in S : t \in P[c]
  <2>1. ASSUME NEW g \in gaps, t \in from..(to - 1), t \in g.start..(g.end - 1)
        PROVE  \E c \in S : t \in P[c]
    <3> DEFINE c == [start |-> Most(g.start, s), end |-> Least(g.end, e)]
    <3>1. g.start < e /\ g.end > s
      BY <1>1, <1>2, <2>1
    <3>2. c \in S
      BY <3>1 DEF ServiceGaps
    <3>3. t \in Times2(c)
      BY <1>1, <1>2, <2>1 DEF Most, Least
    <3> HIDE DEF c, S
    <3> QED BY <3>2, <3>3
  <2>2. ASSUME NEW c \in S, t \in P[c]
        PROVE  t \in T
    <3>1. PICK g \in gaps : c = [start |-> Most(g.start, s), end |-> Least(g.end, e)]
      BY <1>3
    <3>2. t \in Times2(c)
      BY <2>2
    <3>3. t \in from..(to - 1) /\ t \in g.start..(g.end - 1)
      BY <1>1, <1>2, <3>1, <3>2 DEF Most, Least
    <3> QED BY <3>3
  <2> QED BY <2>1, <2>2
<1> DEFINE H == [c \in S |-> Truncated(F[c])]
           k == Second
<1>8. GapSeconds(from, to, S) = SumFunction(H) /\ DOMAIN F = S /\ DOMAIN H = S
  BY DEF GapSeconds
<1>9. \A c \in S : H[c] = Truncated(F[c])
  OBVIOUS
<1> HIDE DEF S, P, F, T, H, k
<1>10. Separate(P, S)
  BY <1>4, <1>5, <1>6 DEF Separate
<1>11. SumFunction(F) = Cardinality(Parts(P, S))
  BY <1>5, <1>8, <1>10, SumIsSize
<1>12. Parts(P, S) = T
  BY <1>7 DEF Parts
<1>13. k \in Nat /\ k - 1 \in Nat /\ 1 \in Nat /\ 0 \in Nat
  BY BoundsAssumption DEF k
<1> DEFINE one == 1
           zero == 0
           less == k - 1
<1>14. Near(H, F, S, one, k, zero, less)
  <2> SUFFICES ASSUME NEW c \in S
               PROVE  /\ H[c] \in Nat /\ F[c] \in Nat
                      /\ k * H[c] <= one * F[c] + zero /\ one * F[c] <= k * H[c] + less
    BY DEF Near
  <2>1. F[c] \in Nat
    BY <1>5, FS_CardinalityType
  <2>2. H[c] \in Nat /\ k * H[c] <= F[c] /\ F[c] < k * H[c] + k
    BY <1>9, <2>1, ConversionIs DEF k
  <2> DEFINE y == k * H[c]
  <2>3. y \in Nat
    BY <1>13, <2>2, Z3
  <2>4. y <= F[c] /\ F[c] < y + k
    BY <2>2
  <2> HIDE DEF y
  <2>5. y <= one * F[c] + zero /\ one * F[c] <= y + less
    BY <1>13, <2>1, <2>3, <2>4
  <2> QED BY <2>1, <2>2, <2>5 DEF y
<1>15. /\ SumFunction(H) \in Nat /\ SumFunction(F) \in Nat
       /\ k * SumFunction(H) <= 1 * SumFunction(F) + 0 * Cardinality(S)
       /\ 1 * SumFunction(F) <= k * SumFunction(H) + (k - 1) * Cardinality(S)
  <2>1. one \in Nat /\ zero \in Nat /\ less \in Nat
    BY <1>13
  <2> HIDE DEF one, zero, less
  <2>2. /\ SumFunction(H) \in Nat /\ SumFunction(F) \in Nat
        /\ k * SumFunction(H) <= one * SumFunction(F) + zero * Cardinality(S)
        /\ one * SumFunction(F) <= k * SumFunction(H) + less * Cardinality(S)
    BY <1>4, <1>8, <1>13, <1>14, <2>1, SumBetween
  <2> QED BY <2>2 DEF one, zero, less
<1>16. Cardinality(S) \in Nat /\ 0 * Cardinality(S) = 0
  BY <1>4, FS_CardinalityType
<1>17. k * SumFunction(H) \in Nat /\ (k - 1) * Cardinality(S) \in Nat
  BY <1>13, <1>15, <1>16, Z3
<1>18. /\ k * SumFunction(H) <= SumFunction(F)
       /\ SumFunction(F) <= k * SumFunction(H) + (k - 1) * Cardinality(S)
  BY <1>15, <1>16, <1>17
<1>19. SumFunction(F) = Cardinality(T)
  BY <1>11, <1>12
<1> QED BY <1>8, <1>15, <1>16, <1>18, <1>19 DEF S, T, k

\* The denominator is the endpoint's lifetime in the window outside gaps, less than a
\* second short, and longer by less than a second per gap.
LEMMA DenominatorCounted ==
  ASSUME History, NEW s \in Times, NEW e \in Times, s < e
  PROVE  LET m == Cardinality(ServiceGaps(s, e))
         IN  /\ Denominator(s, e) \in Int /\ Lifetime(s, e) \in Nat /\ m \in Nat
             /\ Second * Denominator(s, e) > Lifetime(s, e) - Second
             /\ Second * Denominator(s, e) <= Lifetime(s, e) + (Second - 1) * m
<1> DEFINE from == Most(s, Created)
           to == Least(e, now)
           W == from..(to - 1)
           T == {t \in W : \E g \in gaps : t \in g.start..(g.end - 1)}
           U == {t \in Elapsed(s, e) : t >= Created /\ \A g \in gaps : t \notin g.start..(g.end - 1)}
<1>1. s \in Nat /\ e \in Nat /\ now \in Nat /\ Created \in Nat /\ from \in Nat /\ to \in Nat
  BY BoundsAssumption, RowFacts DEF History, Times, Most, Least
<1>2. IsFiniteSet(W) /\ Cardinality(W) = Most(0, to - from)
  <2> HIDE DEF from, to
  <2> DEFINE b == to - 1
  <2>2. b \in Int /\ from \in Int /\ W = from..b
    BY <1>1
  <2> HIDE DEF b, W
  <2>3. IsFiniteSet(W) /\ Cardinality(W) = IF from > b THEN 0 ELSE b - from + 1
    BY <2>2, FS_Interval
  <2>1. IsFiniteSet(W) /\ Cardinality(W) = IF from > to - 1 THEN 0 ELSE (to - 1) - from + 1
    BY <2>3 DEF b
  <2> QED BY <1>1, <2>1 DEF Most
<1>3. U = W \ T
  BY <1>1 DEF Elapsed, Most
<1>4. W \cap T = T
  OBVIOUS
<1> DEFINE G == GapSeconds(from, to, ServiceGaps(s, e))
           m == Cardinality(ServiceGaps(s, e))
           D == Truncated(Most(0, to - from))
           k == Second
<1>5. /\ Cardinality(T) \in Nat /\ m \in Nat /\ G \in Nat
      /\ k * G <= Cardinality(T) /\ Cardinality(T) <= k * G + (k - 1) * m
  <2> DEFINE n == Cardinality({t \in from..(to - 1) : \E g \in gaps : t \in g.start..(g.end - 1)})
  <2>1. n = Cardinality(T)
    OBVIOUS
  <2> HIDE DEF from, to, n
  <2>2. /\ n \in Nat /\ m \in Nat /\ G \in Nat
        /\ k * G <= n /\ n <= k * G + (k - 1) * m
    BY GapSecondsCounted DEF from, to, n
  <2> HIDE DEF T, G, m, k
  <2> QED BY <2>1, <2>2
<1>6. Denominator(s, e) = D - G /\ Lifetime(s, e) = Cardinality(U)
  BY DEF Denominator, Lifetime
<1>7. D = Truncated(Cardinality(W))
  BY <1>2
<1>8. Cardinality(W) \in Nat
  BY <1>2, FS_CardinalityType
<1> HIDE DEF from, to, W, T, U, G, D
<1>9. D \in Nat /\ k * D <= Cardinality(W) /\ Cardinality(W) < k * D + k
  BY <1>7, <1>8, ConversionIs
<1>10. k \in Nat
  BY BoundsAssumption
<1> HIDE DEF k, m
<1>11. IsFiniteSet(U) /\ Cardinality(U) = Cardinality(W) - Cardinality(T)
  <2>1. IsFiniteSet(W \ T) /\ Cardinality(W \ T) = Cardinality(W) - Cardinality(W \cap T)
    BY <1>2, FS_Difference
  <2> QED BY <1>3, <1>4, <2>1
<1>12. Cardinality(U) \in Nat
  BY <1>11, FS_CardinalityType
<1>13. /\ k * (D - G) = k * D - k * G /\ k * D \in Int /\ k * G \in Int
       /\ (k - 1) * m \in Int /\ D - G \in Int
  BY <1>5, <1>9, <1>10, Z3
<1>14. /\ k * (D - G) > Cardinality(U) - k
       /\ k * (D - G) <= Cardinality(U) + (k - 1) * m
  BY <1>5, <1>8, <1>9, <1>10, <1>11, <1>13
<1> QED BY <1>5, <1>6, <1>12, <1>13, <1>14 DEF k, m

\* What a share must be to be shown as 100 %.
LEMMA WholeShare ==
  ASSUME NEW u \in Nat, NEW d \in Nat, d > 0,
         Most(0, Least(10000, (20000 * u + d) \div (2 * d))) = 10000
  PROVE  20000 * u + d >= 20000 * d
<1> DEFINE q == (20000 * u + d) \div (2 * d)
<1>1. q \in Int /\ (2 * d) * q <= 20000 * u + d
  BY Z3
<1>2. Most(0, Least(10000, q)) = 10000
  OBVIOUS
<1> HIDE DEF q
<1>3. q >= 10000
  BY <1>1, <1>2 DEF Most, Least
<1>4. (2 * d) * q >= (2 * d) * 10000
  BY <1>1, <1>3, Z3
<1> QED BY <1>1, <1>4, Z3

\* So 100 % bounds what was not UP.
LEMMA FullPercentage ==
  ASSUME History, NEW s \in Times, NEW e \in Times, s < e,
         Denominator(s, e) > 0, Percentage(FleetSeconds("UP", s, e), s, e) = 10000
  PROVE  20000 * (Lifetime(s, e) - Lasted("UP", s, e)) <=
           Second * Denominator(s, e) + 10000 * Second * (Cardinality(Of("UP", s, e)) + 2)
<1> DEFINE k == Second
           u == FleetSeconds("UP", s, e)
           d == Denominator(s, e)
           n == Cardinality(Of("UP", s, e))
           x == Lasted("UP", s, e)
           y == Lifetime(s, e)
<1>1. k \in Nat
  BY BoundsAssumption
<1>2. u \in Nat /\ x \in Nat /\ n \in Nat /\ (2 * k) * u <= 2 * x + k * n
  BY FleetSecondsCounted DEF Ops
<1>3. d \in Int /\ y \in Nat /\ k * d > y - k
  BY DenominatorCounted
<1>4. d \in Nat /\ d > 0
  BY <1>3
<1>5. Most(0, Least(10000, (20000 * u + d) \div (2 * d))) = 10000
  BY <1>3 DEF Percentage
<1> HIDE DEF k, u, d, n, x, y
<1>6. 20000 * u + d >= 20000 * d
  BY <1>2, <1>4, <1>5, WholeShare
<1>7. k * (20000 * u + d) >= k * (20000 * d)
  BY <1>1, <1>2, <1>4, <1>6, Z3
<1> DEFINE a == k * u
           b == k * d
           c == k * n
<1>8. /\ a \in Int /\ b \in Int /\ c \in Int
      /\ k * (20000 * u + d) = 20000 * a + b /\ k * (20000 * d) = 20000 * b
      /\ (2 * k) * u = 2 * a /\ 10000 * k * (n + 2) = 10000 * c + 20000 * k
  BY <1>1, <1>2, <1>4, Z3
<1>9. 2 * a <= 2 * x + c /\ b > y - k /\ 20000 * a + b >= 20000 * b
  BY <1>2, <1>3, <1>7, <1>8
<1>10. k * d = b
  OBVIOUS
<1> HIDE DEF a, b, c
<1>11. 20000 * (y - x) <= b + (10000 * c + 20000 * k)
  BY <1>1, <1>2, <1>3, <1>8, <1>9
<1>12. 20000 * (y - x) <= k * d + 10000 * k * (n + 2)
  BY <1>8, <1>10, <1>11
<1> QED BY <1>12 DEF k, u, d, n, x, y

\* Every report, of any window and at any time, counts every moment, but for half a
\* second per row of the window, and for a second and one per gap in the denominator,
\* whatever roll-overs, cleanups and gaps there were; what 100 % may hide is bounded.
THEOREM SecondsAreCounted == Spec => []EverySecondOnce
<1>1. ASSUME History, NEW s \in Times, NEW e \in Times, s < e
      PROVE  /\ \A op \in Ops :
                  /\ 2 * Second * FleetSeconds(op, s, e) <=
                       2 * Lasted(op, s, e) + Second * Cardinality(Of(op, s, e))
                  /\ 2 * Second * FleetSeconds(op, s, e) >=
                       2 * Lasted(op, s, e) - Second * Cardinality(Of(op, s, e))
             /\ Second * Denominator(s, e) > Lifetime(s, e) - Second
             /\ Second * Denominator(s, e) <=
                  Lifetime(s, e) + (Second - 1) * Cardinality(ServiceGaps(s, e))
             /\ /\ gaps = {} /\ Denominator(s, e) > 0
                /\ Percentage(FleetSeconds("UP", s, e), s, e) = 10000
                => 20000 * (Lifetime(s, e) - Lasted("UP", s, e)) <=
                     Second * Denominator(s, e) + 10000 * Second * (Cardinality(Of("UP", s, e)) + 2)
  <2>1. ASSUME NEW op \in Ops
        PROVE  /\ 2 * Second * FleetSeconds(op, s, e) <=
                    2 * Lasted(op, s, e) + Second * Cardinality(Of(op, s, e))
               /\ 2 * Second * FleetSeconds(op, s, e) >=
                    2 * Lasted(op, s, e) - Second * Cardinality(Of(op, s, e))
    <3> DEFINE k == Second
               u == FleetSeconds(op, s, e)
               x == Lasted(op, s, e)
               n == Cardinality(Of(op, s, e))
               a == 2 * k * u
               c == k * n
    <3>1. /\ u \in Nat /\ x \in Nat /\ n \in Nat
          /\ (2 * k) * u <= 2 * x + k * n /\ 2 * x <= (2 * k) * u + k * n
      BY <1>1, FleetSecondsCounted
    <3>2. k \in Nat
      BY BoundsAssumption
    <3> HIDE DEF k, u, x, n
    <3>3. a \in Int /\ c \in Int /\ (2 * k) * u = a
      BY <3>1, <3>2, Z3
    <3>4. a <= 2 * x + c /\ 2 * x <= a + c
      BY <3>1, <3>3
    <3> HIDE DEF a, c
    <3>5. a <= 2 * x + c /\ a >= 2 * x - c
      BY <3>1, <3>3, <3>4
    <3> QED BY <3>5 DEF a, c, k, u, x, n
  <2>2. /\ Second * Denominator(s, e) > Lifetime(s, e) - Second
        /\ Second * Denominator(s, e) <=
             Lifetime(s, e) + (Second - 1) * Cardinality(ServiceGaps(s, e))
    BY <1>1, DenominatorCounted
  <2>3. ASSUME Denominator(s, e) > 0, Percentage(FleetSeconds("UP", s, e), s, e) = 10000
        PROVE  20000 * (Lifetime(s, e) - Lasted("UP", s, e)) <=
                 Second * Denominator(s, e) + 10000 * Second * (Cardinality(Of("UP", s, e)) + 2)
    BY <1>1, <2>3, FullPercentage
  <2> QED BY <2>1, <2>2, <2>3
<1>2. History => EverySecondOnce
  <2> SUFFICES ASSUME History PROVE EverySecondOnce
    OBVIOUS
  <2>1. \A w \in Windows : w[1] \in Times /\ w[2] \in Times /\ w[1] < w[2]
    BY DEF Windows
  <2> QED BY <1>1, <2>1 DEF EverySecondOnce
<1> QED BY <1>2, HistoryHolds, PTL

\* The rows of the uptime report are those of the fleet summary.
LEMMA ReportRows ==
  ASSUME Inv, NEW op \in Ops, NEW s \in Nat, NEW e \in Nat
  PROVE  {j \in Overlapping(Most(s, Created), e) : (rows[j].op = "UP") = (op = "UP")} = Of(op, s, e)
<1> DEFINE J == {j \in Overlapping(Most(s, Created), e) : (rows[j].op = "UP") = (op = "UP")}
<1>1. Created \in Nat /\ DOMAIN rows = 1..Len(rows)
  BY BoundsAssumption, RowFacts
<1>2. ASSUME NEW i \in 1..Len(rows)
      PROVE  i \in Of(op, s, e) <=> i \in J
  <2>1. i \in Overlapping(s, e) <=> i \in Overlapping(Most(s, Created), e)
    BY <1>1, RowFacts DEF Overlapping, Most
  <2>2. rows[i].op = op <=> (rows[i].op = "UP") = (op = "UP")
    BY RowFacts DEF Ops
  <2> QED BY <2>1, <2>2 DEF Of
<1>3. J \subseteq 1..Len(rows) /\ Of(op, s, e) \subseteq 1..Len(rows)
  BY <1>1 DEF Of, Overlapping
<1> HIDE DEF J
<1>4. J = Of(op, s, e)
  BY <1>2, <1>3
<1> QED BY <1>4 DEF J

\* Since s until now, UP, the endpoint list's rows last as long as the fleet summary's.
LEMMA ListedIs ==
  ASSUME History, NEW s \in Times, s < now
  PROVE  ListedSeconds(s) = Truncated(Lasted("UP", s, now))
<1> DEFINE I == Of("UP", s, now)
           K == {j \in DOMAIN rows : /\ rows[j].op = "UP" /\ rows[j].start < now
                                     /\ (IsOpen(rows[j]) \/ rows[j].end > s)}
<1>1. Inv /\ s \in Nat /\ now \in Nat /\ now \in Times
  BY BoundsAssumption DEF History, Inv, RowTypes, Times
<1>2. I \in SUBSET (1..Len(rows)) /\ K \in SUBSET (1..Len(rows))
  BY <1>1, RowFacts, OfAre
<1>3. \A i \in 1..Len(rows) : Seconds(i, s, now) # {} => (i \in I <=> i \in K)
  BY <1>1, RowFacts DEF Of, Overlapping, Seconds, Most, Least
<1>4. ListedSeconds(s) = Truncated(Total(K, s, now))
  BY DEF ListedSeconds, Total
<1>5. Total(I, s, now) = Lasted("UP", s, now)
  BY <1>1, LastedIs DEF Ops
<1> HIDE DEF I, K
<1>6. Total(I, s, now) = Total(K, s, now)
  BY <1>1, <1>2, <1>3, SameTotal
<1> QED BY <1>4, <1>5, <1>6

\* Truncating every row gives the seconds of rounding every row, or at most one less
\* for each, and the truncated sum or at most one less for each.
LEMMA ReportSecondsCounted ==
  ASSUME History, NEW op \in Ops, NEW s \in Times, NEW e \in Times, s < e
  PROVE  LET n == Cardinality(Of(op, s, e))
         IN  /\ ReportSeconds(op, s, e) \in Nat /\ n \in Nat
             /\ ReportSeconds(op, s, e) <= FleetSeconds(op, s, e)
             /\ FleetSeconds(op, s, e) <= ReportSeconds(op, s, e) + n
             /\ ReportSeconds(op, s, e) <= Truncated(Lasted(op, s, e))
             /\ Truncated(Lasted(op, s, e)) <= ReportSeconds(op, s, e) + n
<1> DEFINE I == Of(op, s, e)
           R == [i \in I |-> Rounded(Clamped(rows[i], s, e))]
           T == [i \in I |-> Truncated(Clamped(rows[i], s, e))]
           G == [i \in I |-> Clamped(rows[i], s, e)]
           k == Second
           n == Cardinality(I)
<1>1. Inv /\ s \in Nat /\ e \in Nat
  BY BoundsAssumption DEF History, Times
<1>2. I \in SUBSET (1..Len(rows))
  BY <1>1, OfAre
<1>3. IsFiniteSet(I) /\ n \in Nat
  BY <1>1, <1>2, SomeRows
<1>4. k \in Nat /\ k > 0 /\ k - 1 \in Nat /\ 0 \in Nat /\ 1 \in Nat
  BY BoundsAssumption
<1>5. ASSUME NEW i \in I
      PROVE  /\ R[i] \in Nat /\ T[i] \in Nat /\ G[i] \in Nat
             /\ T[i] <= R[i] + 0 /\ R[i] <= T[i] + 1
             /\ k * T[i] <= G[i] /\ G[i] <= k * T[i] + (k - 1)
  <2> DEFINE x == Clamped(rows[i], s, e)
             r == Rounded(x)
             t == Truncated(x)
             y == k * t
  <2>1. x \in Nat
    BY <1>1, <1>2, ClampedNat
  <2>2. R[i] = r /\ T[i] = t /\ G[i] = x
    OBVIOUS
  <2> HIDE DEF x, R, T, G
  <2>3. /\ r \in Nat /\ t \in Nat /\ t <= r /\ r <= t + 1
        /\ k * t <= x /\ x < k * t + k
    BY <2>1, ConversionIs
  <2> HIDE DEF r, t, k
  <2>4. y \in Nat
    BY <1>4, <2>3, Z3
  <2>5. y <= x /\ x < y + k
    BY <2>3
  <2> HIDE DEF y
  <2>6. y <= x /\ x <= y + (k - 1) /\ t <= r + 0 /\ r <= t + 1
    BY <1>4, <2>1, <2>3, <2>4, <2>5
  <2> QED BY <2>1, <2>2, <2>3, <2>6 DEF y
<1>6. ReportSeconds(op, s, e) = SumFunction(T)
  BY <1>1, ReportRows DEF ReportSeconds
<1>7. /\ FleetSeconds(op, s, e) = SumFunction(R) /\ Lasted(op, s, e) = SumFunction(G)
      /\ DOMAIN R = I /\ DOMAIN T = I /\ DOMAIN G = I
  BY LastedIs DEF FleetSeconds, Total
<1> HIDE DEF R, T, G, I, k, n
<1>8. /\ SumFunction(T) \in Nat /\ SumFunction(R) \in Nat
      /\ SumFunction(T) <= SumFunction(R)
      /\ SumFunction(R) <= SumFunction(T) + n
  <2> DEFINE zero == 0
             one == 1
  <2>1. zero \in Nat /\ one \in Nat
    OBVIOUS
  <2>2. \A i \in I : T[i] \in Nat /\ R[i] \in Nat /\ T[i] <= R[i] + zero /\ R[i] <= T[i] + one
    BY <1>5
  <2> HIDE DEF zero, one
  <2>3. /\ SumFunction(T) \in Nat /\ SumFunction(R) \in Nat
        /\ SumFunction(T) <= SumFunction(R) + zero * n
        /\ SumFunction(R) <= SumFunction(T) + one * n
    BY <1>3, <1>7, <2>1, <2>2, SumWithin DEF n
  <2> QED BY <1>3, <2>3 DEF zero, one
<1>9. /\ SumFunction(G) \in Nat
      /\ k * SumFunction(T) <= 1 * SumFunction(G) + 0 * n
      /\ 1 * SumFunction(G) <= k * SumFunction(T) + (k - 1) * n
  <2> DEFINE zero == 0
             one == 1
             less == k - 1
  <2>1. zero \in Nat /\ one \in Nat /\ less \in Nat
    BY <1>4
  <2>2. Near(T, G, I, one, k, zero, less)
    <3> SUFFICES ASSUME NEW i \in I
                 PROVE  /\ T[i] \in Nat /\ G[i] \in Nat
                        /\ k * T[i] <= one * G[i] + zero /\ one * G[i] <= k * T[i] + less
      BY DEF Near
    <3> DEFINE y == k * T[i]
    <3>1. y \in Nat
      BY <1>4, <1>5, Z3
    <3>2. T[i] \in Nat /\ G[i] \in Nat /\ y <= G[i] /\ G[i] <= y + (k - 1)
      BY <1>5
    <3> HIDE DEF y
    <3>3. y <= one * G[i] + zero /\ one * G[i] <= y + less
      BY <1>4, <3>1, <3>2
    <3> QED BY <3>2, <3>3 DEF y
  <2> HIDE DEF zero, one, less
  <2>3. /\ SumFunction(G) \in Nat
        /\ k * SumFunction(T) <= one * SumFunction(G) + zero * n
        /\ one * SumFunction(G) <= k * SumFunction(T) + less * n
    BY <1>3, <1>4, <1>7, <2>1, <2>2, SumBetween DEF n
  <2> QED BY <2>3 DEF zero, one, less
<1> DEFINE a == SumFunction(T)
           g == SumFunction(G)
           l == Truncated(g)
<1>10. l \in Nat /\ k * l <= g /\ g < k * l + k
  BY <1>9, ConversionIs DEF k
<1>11. /\ a \in Nat /\ g \in Nat /\ k * a <= 1 * g + 0 * n /\ 1 * g <= k * a + (k - 1) * n
  BY <1>8, <1>9
<1> HIDE DEF a, g, l
<1>12. k * a <= g /\ g <= k * a + (k * n - n)
  <2>1. 1 * g = g /\ 0 * n = 0 /\ (k - 1) * n = k * n - n /\ k * a \in Int /\ k * n \in Int
    BY <1>3, <1>4, <1>11, Z3
  <2> QED BY <1>3, <1>11, <2>1
<1>13. a <= l
  <2> SUFFICES ASSUME l + 1 <= a PROVE FALSE
    BY <1>10, <1>11
  <2>1. k * (l + 1) <= k * a /\ k * (l + 1) = k * l + k
    BY <1>4, <1>10, <1>11, Z3
  <2> QED BY <1>4, <1>10, <1>11, <1>12, <2>1, Z3
<1>14. l <= a + n
  <2> SUFFICES ASSUME a + n + 1 <= l PROVE FALSE
    BY <1>3, <1>10, <1>11
  <2>1. k * (a + n + 1) <= k * l /\ k * (a + n + 1) = k * a + k * n + k
    BY <1>3, <1>4, <1>10, <1>11, Z3
  <2> QED BY <1>3, <1>4, <1>10, <1>11, <1>12, <2>1, Z3
<1>15. SumFunction(T) <= SumFunction(R) /\ SumFunction(R) <= SumFunction(T) + n
  BY <1>3, <1>8
<1> QED BY <1>3, <1>6, <1>7, <1>8, <1>13, <1>14, <1>15 DEF a, g, l, n, I

\* A row that lies in the window counts, in the compiled report, at most a second more
\* or less than rounded.
LEMMA CompiledIs ==
  ASSUME Inv, NEW i \in 1..Len(rows), NEW s \in Nat, NEW e \in Nat,
         rows[i].start >= s, EndOf(rows[i]) <= e,
         NEW kept \in 0..(IF rows = <<>> THEN 0 ELSE Rounded(now - Latest.start))
  PROVE  /\ Compiled(rows[i], s, e, kept) \in Nat
         /\ Compiled(rows[i], s, e, kept) <= Rounded(Clamped(rows[i], s, e)) + 1
         /\ Rounded(Clamped(rows[i], s, e)) <= Compiled(rows[i], s, e, kept) + 1
<1> DEFINE x == Clamped(rows[i], s, e)
<1>1. x = EndOf(rows[i]) - rows[i].start /\ x \in Nat
  BY RowFacts DEF Clamped, Most, Least
<1>2. /\ Rounded(x) \in Nat /\ Truncated(x) \in Nat
      /\ Truncated(x) <= Rounded(x) /\ Rounded(x) <= Truncated(x) + 1
  BY <1>1, ConversionIs
<1>3. Compiled(rows[i], s, e, kept) =
        IF Truncated(x) # 0 THEN Truncated(x)
        ELSE IF IsOpen(rows[i]) THEN kept ELSE Rounded(rows[i].end - rows[i].start)
  BY DEF Compiled
<1>4. CASE Truncated(x) # 0
  BY <1>2, <1>3, <1>4
<1>5. CASE Truncated(x) = 0 /\ IsOpen(rows[i])
  <2>1. rows # <<>>
    BY RowFacts DEF Inv, RowTypes
  <2>2. i = Len(rows)
    <3>1. \A j \in 1..Len(rows) : ~ (i < j)
      BY <1>5, RowFacts DEF Inv, RowsAreDisjoint
    <3>2. Len(rows) \in Nat /\ Len(rows) \in 1..Len(rows)
      BY RowFacts
    <3> QED BY <3>1, <3>2
  <2>3. x = now - Latest.start
    BY <1>1, <1>5, <2>2, RowFacts DEF Latest
  <2>4. kept \in 0..Rounded(x)
    BY <2>1, <2>3
  <2> QED BY <1>2, <1>3, <1>5, <2>4
<1>6. CASE Truncated(x) = 0 /\ ~IsOpen(rows[i])
  <2>1. x = rows[i].end - rows[i].start
    BY <1>1, <1>6, RowFacts
  <2>2. Compiled(rows[i], s, e, kept) = Rounded(x)
    BY <1>3, <1>6, <2>1
  <2> QED BY <1>2, <2>2
<1> QED BY <1>4, <1>5, <1>6

LEMMA CompiledSecondsCounted ==
  ASSUME History, NEW op \in Ops, NEW s \in Times, NEW e \in Times, s < e,
         \A i \in Of(op, s, e) : rows[i].start >= s /\ EndOf(rows[i]) <= e,
         NEW kept \in 0..(IF rows = <<>> THEN 0 ELSE Rounded(now - Latest.start))
  PROVE  LET n == Cardinality(Of(op, s, e))
         IN  /\ CompiledSeconds(op, s, e, kept) <= FleetSeconds(op, s, e) + n
             /\ FleetSeconds(op, s, e) <= CompiledSeconds(op, s, e, kept) + n
<1> DEFINE I == Of(op, s, e)
           R == [i \in I |-> Rounded(Clamped(rows[i], s, e))]
           C == [i \in I |-> Compiled(rows[i], s, e, kept)]
           n == Cardinality(I)
<1>1. Inv /\ s \in Nat /\ e \in Nat
  BY BoundsAssumption DEF History, Times
<1>2. I \in SUBSET (1..Len(rows))
  BY <1>1, OfAre
<1>3. IsFiniteSet(I) /\ n \in Nat
  BY <1>1, <1>2, SomeRows
<1>4. ASSUME NEW i \in I
      PROVE  /\ C[i] \in Nat /\ R[i] \in Nat
             /\ C[i] <= R[i] + 1 /\ R[i] <= C[i] + 1
  <2> DEFINE r == Rounded(Clamped(rows[i], s, e))
             c == Compiled(rows[i], s, e, kept)
  <2>1. i \in 1..Len(rows) /\ rows[i].start >= s /\ EndOf(rows[i]) <= e
    BY <1>2
  <2>2. Clamped(rows[i], s, e) \in Nat
    BY <1>1, <2>1, ClampedNat
  <2>3. r \in Nat
    BY <2>2, ConversionIs
  <2>4. c \in Nat /\ c <= r + 1 /\ r <= c + 1
    BY <1>1, <2>1, CompiledIs
  <2>5. C[i] = c /\ R[i] = r
    OBVIOUS
  <2> HIDE DEF c, r, C, R
  <2> QED BY <2>3, <2>4, <2>5
<1>5. /\ CompiledSeconds(op, s, e, kept) = SumFunction(C)
      /\ FleetSeconds(op, s, e) = SumFunction(R) /\ DOMAIN C = I /\ DOMAIN R = I
  BY DEF CompiledSeconds, FleetSeconds
<1> HIDE DEF R, C, I, n
<1> DEFINE one == 1
<1>6. one \in Nat
  OBVIOUS
<1>7. \A i \in I : C[i] \in Nat /\ R[i] \in Nat /\ C[i] <= R[i] + one /\ R[i] <= C[i] + one
  BY <1>4
<1> HIDE DEF one
<1>8. /\ SumFunction(C) \in Nat /\ SumFunction(R) \in Nat
      /\ SumFunction(C) <= SumFunction(R) + one * n
      /\ SumFunction(R) <= SumFunction(C) + one * n
  BY <1>3, <1>5, <1>6, <1>7, SumWithin DEF n
<1>9. SumFunction(C) <= SumFunction(R) + n /\ SumFunction(R) <= SumFunction(C) + n
  BY <1>3, <1>8 DEF one
<1> QED BY <1>5, <1>9 DEF n, I

\* The fleet summary, the uptime report, the endpoint list and the compiled report
\* add up the same time of the same window, but for what their conversions to seconds
\* lose or add: at most a second per row.
THEOREM TheReportsAgree == Spec => []ReportsAgree
<1>1. ASSUME History, NEW op \in Ops, NEW s \in Times, NEW e \in Times, s < e
      PROVE  LET fleet == FleetSeconds(op, s, e)
                 report == ReportSeconds(op, s, e)
                 n == Cardinality(Of(op, s, e))
             IN  /\ report <= fleet /\ fleet <= report + n
                 /\ op = "UP" /\ e = now =>
                      /\ ListedSeconds(s) = Truncated(Lasted(op, s, e))
                      /\ report <= ListedSeconds(s) /\ ListedSeconds(s) <= report + n
                 /\ (\A i \in Of(op, s, e) : rows[i].start >= s /\ EndOf(rows[i]) <= e) =>
                      \A kept \in 0..(IF rows = <<>> THEN 0 ELSE Rounded(now - Latest.start)) :
                        LET compiled == CompiledSeconds(op, s, e, kept)
                        IN  compiled <= fleet + n /\ fleet <= compiled + n
  <2>1. LET n == Cardinality(Of(op, s, e))
        IN  /\ ReportSeconds(op, s, e) <= FleetSeconds(op, s, e)
            /\ FleetSeconds(op, s, e) <= ReportSeconds(op, s, e) + n
            /\ ReportSeconds(op, s, e) <= Truncated(Lasted(op, s, e))
            /\ Truncated(Lasted(op, s, e)) <= ReportSeconds(op, s, e) + n
    BY <1>1, ReportSecondsCounted
  <2>2. op = "UP" /\ e = now => ListedSeconds(s) = Truncated(Lasted(op, s, e))
    BY <1>1, ListedIs
  <2>3. ASSUME \A i \in Of(op, s, e) : rows[i].start >= s /\ EndOf(rows[i]) <= e,
               NEW kept \in 0..(IF rows = <<>> THEN 0 ELSE Rounded(now - Latest.start))
        PROVE  LET n == Cardinality(Of(op, s, e))
               IN  /\ CompiledSeconds(op, s, e, kept) <= FleetSeconds(op, s, e) + n
                   /\ FleetSeconds(op, s, e) <= CompiledSeconds(op, s, e, kept) + n
    BY <1>1, <2>3, CompiledSecondsCounted
  <2> QED BY <2>1, <2>2, <2>3
<1>2. History => ReportsAgree
  <2> SUFFICES ASSUME History PROVE ReportsAgree
    OBVIOUS
  <2>1. \A w \in Windows : w[1] \in Times /\ w[2] \in Times /\ w[1] < w[2]
    BY DEF Windows
  <2> QED BY <1>1, <2>1 DEF ReportsAgree
<1> QED BY <1>2, HistoryHolds, PTL

\* In rows that follow one another without a break there are as many incidents as
\* there are outages.
LEMMA IncidentsAreOutages ==
  ASSUME History, NEW I \in SUBSET (1..Len(rows)),
         \A i, k \in I : \A j \in i..k : j \in I
  PROVE  /\ IsFiniteSet(Incidents(I))
         /\ Cardinality(Incidents(I)) = Cardinality({outages[i] : i \in I} \ {0})
<1> DEFINE N == Incidents(I)
           O == {outages[i] : i \in I} \ {0}
           f == [i \in N |-> outages[i]]
<1>1. Inv /\ OutageInv
  BY DEF History
<1>2. /\ Len(rows) \in Nat
      /\ \A i \in I : i \in 1..Len(rows) /\ i \in Nat /\ rows[i].op \in Ops /\ outages[i] \in Nat
      /\ \A i \in I : outages[i] # 0 <=> rows[i].op = "DOWN"
  <2>1. \A i \in 1..Len(rows) : rows[i].op \in Ops /\ outages[i] \in Nat
    BY <1>1, RowFacts DEF OutageInv
  <2> QED BY <1>1, <2>1, RowFacts DEF OutageInv, Ops
<1>3. \A i, j \in I : i < j /\ rows[i].op = "DOWN" /\ rows[j].op = "DOWN" =>
        (outages[i] = outages[j] <=> \A k \in i..j : rows[k].op = "DOWN")
  BY <1>1 DEF OutageInv
<1>4. IsFiniteSet(I) /\ IsFiniteSet(N)
  <2>1. IsFiniteSet(1..Len(rows))
    BY <1>2, FS_Interval
  <2>2. IsFiniteSet(I)
    BY <2>1, FS_Subset
  <2>3. N \in SUBSET I
    BY DEF Incidents
  <2> QED BY <2>2, <2>3, FS_Subset
<1>5. \A i \in N : i \in I /\ rows[i].op = "DOWN" /\ (i - 1 \notin I \/ rows[i - 1].op # "DOWN")
  BY DEF Incidents, Leads
<1>6. ASSUME NEW i \in N, NEW j \in N, i < j PROVE outages[i] # outages[j]
  <2>1. i \in I /\ j \in I /\ i \in Nat /\ j \in Nat /\ rows[i].op = "DOWN" /\ rows[j].op = "DOWN"
    BY <1>2, <1>5
  <2>2. j - 1 \in i..j
    BY <1>6, <2>1
  <2>3. j - 1 \in I
    BY <2>1, <2>2
  <2>4. rows[j - 1].op # "DOWN"
    BY <1>5, <2>3
  <2> QED BY <1>3, <1>6, <2>1, <2>2, <2>4
<1>7. ASSUME NEW o \in O PROVE \E i \in N : f[i] = o
  <2> DEFINE Q == {i \in I : outages[i] = o}
  <2>1. IsFiniteSet(Q) /\ Q # {} /\ Q \subseteq Int
    <3>1. Q \in SUBSET I
      OBVIOUS
    <3>2. PICK i \in I : outages[i] = o
      BY <1>7
    <3>3. i \in Q
      BY <3>2
    <3>4. \A j \in I : j \in Int
      BY <1>2
    <3> HIDE DEF Q
    <3> QED BY <1>4, <3>1, <3>3, <3>4, FS_Subset
  <2>2. PICK i \in Q : \A j \in Q : i <= j
    <3> HIDE DEF Q
    <3> QED BY <2>1, Extremes
  <2>3. i \in I /\ i \in Nat /\ rows[i].op = "DOWN" /\ outages[i] = o
    BY <1>2, <1>7
  <2>4. i - 1 \notin I \/ rows[i - 1].op # "DOWN"
    <3> SUFFICES ASSUME i - 1 \in I, rows[i - 1].op = "DOWN" PROVE FALSE
      OBVIOUS
    <3>1. \A k \in (i - 1)..i : k = i - 1 \/ k = i
      BY <2>3
    <3>2. \A k \in (i - 1)..i : rows[k].op = "DOWN"
      BY <2>3, <3>1
    <3>3. i - 1 < i /\ ~(i <= i - 1)
      BY <2>3
    <3>4. outages[i - 1] = outages[i]
      BY <1>3, <2>3, <3>2, <3>3
    <3>5. i - 1 \in Q
      BY <2>3, <3>4
    <3> QED BY <2>2, <3>3, <3>5
  <2>5. i \in N
    BY <2>3, <2>4 DEF Incidents, Leads
  <2> HIDE DEF N
  <2> QED BY <2>3, <2>5
<1>8. \A i \in N : f[i] \in O
  BY <1>2, <1>5
<1>9. f \in Surjection(N, O)
  <2> HIDE DEF N, O
  <2> QED BY <1>7, <1>8 DEF Surjection
<1>10. f \in Injection(N, O)
  <2>1. \A i, j \in N : i # j => f[i] # f[j]
    <3> SUFFICES ASSUME NEW i \in N, NEW j \in N, i # j PROVE outages[i] # outages[j]
      OBVIOUS
    <3>1. i \in Nat /\ j \in Nat
      BY <1>2, <1>5
    <3>2. i < j \/ j < i
      BY <3>1
    <3> HIDE DEF N
    <3> QED BY <1>6, <3>2
  <2> HIDE DEF N, O
  <2>2. f \in [N -> O] /\ DOMAIN f = N
    BY <1>8
  <2> HIDE DEF f
  <2> QED BY <2>1, <2>2 DEF Injection, IsInjective
<1> HIDE DEF N, O, f
<1>11. Cardinality(O) = Cardinality(N)
  BY <1>4, <1>9, <1>10, FS_Surjection
<1> QED BY <1>4, <1>11 DEF N, O

\* An outage is one incident in every report, however many rows roll-overs, changes
\* of detail, restarts and other workers' cleanups split it into.
THEOREM OutagesAreCounted == Spec => []OutagesCountedOnce
<1>1. ASSUME History, NEW s \in Times, NEW e \in Times, s < e
      PROVE  /\ IncidentCount(s, e) = Cardinality({outages[i] : i \in Overlapping(s, e)} \ {0})
             /\ Cardinality(IncidentLog(s, e)) = Cardinality({outages[i] : i \in Started(s, e)} \ {0})
  <2>1. Inv /\ OutageInv /\ s \in Nat /\ e \in Nat
    BY <1>1, BoundsAssumption DEF History, Times
  <2>2. ASSUME NEW i \in 1..Len(rows), NEW j \in 1..Len(rows), i <= j
        PROVE  rows[i].start <= rows[j].start /\ EndOf(rows[i]) <= EndOf(rows[j])
    <3>1. CASE i = j
      BY <2>1, <3>1, RowFacts
    <3>2. CASE i < j
      BY <2>1, <3>2, RowFacts
    <3> QED BY <2>1, <2>2, <3>1, <3>2, RowFacts
  <2>3. \A i \in 1..Len(rows) :
          /\ i \in Overlapping(s, e) <=> rows[i].start <= e /\ (IsOpen(rows[i]) \/ EndOf(rows[i]) >= s)
          /\ i \in Started(s, e) <=> s <= rows[i].start /\ rows[i].start <= e
    BY <2>1, RowFacts DEF Overlapping, Started
  <2>4. Overlapping(s, e) \subseteq 1..Len(rows) /\ Started(s, e) \subseteq 1..Len(rows)
    BY <2>1, RowFacts DEF Overlapping, Started
  <2>5. ASSUME NEW i \in 1..Len(rows), NEW k \in 1..Len(rows), NEW j \in i..k
        PROVE  /\ j \in 1..Len(rows)
               /\ i \in Overlapping(s, e) /\ k \in Overlapping(s, e) => j \in Overlapping(s, e)
               /\ i \in Started(s, e) /\ k \in Started(s, e) => j \in Started(s, e)
    <3>1. j \in 1..Len(rows) /\ i <= j /\ j <= k
      BY <2>1, RowFacts
    <3>2. IsOpen(rows[i]) /\ i # j => EndOf(rows[i]) = now /\ EndOf(rows[i]) <= rows[j].start
      BY <2>1, <3>1, RowFacts
    <3>3. IsOpen(rows[i]) => IsOpen(rows[j])
      <4> SUFFICES ASSUME IsOpen(rows[i]), i # j PROVE FALSE
        OBVIOUS
      <4>1. i < j /\ i \in DOMAIN rows /\ j \in DOMAIN rows
        BY <2>1, <3>1, RowFacts
      <4> QED BY <2>1, <4>1 DEF Inv, RowsAreDisjoint
    <3>4. rows[i].start <= rows[j].start /\ rows[j].start <= rows[k].start
          /\ EndOf(rows[i]) <= EndOf(rows[j])
      BY <2>2, <3>1
    <3>5. rows[i].start \in Nat /\ rows[j].start \in Nat /\ rows[k].start \in Nat
          /\ EndOf(rows[i]) \in Nat /\ EndOf(rows[j]) \in Nat
      BY <2>1, <3>1, RowFacts
    <3>6. i \in Overlapping(s, e) /\ k \in Overlapping(s, e) => j \in Overlapping(s, e)
      <4> SUFFICES ASSUME i \in Overlapping(s, e), k \in Overlapping(s, e)
                   PROVE  j \in Overlapping(s, e)
        OBVIOUS
      <4>1. /\ IsOpen(rows[i]) \/ EndOf(rows[i]) >= s
            /\ rows[k].start <= e
        BY <2>3
      <4>2. rows[j].start <= e /\ (IsOpen(rows[j]) \/ EndOf(rows[j]) >= s)
        BY ONLY <2>1, <3>3, <3>4, <3>5, <4>1
      <4> QED BY <2>3, <3>1, <4>2
    <3>7. i \in Started(s, e) /\ k \in Started(s, e) => j \in Started(s, e)
      <4> SUFFICES ASSUME i \in Started(s, e), k \in Started(s, e)
                   PROVE  j \in Started(s, e)
        OBVIOUS
      <4>1. s <= rows[i].start /\ rows[k].start <= e
        BY <2>3
      <4>2. s <= rows[j].start /\ rows[j].start <= e
        BY ONLY <2>1, <3>4, <3>5, <4>1
      <4> QED BY <2>3, <3>1, <4>2
    <3> QED BY ONLY <3>1, <3>6, <3>7
  <2>6. IncidentCount(s, e) = Cardinality({outages[i] : i \in Overlapping(s, e)} \ {0})
    <3>1. \A i, k \in Overlapping(s, e) : \A j \in i..k : j \in Overlapping(s, e)
      BY <2>4, <2>5
    <3> QED BY <1>1, <2>4, <3>1, IncidentsAreOutages DEF IncidentCount
  <2>7. Cardinality(IncidentLog(s, e)) = Cardinality({outages[i] : i \in Started(s, e)} \ {0})
    <3> DEFINE I == Started(s, e)
               N == Incidents(I)
               f == [i \in N |-> [start |-> rows[i].start, rows |-> Cardinality(Group(I, i))]]
               L == IncidentLog(s, e)
    <3>1. \A i, k \in I : \A j \in i..k : j \in I
      BY <2>4, <2>5
    <3>2. IsFiniteSet(N) /\ Cardinality(N) = Cardinality({outages[i] : i \in I} \ {0})
      <4> HIDE DEF I
      <4>1. I \in SUBSET (1..Len(rows))
        BY <2>4 DEF I
      <4> QED BY <1>1, <3>1, <4>1, IncidentsAreOutages
    <3>3. L = {f[i] : i \in N}
      BY DEF IncidentLog
    <3>4. N \subseteq 1..Len(rows)
      BY <2>4 DEF Incidents
    <3>5. \A i, j \in N : i # j => f[i] # f[j]
      <4> SUFFICES ASSUME NEW i \in N, NEW j \in N, i # j PROVE f[i] # f[j]
        OBVIOUS
      <4>1. rows[i].start # rows[j].start
        <5>1. i \in 1..Len(rows) /\ j \in 1..Len(rows)
          BY <3>4
        <5>2. CASE i < j
          BY <2>1, <5>1, <5>2, RowFacts DEF OutageInv
        <5>3. CASE j < i
          BY <2>1, <5>1, <5>3, RowFacts DEF OutageInv
        <5> QED BY <5>1, <5>2, <5>3
      <4>2. f[i].start = rows[i].start /\ f[j].start = rows[j].start
        OBVIOUS
      <4> QED BY <4>1, <4>2
    <3>6. DOMAIN f = N
      OBVIOUS
    <3> HIDE DEF N, f, L, I
    <3>7. f \in [N -> L]
      <4>1. f = [i \in N |-> f[i]]
        BY DEF f
      <4> QED BY <3>3, <4>1
    <3>8. f \in Surjection(N, L) /\ f \in Injection(N, L)
      BY <3>3, <3>5, <3>6, <3>7 DEF Surjection, Injection, IsInjective
    <3>9. Cardinality(L) = Cardinality(N)
      BY <3>2, <3>8, FS_Surjection
    <3> QED BY <3>2, <3>9 DEF L, I
  <2> QED BY <2>6, <2>7
<1>2. History => OutagesCountedOnce
  BY <1>1 DEF OutagesCountedOnce, Windows
<1> QED BY <1>2, HistoryHolds, PTL

-----------------------------------------------------------------------------
(* The invariant.                                                          *)

Places == {"idle", "rebuild", "building", "linking", "tracing", "traced", "path"}

Jobs == [at : Places, e : Endpoints \cup {None}, arg : Endpoints \cup Found \cup {None},
         overtaken : BOOLEAN, then : {None, "path", "rebuild"}]

\* What a task has in hand.
Proper(job) ==
  /\ job.at \in {"linking", "tracing", "traced", "path"} => job.e \in Endpoints
  /\ job.at = "linking" => job.arg \in Endpoints
  /\ job.at \in {"traced", "path"} => job.arg \in Found
  /\ job.at = "traced" => job.then \in {"path", "rebuild"}

\* The task that holds the lock is the one that builds.
TasksInv ==
  /\ tasks \in [Tasks -> {job \in Jobs : Proper(job)}] /\ rebuild \in {None} \cup Rebuilds
  /\ \A t \in Tasks : tasks[t].at = "building" <=> (rebuild # None /\ rebuild.by = t)

\* What waits to be discovered, and what the consumer is at.
QueueInv ==
  /\ tasks[Consumer].at \notin {"linking", "tracing"}
  /\ tasks[Consumer].at = "idle" => tasks[Consumer].e = None
  /\ tasks[Consumer].at # "idle" => tasks[Consumer].e \in Endpoints
  /\ tasks[Consumer].at = "traced" => tasks[Consumer].then = "path"
  /\ queue \in Seq(Endpoints)
  /\ \A i, j \in 1..Len(queue) : queue[i] = queue[j] => i = j
  /\ \A i \in 1..Len(queue) : queue[i] # tasks[Consumer].e
  /\ discovering = {queue[i] : i \in 1..Len(queue)}
                   \cup (IF tasks[Consumer].at = "idle" THEN {} ELSE {tasks[Consumer].e})

\* A router with nothing up below it is not shown up.
Lit(g) ==
  \A n \in DOMAIN g.state :
    n[1] = "transit" /\ g.state[n] = "UP" =>
      \/ Downstream(g.edges, n) = {}
      \/ \E m \in Downstream(g.edges, n) : g.state[m] \notin Down

Fields == {"state", "edges", "hidden", "routes", "parent"}

Shaped(g) ==
  /\ DOMAIN g = Fields
  /\ g.state \in [DOMAIN g.state -> States] /\ IsFiniteSet(DOMAIN g.state)
  /\ Root \in DOMAIN g.state
  /\ EndsOf(g.edges) \subseteq DOMAIN g.state
  /\ Known(g) \cap g.hidden = {} /\ DOMAIN g.parent = Known(g)
  /\ \A e \in DOMAIN g.routes : g.routes[e] \in Seq(Hops \cup {Silent})

\* What the row of e will say when the engine has committed.
Expected(e) == IF coming[e] # None THEN coming[e] ELSE db[e].up

Sound(e) == e \notin astray \/ (rebuild # None /\ e \in rebuild.clean)

Newest(c, i) == \A j \in 1..Len(wire[c]) : j > i => wire[c][j].e # wire[c][i].e

\* The last event about an endpoint says what its row will say.
Told(e) ==
  Sound(e) =>
    \A c \in Channels : \A i \in 1..Len(wire[c]) :
      wire[c][i].e = e /\ Newest(c, i) => wire[c][i].up = Expected(e)

\* With no event on the way the graph says so, or the rebuild under way has read it.
Follows(e) ==
  e \in Known(graph) /\ e \notin astray
    => OnTheWay(e) \/ (graph.state[Monitored(e)] = "UP" <=> Expected(e))

WillFollow(e) ==
  rebuild # None /\ e \in DOMAIN rebuild.rows /\ e \notin rebuild.dirty /\ Sound(e)
    => OnTheWay(e) \/ rebuild.rows[e].up = Expected(e)

Events == [e : Endpoints, up : BOOLEAN]

WireOK == wire \in [Channels -> Seq(Events)]

EventsInv ==
  /\ coming \in [Endpoints -> BOOLEAN \cup {None}] /\ WireOK
  /\ \A e \in Endpoints : Told(e) /\ Follows(e) /\ WillFollow(e)

\* Manual parents.
Above(par) == {l \in (DOMAIN par) \X (DOMAIN par) : par[l[1]] = l[2]}
Loopless(par) == \A c \in DOMAIN par : par[c] \in DOMAIN par => c \notin Reach(Above(par), {par[c]})
Parents(seen) == [e \in DOMAIN seen |-> seen[e].parent]

ParentsInv ==
  /\ \A t \in Tasks : tasks[t].at = "linking" /\ ~tasks[t].overtaken
                        => ~ParentCycle(tasks[t].e, tasks[t].arg)
  /\ ~blind => /\ Loopless(Parents(db)) /\ Loopless(graph.parent)
               /\ rebuild # None => Loopless(Parents(rebuild.rows))

\* The path an endpoint was laid on.
WayTo(g, e) == IF e \in DOMAIN g.routes THEN Clean(g.routes[e]) ELSE <<>>
PathTo(g, e) == <<Root>> \o Way(e, WayTo(g, e), Known(g)) \o <<Monitored(e)>>

Joined(g, n, m) ==
  n = m \/ <<n, m>> \in g.edges \/ (n = Root /\ <<Root, Hub>> \in g.edges /\ <<Hub, m>> \in g.edges)

AllJoined(g, P, i) == \A j \in i..Len(P) - 1 : Joined(g, P[j], P[j + 1])

\* Does the graph lead to e from the root and the endpoints in S?
ByParent(g, e, S) == g.parent[e] \in S /\ <<Monitored(g.parent[e]), Monitored(e)>> \in g.edges
ByPath(g, e, S) ==
  \E i \in 1..Len(PathTo(g, e)) :
    /\ i = 1 \/ \E f \in S : PathTo(g, e)[i] = Monitored(f)
    /\ AllJoined(g, PathTo(g, e), i)

\* The endpoints below a cycle of manual parents.
KnottedIn(g) ==
  {e \in Known(g) : \E c \in Reach(Above(g.parent), {e}) :
    g.parent[c] \in Known(g) /\ c \in Reach(Above(g.parent), {g.parent[c]})}

\* From any endpoints that leave out one that is not knotted, the graph leads to
\* one more: by its parent, or by the rest of its path.
Grows(g) ==
  \A S \in SUBSET Known(g) :
    (\E e \in Known(g) \ S : e \notin KnottedIn(g))
      => \E e \in Known(g) \ S : ByParent(g, e, S) \/ ByPath(g, e, S)

-----------------------------------------------------------------------------
(* Lists as folds.                                                         *)

\* The greatest number of a finite set that is not empty.
LEMMA MaxIs ==
  ASSUME NEW S, IsFiniteSet(S)
  PROVE  S \subseteq Int /\ S # {} => Max(S) \in S /\ \A y \in S : Max(S) >= y
<1> DEFINE Bad == {s \in SUBSET S : s # {} /\ ~ \E x \in s : \A y \in s : x >= y}
<1>1. Bad # {} => \E s \in Bad : \A t \in Bad : t \subseteq s => t = s
  <2>1. Bad \subseteq SUBSET S
    OBVIOUS
  <2> HIDE DEF Bad
  <2> QED BY <2>1, MinimalSubset
<1>2. ASSUME S \subseteq Int, Bad # {} PROVE FALSE
  <2>1. PICK s \in Bad : \A t \in Bad : t \subseteq s => t = s
    BY <1>1, <1>2, Zenon
  <2>2. PICK x \in s : TRUE
    OBVIOUS
  <2>3. CASE s \ {x} = {}
    BY <1>2, <2>2, <2>3
  <2>4. CASE s \ {x} # {}
    <3>1. s \ {x} \in SUBSET S /\ s \ {x} # s
      BY <2>2
    <3>2. PICK g \in s \ {x} : \A y \in s \ {x} : g >= y
      BY <2>1, <2>4, <3>1
    <3>3. \A y \in s : y = x \/ y \in s \ {x}
      OBVIOUS
    <3>4. x >= g \/ g >= x
      BY <1>2, <2>2, <3>2
    <3> QED BY <1>2, <2>2, <3>2, <3>3, <3>4
  <2> QED BY <2>3, <2>4
<1>3. ASSUME S \subseteq Int, S # {} PROVE \E x \in S : \A y \in S : x >= y
  BY <1>2, <1>3
<1> QED BY <1>3 DEF Max

\* f folds the members of s, taken at the places of every subset of U, with g.
Folds(f, U, base, s, g) ==
  \A T \in SUBSET U :
    f[T] = IF T = {} THEN base ELSE g[<<f[T \ {Max(T)}], s[Max(T)]>>]

LEMMA FoldExists ==
  ASSUME NEW n \in Nat, NEW A, NEW B, NEW base \in A, NEW s \in [1..n -> B],
         NEW g \in [A \X B -> A]
  PROVE  \E f \in [SUBSET (1..n) -> A] : Folds(f, 1..n, base, s, g)
<1> DEFINE S == 1..n
           Good(U) == \E f \in [SUBSET U -> A] : Folds(f, U, base, s, g)
           Bad == {U \in SUBSET S : ~Good(U)}
<1>1. IsFiniteSet(S)
  BY FS_Interval
<1>2. Bad # {} => \E U \in Bad : \A V \in Bad : V \subseteq U => V = U
  <2>1. Bad \subseteq SUBSET S
    OBVIOUS
  <2> HIDE DEF Bad, S
  <2> QED BY <1>1, <2>1, MinimalSubset
<1>3. ASSUME Bad # {} PROVE FALSE
  <2>1. PICK U \in Bad : \A V \in Bad : V \subseteq U => V = U
    BY <1>2, <1>3, Zenon
  <2>2. U \in SUBSET S /\ ~Good(U)
    OBVIOUS
  <2>3. CASE U = {}
    <3> DEFINE f == [T \in {{}} |-> base]
    <3>1. Folds(f, U, base, s, g) /\ f \in [SUBSET U -> A]
      BY <2>3 DEF Folds
    <3> HIDE DEF f
    <3> QED BY <2>2, <3>1
  <2>4. CASE U # {}
    <3> DEFINE m == Max(U)
               V == U \ {m}
    <3>1. \A T \in SUBSET U : T # {} => Max(T) \in T /\ \A y \in T : Max(T) >= y
      <4> SUFFICES ASSUME NEW T \in SUBSET U, T # {}
                   PROVE  Max(T) \in T /\ \A y \in T : Max(T) >= y
        OBVIOUS
      <4>1. T \subseteq Int
        BY <2>2
      <4>2. IsFiniteSet(T)
        <5> HIDE DEF S
        <5> QED BY <1>1, <2>2, FS_Subset
      <4> QED BY <4>1, <4>2, MaxIs
    <3>2. m \in U /\ \A T \in SUBSET U : m \in T => Max(T) = m
      <4>1. m \in U /\ \A y \in U : m >= y
        BY <2>4, <3>1
      <4>2. \A y \in U : y \in Int
        BY <2>2
      <4> HIDE DEF m
      <4>3. ASSUME NEW T \in SUBSET U, m \in T PROVE Max(T) = m
        <5>1. Max(T) \in U /\ Max(T) >= m
          BY <3>1, <4>3
        <5>2. Max(T) \in Int /\ m \in Int /\ m >= Max(T)
          BY <4>1, <4>2, <5>1
        <5> QED BY <5>1, <5>2
      <4> QED BY <4>1, <4>3
    <3>3. Good(V)
      <4>1. V \in SUBSET S /\ V # U /\ V \subseteq U
        BY <2>2, <3>2
      <4> HIDE DEF V, Good
      <4> QED BY <2>1, <4>1
    <3>4. PICK f \in [SUBSET V -> A] : Folds(f, V, base, s, g)
      BY <3>3
    <3> DEFINE h == [T \in SUBSET U |-> IF m \notin T THEN f[T] ELSE g[<<f[T \ {m}], s[m]>>]]
    <3> HIDE DEF m
    <3>5. ASSUME NEW T \in SUBSET U
          PROVE  /\ h[T] = IF T = {} THEN base ELSE g[<<h[T \ {Max(T)}], s[Max(T)]>>]
                 /\ h[T] \in A
      <4>1. CASE m \in T
        <5>1. Max(T) = m /\ T \ {m} \in SUBSET U /\ T \ {m} \in SUBSET V
          BY <3>2, <4>1
        <5>2. h[T \ {m}] = f[T \ {m}] /\ f[T \ {m}] \in A
          BY <3>4, <5>1
        <5>3. s[m] \in B
          BY <2>2, <3>2
        <5>4. h[T] = g[<<f[T \ {m}], s[m]>>]
          BY <4>1
        <5>5. g[<<f[T \ {m}], s[m]>>] \in A
          BY <5>2, <5>3
        <5> HIDE DEF h
        <5> QED BY <4>1, <5>1, <5>2, <5>4, <5>5
      <4>2. CASE m \notin T
        <5>1. T \in SUBSET V
          BY <4>2
        <5>2. f[T] = IF T = {} THEN base ELSE g[<<f[T \ {Max(T)}], s[Max(T)]>>]
          BY <3>4, <5>1 DEF Folds
        <5>3. T # {} => h[T \ {Max(T)}] = f[T \ {Max(T)}]
          BY <4>2
        <5>4. f[T] \in A /\ h[T] = f[T]
          BY <3>4, <4>2, <5>1
        <5> HIDE DEF h
        <5> QED BY <4>2, <5>2, <5>3, <5>4
      <4> QED BY <4>1, <4>2
    <3>6. h \in [SUBSET U -> A]
      <4>1. DOMAIN h = SUBSET U /\ h = [T \in SUBSET U |-> h[T]]
        OBVIOUS
      <4> HIDE DEF h
      <4> QED BY <3>5, <4>1
    <3>7. Folds(h, U, base, s, g)
      <4> HIDE DEF h
      <4> QED BY <3>5 DEF Folds
    <3> HIDE DEF h
    <3> QED BY <2>2, <3>6, <3>7
  <2> QED BY <2>3, <2>4
<1>4. Good(S)
  BY <1>3
<1> QED BY <1>4

\* The last number of an interval.
LEMMA UpTo ==
  ASSUME NEW i \in Nat
  PROVE  /\ Max(1..(i + 1)) = i + 1 /\ 1..(i + 1) \ {i + 1} = 1..i
         /\ 1..(i + 1) # {} /\ i + 1 \in 1..(i + 1)
<1>1. i + 1 \in 1..(i + 1) /\ (\A y \in 1..(i + 1) : i + 1 >= y) /\ 1..(i + 1) # {}
  OBVIOUS
<1>2. IsFiniteSet(1..(i + 1)) /\ 1..(i + 1) \subseteq Int
  <2>1. 1 \in Int /\ i + 1 \in Int /\ 1..(i + 1) \subseteq Int
    OBVIOUS
  <2> QED BY <2>1, FS_Interval
<1>3. Max(1..(i + 1)) \in 1..(i + 1) /\ \A y \in 1..(i + 1) : Max(1..(i + 1)) >= y
  BY <1>1, <1>2, MaxIs
<1>4. Max(1..(i + 1)) = i + 1
  BY <1>1, <1>3
<1>5. 1..(i + 1) \ {i + 1} = 1..i
  OBVIOUS
<1> QED BY <1>1, <1>4, <1>5

\* What holds of the first member's start and is kept from each member to the next holds
\* of the whole list: Z relates how many members are folded to what they are folded to.
LEMMA FoldReaches ==
  ASSUME NEW n \in Nat, NEW f, NEW Z, <<0, f[{}]>> \in Z,
         \A i \in 0..(n - 1) : <<i, f[1..i]>> \in Z => <<i + 1, f[1..(i + 1)]>> \in Z
  PROVE  <<n, f[1..n]>> \in Z
<1> DEFINE G == {i \in 0..n : \A j \in 0..i : <<j, f[1..j]>> \in Z}
<1>1. G \subseteq Int /\ IsFiniteSet(G) /\ 0 \in G
  <2>1. IsFiniteSet(0..n)
    <3>1. 0 \in Int /\ n \in Int
      OBVIOUS
    <3> HIDE DEF G
    <3> QED BY <3>1, FS_Interval
  <2>2. IsFiniteSet(G)
    <3>1. G \subseteq 0..n
      OBVIOUS
    <3> HIDE DEF G
    <3> QED BY <2>1, <3>1, FS_Subset
  <2>3. 1..0 = {} /\ \A j \in 0..0 : j = 0
    OBVIOUS
  <2>4. \A j \in 0..0 : <<j, f[1..j]>> \in Z
    BY <2>3
  <2> QED BY <2>2, <2>4
<1>2. Max(G) \in G /\ \A y \in G : Max(G) >= y
  <2> HIDE DEF G
  <2> QED BY <1>1, MaxIs
<1> DEFINE m == Max(G)
<1> HIDE DEF m
<1>3. m \in 0..n /\ (\A j \in 0..m : <<j, f[1..j]>> \in Z) /\ \A y \in G : m >= y
  BY <1>2 DEF m
<1>4. m = n
  <2> SUFFICES ASSUME m < n PROVE FALSE
    BY <1>3
  <2>1. m \in 0..(n - 1) /\ m \in 0..m /\ m + 1 \in 0..n
    BY <1>3
  <2>2. <<m + 1, f[1..(m + 1)]>> \in Z
    <3> HIDE DEF G
    <3> QED BY <1>3, <2>1
  <2>3. \A j \in 0..(m + 1) : <<j, f[1..j]>> \in Z
    <3>1. \A j \in 0..(m + 1) : j \in 0..m \/ j = m + 1
      BY <2>1
    <3> HIDE DEF G
    <3> QED BY <1>3, <2>2, <3>1
  <2>4. m + 1 \in G
    BY <2>1, <2>3
  <2>5. ~(m >= m + 1)
    BY <2>1
  <2> HIDE DEF G
  <2> QED BY <1>3, <2>4, <2>5
<1>5. n \in 0..n
  OBVIOUS
<1> QED BY <1>3, <1>4, <1>5

-----------------------------------------------------------------------------
(* What edges lead to.                                                     *)

ClosedUnder(edges, C) == \A l \in edges : l[1] \in C => l[2] \in C

\* Reach is the least set that holds the start and is closed under the edges.
LEMMA ReachIs ==
  ASSUME NEW edges, NEW start, NEW X, IsFiniteSet(X), start \subseteq X,
         EndsOf(edges) \subseteq X
  PROVE  /\ start \subseteq Reach(edges, start) /\ Reach(edges, start) \subseteq X
         /\ ClosedUnder(edges, Reach(edges, start))
         /\ \A C : start \subseteq C /\ ClosedUnder(edges, C) => Reach(edges, start) \subseteq C
<1> DEFINE U == start \cup EndsOf(edges)
           On(S) == S \cup {l[2] : l \in {x \in edges : x[1] \in S}}
           Q(f) == f = [S \in SUBSET U |-> IF On(S) = S THEN S ELSE f[On(S)]]
           Smallest(S) == {n \in U : \A C \in SUBSET U : S \subseteq C /\ ClosedUnder(edges, C) => n \in C}
           h == [S \in SUBSET U |-> Smallest(S)]
           f == CHOOSE g : Q(g)
<1>1. IsFiniteSet(U)
  <2>1. U \subseteq X
    OBVIOUS
  <2> HIDE DEF U
  <2> QED BY <2>1, FS_Subset
<1>2. Reach(edges, start) = f[start]
  BY DEF Reach
<1>3. \A l \in edges : l[1] \in U /\ l[2] \in U
  BY DEF EndsOf
<1> HIDE DEF U
<1>4. ASSUME NEW S \in SUBSET U
      PROVE  /\ On(S) \in SUBSET U /\ S \subseteq On(S)
             /\ On(S) = S => ClosedUnder(edges, S)
             /\ \A C : ClosedUnder(edges, C) /\ S \subseteq C => On(S) \subseteq C
  BY <1>3 DEF ClosedUnder
<1>5. \A S \in SUBSET U : Smallest(S) \in SUBSET U /\ S \subseteq Smallest(S)
  OBVIOUS
<1>6. ASSUME NEW S \in SUBSET U PROVE Smallest(S) = IF On(S) = S THEN S ELSE Smallest(On(S))
  <2>1. CASE On(S) = S
    BY <1>4, <1>5, <2>1
  <2>2. CASE On(S) # S
    <3>1. \A C : ClosedUnder(edges, C) => (S \subseteq C <=> On(S) \subseteq C)
      BY <1>4
    <3> HIDE DEF On
    <3> QED BY <2>2, <3>1
  <2> QED BY <2>1, <2>2
<1> HIDE DEF Smallest
<1>7. \A S \in SUBSET U : h[S] = IF On(S) = S THEN S ELSE h[On(S)]
  BY <1>4, <1>6
<1>8. Q(h)
  <2>1. h = [S \in SUBSET U |-> h[S]]
    OBVIOUS
  <2> HIDE DEF h
  <2> DEFINE R(S) == IF On(S) = S THEN S ELSE h[On(S)]
  <2>2. \A S \in SUBSET U : h[S] = R(S)
    BY <1>7
  <2> HIDE DEF On
  <2>3. h = [S \in SUBSET U |-> R(S)]
    BY <2>1, <2>2, Zenon
  <2> QED BY <2>3
<1>9. Q(f)
  <2> HIDE DEF Q, h
  <2> QED BY <1>8
<1> HIDE DEF f
<1>10. \A S \in SUBSET U : f[S] = IF On(S) = S THEN S ELSE f[On(S)]
  <2> HIDE DEF On, h
  <2> QED BY <1>9, Zenon
<1> HIDE DEF Q, h
<1> DEFINE Rest(S) == U \ S
           Bad == {V \in SUBSET U : f[U \ V] # Smallest(U \ V)}
<1>11. ASSUME Bad # {} PROVE FALSE
  <2>1. Bad \subseteq SUBSET U
    OBVIOUS
  <2>2. PICK V \in Bad : \A W \in Bad : W \subseteq V => W = V
    <3> HIDE DEF Bad
    <3> QED BY <1>1, <1>11, <2>1, MinimalSubset
  <2> DEFINE S == U \ V
  <2>3. S \in SUBSET U /\ f[S] # Smallest(S)
    OBVIOUS
  <2> HIDE DEF S
  <2>4. On(S) # S /\ f[S] = f[On(S)] /\ Smallest(S) = Smallest(On(S))
    <3> HIDE DEF On
    <3> QED BY <1>6, <1>10, <2>3
  <2>5. On(S) \in SUBSET U /\ S \subseteq On(S)
    BY <1>4, <2>3
  <2> HIDE DEF On
  <2> DEFINE W == U \ On(S)
  <2>6. U \ W = On(S) /\ W \subseteq V /\ W # V
    <3>1. V = U \ S
      BY DEF S
    <3> QED BY <2>3, <2>4, <2>5, <3>1
  <2>7. W \in Bad
    BY <2>3, <2>4, <2>6
  <2> HIDE DEF W, Bad
  <2> QED BY <2>2, <2>6, <2>7
<1>12. f[start] = Smallest(start)
  <2>1. start \in SUBSET U /\ U \ (U \ start) = start
    BY DEF U
  <2>2. U \ start \notin Bad /\ U \ start \in SUBSET U
    BY <1>11
  <2> QED BY <2>1, <2>2
<1>13. start \in SUBSET U /\ U \subseteq X
  BY DEF U
<1>14. ASSUME NEW C, start \subseteq C, ClosedUnder(edges, C) PROVE Smallest(start) \subseteq C
  <2>1. ClosedUnder(edges, C \cap U) /\ start \subseteq C \cap U /\ C \cap U \in SUBSET U
    BY <1>3, <1>13, <1>14 DEF ClosedUnder
  <2> QED BY <2>1 DEF Smallest
<1>15. ClosedUnder(edges, Smallest(start))
  BY <1>3 DEF ClosedUnder, Smallest
<1> QED BY <1>2, <1>5, <1>12, <1>13, <1>14, <1>15

-----------------------------------------------------------------------------
(* Routes.                                                                 *)

Heard == Hops \cup {Silent}

NoPairs(way) == \A i \in 1..Len(way) - 1 : ~(way[i] = Silent /\ way[i + 1] = Silent)

\* Clean is what the fold reaches over all hops.
LEMMA Sweeps ==
  ASSUME NEW hops \in Seq(Heard)
  PROVE  \E f : /\ f[{}] = <<>>
                /\ \A i \in 0..(Len(hops) - 1) : f[1..(i + 1)] = Collapsed(f[1..i], hops[i + 1])
                /\ FoldLeft(Collapsed, <<>>, hops) = f[1..Len(hops)]
<1> DEFINE n == Len(hops)
           S == DOMAIN hops
           A == Seq(Heard)
           P(f) == f = [T \in SUBSET S |->
                          IF T = {} THEN <<>> ELSE Collapsed(f[T \ {Max(T)}], hops[Max(T)])]
           g == [p \in A \X Heard |-> Collapsed(p[1], p[2])]
<1>1. n \in Nat /\ S = 1..n /\ hops \in [1..n -> Heard]
  OBVIOUS
<1>2. FoldLeft(Collapsed, <<>>, hops) = (CHOOSE f : P(f))[S]
  BY DEF FoldLeft, MapThenFoldSet
<1>3. <<>> \in A
  OBVIOUS
<1>4. ASSUME NEW p \in A, NEW hop \in Heard PROVE Collapsed(p, hop) \in A
  BY DEF Collapsed
<1> HIDE DEF A
<1>5. g \in [A \X Heard -> A]
  BY <1>4
<1>6. \E f : P(f)
  <2>1. PICK f \in [SUBSET (1..n) -> A] : Folds(f, 1..n, <<>>, hops, g)
    <3> HIDE DEF g, n
    <3> QED BY <1>1, <1>3, <1>5, FoldExists
  <2>2. ASSUME NEW T \in SUBSET S
        PROVE  f[T] = IF T = {} THEN <<>> ELSE Collapsed(f[T \ {Max(T)}], hops[Max(T)])
    <3>1. CASE T = {}
      BY <1>1, <2>1, <3>1 DEF Folds
    <3>2. CASE T # {}
      <4> DEFINE x == Max(T)
                 p == f[T \ {x}]
      <4>1. f[T] = g[<<p, hops[x]>>]
        <5> HIDE DEF g, n, S
        <5> QED BY <1>1, <2>1, <3>2 DEF Folds
      <4>2. x \in T
        <5>1. T \subseteq Int /\ IsFiniteSet(1..n)
          <6>1. 1 \in Int /\ n \in Int
            BY <1>1
          <6> HIDE DEF n
          <6> QED BY <1>1, <6>1, FS_Interval
        <5>2. IsFiniteSet(T)
          <6> HIDE DEF n, S
          <6> QED BY <1>1, <5>1, FS_Subset
        <5> QED BY <3>2, <5>1, <5>2, MaxIs
      <4> HIDE DEF x
      <4>3. hops[x] \in Heard /\ p \in A
        <5> HIDE DEF n
        <5>1. x \in 1..n /\ T \ {x} \in SUBSET (1..n)
          BY <1>1, <4>2
        <5> HIDE DEF S
        <5> QED BY <1>1, <2>1, <5>1
      <4> HIDE DEF p
      <4>4. g[<<p, hops[x]>>] = Collapsed(p, hops[x])
        BY <4>3
      <4>5. f[T] = Collapsed(p, hops[x])
        BY <4>1, <4>4
      <4> QED BY <3>2, <4>5 DEF p, x
    <3> QED BY <3>1, <3>2
  <2> HIDE DEF S, g, n
  <2> DEFINE R(T) == IF T = {} THEN <<>> ELSE Collapsed(f[T \ {Max(T)}], hops[Max(T)])
  <2>3. \A T \in SUBSET S : f[T] = R(T)
    BY <2>2
  <2>4. f = [T \in SUBSET S |-> f[T]]
    BY <1>1, <2>1
  <2>5. f = [T \in SUBSET S |-> R(T)]
    BY <2>3, <2>4, Zenon
  <2>6. P(f)
    BY <2>5
  <2> HIDE DEF P
  <2> QED BY <2>6
<1> DEFINE f == CHOOSE h : P(h)
<1>7. P(f)
  <2> HIDE DEF P
  <2> QED BY <1>6
<1> HIDE DEF f
<1>8. f[{}] = <<>>
  BY <1>7
<1>9. ASSUME NEW i \in 0..(n - 1) PROVE f[1..(i + 1)] = Collapsed(f[1..i], hops[i + 1])
  <2>1. i \in Nat /\ i + 1 \in 1..n /\ 1..(i + 1) \in SUBSET (1..n)
    <3>1. n \in Nat
      BY <1>1
    <3> HIDE DEF n
    <3> QED BY <3>1
  <2>2. f[1..(i + 1)] = Collapsed(f[1..(i + 1) \ {Max(1..(i + 1))}], hops[Max(1..(i + 1))])
    <3>1. 1..(i + 1) # {}
      BY <2>1, UpTo
    <3> HIDE DEF n
    <3> QED BY <1>1, <1>7, <2>1, <3>1
  <2>3. Max(1..(i + 1)) = i + 1 /\ 1..(i + 1) \ {i + 1} = 1..i
    BY <2>1, UpTo
  <2> QED BY <2>2, <2>3
<1>10. FoldLeft(Collapsed, <<>>, hops) = f[1..n]
  BY <1>1, <1>2 DEF f
<1> HIDE DEF P
<1> QED BY <1>8, <1>9, <1>10

\* One more hop.
LEMMA OneMoreHop ==
  ASSUME NEW way \in Seq(Heard), NEW hop \in Heard
  PROVE  /\ Collapsed(way, hop) \in Seq(Heard)
         /\ NoPairs(way) => NoPairs(Collapsed(way, hop))
<1> DEFINE w == Append(way, hop)
<1>1. CASE hop = Silent /\ EndsSilent(way)
  BY <1>1 DEF Collapsed
<1>2. CASE ~(hop = Silent /\ EndsSilent(way))
  <2>1. Collapsed(way, hop) = w
    BY <1>2 DEF Collapsed
  <2>2. w \in Seq(Heard) /\ Len(w) = Len(way) + 1 /\ Len(way) \in Nat /\ w[Len(way) + 1] = hop
        /\ \A j \in 1..Len(way) : w[j] = way[j]
    OBVIOUS
  <2>3. ASSUME NoPairs(way), NEW i \in 1..Len(w) - 1, w[i] = Silent, w[i + 1] = Silent
        PROVE  FALSE
    <3>1. i \in 1..Len(way)
      BY <2>2
    <3>2. CASE i = Len(way)
      BY <1>2, <2>2, <2>3, <3>1, <3>2 DEF EndsSilent, Last
    <3>3. CASE i # Len(way)
      <4>1. i \in 1..Len(way) - 1 /\ i + 1 \in 1..Len(way)
        BY <2>2, <3>1, <3>3
      <4> HIDE DEF w
      <4> QED BY <2>2, <2>3, <3>1, <4>1 DEF NoPairs
    <3> QED BY <3>2, <3>3
  <2> HIDE DEF w
  <2> QED BY <2>1, <2>2, <2>3 DEF NoPairs
<1> QED BY <1>1, <1>2

\* A cleaned route has no silent hop at its end, and never two in a row.
LEMMA CleanIs ==
  ASSUME NEW hops \in Seq(Heard)
  PROVE  /\ Clean(hops) \in Seq(Heard) /\ NoPairs(Clean(hops)) /\ ~EndsSilent(Clean(hops))
<1> DEFINE n == Len(hops)
           A == {w \in Seq(Heard) : NoPairs(w)}
           Z == Nat \X A
           way == FoldLeft(Collapsed, <<>>, hops)
<1>1. PICK f : /\ f[{}] = <<>>
               /\ \A i \in 0..(n - 1) : f[1..(i + 1)] = Collapsed(f[1..i], hops[i + 1])
               /\ way = f[1..n]
  BY Sweeps
<1>2. n \in Nat /\ \A i \in 0..(n - 1) : i + 1 \in 1..n /\ i \in Nat /\ i + 1 \in Nat
  OBVIOUS
<1>3. <<0, f[{}]>> \in Z
  <2>1. <<>> \in Seq(Heard) /\ Len(<<>>) = 0 /\ 1..0 - 1 = {}
    OBVIOUS
  <2>2. NoPairs(<<>>)
    <3> DEFINE w == <<>>
    <3>1. Len(w) = 0
      OBVIOUS
    <3> HIDE DEF w
    <3>2. NoPairs(w)
      BY <3>1 DEF NoPairs
    <3> QED BY <3>2 DEF w
  <2>3. f[{}] = <<>>
    BY <1>1
  <2>4. <<>> \in A
    BY <2>1, <2>2
  <2> HIDE DEF A
  <2> QED BY <2>3, <2>4
<1>4. ASSUME NEW i \in 0..(n - 1), <<i, f[1..i]>> \in Z PROVE <<i + 1, f[1..(i + 1)]>> \in Z
  <2>1. f[1..i] \in Seq(Heard) /\ NoPairs(f[1..i])
    BY <1>4
  <2>2. hops[i + 1] \in Heard
    BY <1>2
  <2>3. Collapsed(f[1..i], hops[i + 1]) \in Seq(Heard) /\ NoPairs(Collapsed(f[1..i], hops[i + 1]))
    BY <2>1, <2>2, OneMoreHop
  <2> HIDE DEF n, way
  <2> QED BY <1>1, <1>2, <2>3
<1>5. <<n, f[1..n]>> \in Z
  <2> HIDE DEF Z, n, way
  <2> QED BY <1>2, <1>3, <1>4, FoldReaches
<1>6. way \in Seq(Heard) /\ NoPairs(way)
  BY <1>1, <1>5
<1> HIDE DEF way
<1>7. Clean(hops) = IF EndsSilent(way) THEN Front(way) ELSE way
  BY DEF Clean, way
<1>8. CASE EndsSilent(way)
  <2> DEFINE m == Len(way) - 1
             w == SubSeq(way, 1, m)
  <2>1. Len(way) \in Nat /\ Len(way) > 0 /\ way[Len(way)] = Silent
    BY <1>6, <1>8, EmptySeq DEF EndsSilent, Last
  <2>2. m \in Nat /\ m <= Len(way) /\ m + 1 = Len(way)
    BY <2>1
  <2>3. w \in Seq(Heard) /\ Len(w) = m /\ \A j \in 1..m : w[j] = way[j]
    <3> HIDE DEF m
    <3>1. 1..m \subseteq 1..Len(way)
      BY <2>1, <2>2
    <3> QED BY <1>6, <2>1, <2>2, <3>1, SubSeqProperties
  <2> HIDE DEF m, w
  <2>4. NoPairs(w)
    <3> SUFFICES ASSUME NEW i \in 1..m - 1, w[i] = Silent, w[i + 1] = Silent PROVE FALSE
      BY <2>3 DEF NoPairs
    <3>1. i \in 1..m /\ i + 1 \in 1..m /\ i \in 1..Len(way) - 1
      BY <2>2
    <3> QED BY <1>6, <2>3, <3>1 DEF NoPairs
  <2>5. ~EndsSilent(w)
    <3> SUFFICES ASSUME m # 0, w[m] = Silent PROVE FALSE
      BY <2>3 DEF EndsSilent, Last
    <3>1. m \in 1..Len(way) - 1 /\ m \in 1..m
      BY <2>2
    <3> QED BY <1>6, <2>1, <2>2, <2>3, <3>1 DEF NoPairs
  <2>6. Clean(hops) = w
    BY <1>7, <1>8 DEF Front, m, w
  <2> QED BY <2>3, <2>4, <2>5, <2>6
<1>9. CASE ~EndsSilent(way)
  BY <1>6, <1>7, <1>9
<1> QED BY <1>8, <1>9

\* It is cleaned already.
LEMMA CleanTwice ==
  ASSUME NEW hops \in Seq(Heard), NoPairs(hops), ~EndsSilent(hops)
  PROVE  Clean(hops) = hops
<1> DEFINE n == Len(hops)
           Z == {<<i, SubSeq(hops, 1, i)>> : i \in 0..n}
           way == FoldLeft(Collapsed, <<>>, hops)
<1>1. PICK f : /\ f[{}] = <<>>
               /\ \A i \in 0..(n - 1) : f[1..(i + 1)] = Collapsed(f[1..i], hops[i + 1])
               /\ way = f[1..n]
  BY Sweeps
<1>2. n \in Nat
  OBVIOUS
<1>3. <<0, f[{}]>> \in Z
  <2>1. SubSeq(hops, 1, 0) = <<>>
    OBVIOUS
  <2>2. 0 \in 0..n
    BY <1>2
  <2> QED BY <1>1, <2>1, <2>2
<1>4. ASSUME NEW i \in 0..(n - 1), <<i, f[1..i]>> \in Z PROVE <<i + 1, f[1..(i + 1)]>> \in Z
  <2> DEFINE w == SubSeq(hops, 1, i)
             v == SubSeq(hops, 1, i + 1)
  <2>1. f[1..i] = w
    BY <1>4
  <2>2. i \in Nat /\ i <= n /\ i + 1 \in 1..n /\ i + 1 \in 0..n /\ hops[i + 1] \in Heard
    BY <1>2
  <2>3. w \in Seq(Heard) /\ Len(w) = i /\ \A j \in 1..i : w[j] = hops[j]
    <3>1. \A j \in 1..i : j \in 1..n
      BY <2>2
    <3> QED BY <2>2, <3>1, SubSeqProperties
  <2>4. v = Append(w, hops[i + 1])
    OBVIOUS
  <2> HIDE DEF w, v
  <2>5. ~(hops[i + 1] = Silent /\ EndsSilent(w))
    <3> SUFFICES ASSUME hops[i + 1] = Silent, w # <<>>, w[i] = Silent PROVE FALSE
      BY <2>3 DEF EndsSilent, Last
    <3>1. i # 0
      BY <2>3
    <3>2. i \in 1..n - 1 /\ i \in 1..i
      BY <1>2, <2>2, <3>1
    <3> QED BY <2>3, <3>2 DEF NoPairs
  <2>6. Collapsed(w, hops[i + 1]) = v
    BY <2>4, <2>5 DEF Collapsed
  <2>7. f[1..(i + 1)] = v
    BY <1>1, <2>1, <2>6
  <2> QED BY <2>2, <2>7 DEF v
<1>5. <<n, f[1..n]>> \in Z
  <2> HIDE DEF Z, n, way
  <2> QED BY <1>2, <1>3, <1>4, FoldReaches
<1>6. way = SubSeq(hops, 1, n)
  BY <1>1, <1>5
<1>7. SubSeq(hops, 1, n) = hops
  OBVIOUS
<1>8. way = hops
  BY <1>6, <1>7
<1> QED BY <1>8 DEF Clean

-----------------------------------------------------------------------------
(* Finite sets.                                                            *)

\* A function of a finite set has finitely many values.
LEMMA ImageFinite ==
  ASSUME NEW S, IsFiniteSet(S), NEW f, DOMAIN f = S
  PROVE  IsFiniteSet({f[x] : x \in S})
<1> DEFINE T == {f[x] : x \in S}
           g == [x \in S |-> f[x]]
<1>1. g \in [S -> T] /\ \A y \in T : \E x \in S : g[x] = y
  OBVIOUS
<1> HIDE DEF T, g
<1>2. g \in Surjection(S, T)
  BY <1>1 DEF Surjection
<1> QED BY <1>2, FS_Surjection DEF T

\* The ends of finitely many edges.
LEMMA EndsFinite == ASSUME NEW edges, IsFiniteSet(edges) PROVE IsFiniteSet(EndsOf(edges))
<1> DEFINE f == [l \in edges |-> {l[1], l[2]}]
           T == {f[l] : l \in edges}
<1>1. DOMAIN f = edges
  OBVIOUS
<1>2. \A l \in edges : IsFiniteSet(f[l])
  <2> SUFFICES ASSUME NEW l \in edges PROVE IsFiniteSet({l[1], l[2]})
    OBVIOUS
  <2>1. IsFiniteSet({l[1]}) /\ IsFiniteSet({l[2]})
    BY FS_Singleton
  <2>2. {l[1], l[2]} = {l[1]} \cup {l[2]}
    OBVIOUS
  <2>3. IsFiniteSet({l[1]} \cup {l[2]})
    BY <2>1, FS_Union
  <2> QED BY <2>2, <2>3
<1>3. EndsOf(edges) = UNION T
  BY DEF EndsOf
<1> HIDE DEF f
<1>4. IsFiniteSet(T)
  BY <1>1, ImageFinite
<1>5. \A U \in T : IsFiniteSet(U)
  BY <1>2
<1> HIDE DEF T
<1> QED BY <1>3, <1>4, <1>5, FS_UNION

-----------------------------------------------------------------------------
(* Nodes and paths.                                                        *)

\* The kinds of nodes are different.
LEMMA NodesAre ==
  /\ \A e : IsMonitored(Monitored(e)) /\ Monitored(e)[1] = "monitored" /\ Monitored(e)[2] = e
            /\ Monitored(e) # Root /\ Monitored(e) # Hub
  /\ \A e, f : Monitored(e) = Monitored(f) => e = f
  /\ \A ip : Router(ip)[1] = "transit"
  /\ \A tag, e : Anonymous(tag, e)[1] = "anon"
  /\ Root[1] = "root" /\ Hub[1] = "subnet hub" /\ Root # Hub
BY DEF Monitored, IsMonitored, Router, Anonymous, Root, Hub

Passing(n) == n[1] \in {"transit", "anon"}

\* The nodes that may be between the root and an endpoint.
Between(n, known) == Passing(n) \/ \E f \in known : n = Monitored(f)

\* A way has a node for every hop.
LEMMA WayIs ==
  ASSUME NEW e, NEW known, NEW hops \in Seq(Heard)
  PROVE  /\ Len(Way(e, hops, known)) = Len(hops) /\ Len(hops) \in Nat
         /\ Way(e, hops, known) \in Seq({HopNode(e, hops, i, known) : i \in 1..Len(hops)})
         /\ \A i \in 1..Len(hops) : /\ Way(e, hops, known)[i] = HopNode(e, hops, i, known)
                                    /\ Between(Way(e, hops, known)[i], known)
<1> DEFINE n == Len(hops)
           T == {HopNode(e, hops, i, known) : i \in 1..n}
           w == [i \in 1..n |-> HopNode(e, hops, i, known)]
<1>1. n \in Nat /\ DOMAIN hops = 1..n
  OBVIOUS
<1>2. Way(e, hops, known) = w
  BY <1>1 DEF Way
<1>3. \A i \in 1..n : w[i] = HopNode(e, hops, i, known) /\ HopNode(e, hops, i, known) \in T
  OBVIOUS
<1>4. w \in [1..n -> T]
  OBVIOUS
<1> HIDE DEF n, w, T
<1>5. w \in Seq(T) /\ Len(w) = n
  BY <1>1, <1>4
<1>6. \A i \in 1..n : Between(HopNode(e, hops, i, known), known)
  <2> TAKE i \in 1..n
  <2> DEFINE h == HopNode(e, hops, i, known)
  <2>1. \/ \E f \in known : h = Monitored(f)
        \/ \E ip : h = Router(ip)
        \/ \E tag, f : h = Anonymous(tag, f)
    BY ONLY DEF HopNode, h
  <2> HIDE DEF h
  <2>2. (\E ip : h = Router(ip)) => Passing(h)
    BY ONLY NodesAre DEF Passing
  <2>3. (\E tag, f : h = Anonymous(tag, f)) => Passing(h)
    <3> SUFFICES ASSUME NEW tag, NEW f, h = Anonymous(tag, f)
                 PROVE  Passing(h)
      OBVIOUS
    <3>1. Anonymous(tag, f)[1] = "anon"
      BY ONLY NodesAre
    <3>2. h[1] = "anon"
      BY <3>1
    <3> QED BY ONLY <3>2 DEF Passing
  <2>4. Between(h, known)
    BY ONLY <2>1, <2>2, <2>3 DEF Between
  <2> QED BY ONLY <2>4 DEF h
<1> QED BY <1>1, <1>2, <1>3, <1>5, <1>6 DEF n, T

\* A path begins and ends where it should, and goes the way in between.
LEMMA PathIs ==
  ASSUME NEW T, NEW W \in Seq(T), NEW a, NEW b
  PROVE  LET P == <<a>> \o W \o <<b>>
         IN  /\ P \in Seq(T \cup {a, b}) /\ Len(P) = Len(W) + 2 /\ Len(W) \in Nat
             /\ P[1] = a /\ P[Len(W) + 2] = b
             /\ \A i \in 1..Len(W) : P[i + 1] = W[i]
             /\ \A j \in 1..Len(P) : j = 1 \/ j = Len(P) \/ (j - 1 \in 1..Len(W) /\ P[j] = W[j - 1])
<1> DEFINE U == T \cup {a, b}
           L == <<a>> \o W
           P == L \o <<b>>
           n == Len(W)
<1>1. <<a>> \in Seq(U) /\ <<b>> \in Seq(U) /\ W \in Seq(U) /\ n \in Nat
      /\ Len(<<a>>) = 1 /\ Len(<<b>>) = 1
  OBVIOUS
<1> HIDE DEF U, n
<1>2. /\ L \in Seq(U) /\ Len(L) = 1 + n
      /\ \A i \in 1..1 + n : L[i] = IF i <= 1 THEN a ELSE W[i - 1]
  <2>1. /\ L \in Seq(U) /\ Len(L) = Len(<<a>>) + Len(W)
        /\ \A i \in 1..Len(<<a>>) + Len(W) :
             L[i] = IF i <= Len(<<a>>) THEN <<a>>[i] ELSE W[i - Len(<<a>>)]
    BY <1>1, ConcatProperties
  <2> HIDE DEF L
  <2>2. \A i \in 1..1 + n : i <= 1 => i = 1
    BY <1>1
  <2> QED BY <1>1, <2>1, <2>2 DEF n
<1> HIDE DEF L
<1>3. /\ P \in Seq(U) /\ Len(P) = 1 + n + 1
      /\ \A i \in 1..1 + n + 1 : P[i] = IF i <= 1 + n THEN L[i] ELSE b
  <2>1. /\ P \in Seq(U) /\ Len(P) = Len(L) + Len(<<b>>)
        /\ \A i \in 1..Len(L) + Len(<<b>>) :
             P[i] = IF i <= Len(L) THEN L[i] ELSE <<b>>[i - Len(L)]
    BY <1>1, <1>2, ConcatProperties
  <2> HIDE DEF P
  <2>2. \A i \in 1..1 + n + 1 : ~(i <= 1 + n) => i - (1 + n) = 1
    BY <1>1
  <2> QED BY <1>1, <1>2, <2>1, <2>2
<1> HIDE DEF P
<1>4. P[1] = a /\ P[n + 2] = b
  <2>1. 1 \in 1..1 + n + 1 /\ n + 2 \in 1..1 + n + 1 /\ 1 \in 1..1 + n /\ 1 <= 1 + n /\ ~(n + 2 <= 1 + n)
    BY <1>1
  <2> QED BY <1>2, <1>3, <2>1
<1>5. \A i \in 1..n : P[i + 1] = W[i]
  <2> SUFFICES ASSUME NEW i \in 1..n PROVE P[i + 1] = W[i]
    OBVIOUS
  <2>1. i + 1 \in 1..1 + n + 1 /\ i + 1 \in 1..1 + n /\ i + 1 <= 1 + n /\ ~(i + 1 <= 1)
        /\ (i + 1) - 1 = i
    BY <1>1
  <2> QED BY <1>2, <1>3, <2>1
<1>6. \A j \in 1..Len(P) : j = 1 \/ j = Len(P) \/ (j - 1 \in 1..n /\ P[j] = W[j - 1])
  <2> SUFFICES ASSUME NEW j \in 1..Len(P), j # 1, j # Len(P)
               PROVE  j - 1 \in 1..n /\ P[j] = W[j - 1]
    OBVIOUS
  <2>1. j - 1 \in 1..n /\ (j - 1) + 1 = j
    BY <1>1, <1>3
  <2> QED BY <1>5, <2>1
<1> QED BY <1>1, <1>3, <1>4, <1>5, <1>6 DEF P, L, n, U

\* The links of a path are finitely many, and join what follows each other on it.
LEMMA LinksAre ==
  ASSUME NEW P, NEW n \in Nat, n = Len(P)
  PROVE  /\ IsFiniteSet(Links(P))
         /\ \A l \in Links(P) : \E i \in 1..n - 1 : l = <<P[i], P[i + 1]>> /\ l[1] # l[2]
         /\ \A i \in 1..n - 1 : P[i] = P[i + 1] \/ <<P[i], P[i + 1]>> \in Links(P)
<1> DEFINE S == 1..n - 1
           f == [i \in S |-> <<P[i], P[i + 1]>>]
           T == {f[i] : i \in S}
<1>1. Links(P) = {l \in T : l[1] # l[2]}
  BY DEF Links
<1>2. IsFiniteSet(S)
  <2>1. 1 \in Int /\ n - 1 \in Int
    OBVIOUS
  <2> HIDE DEF f, T
  <2> QED BY <2>1, FS_Interval
<1>3. DOMAIN f = S /\ \A i \in S : f[i] = <<P[i], P[i + 1]>>
  OBVIOUS
<1> HIDE DEF f
<1>4. IsFiniteSet(T)
  <2> HIDE DEF S
  <2> QED BY <1>2, <1>3, ImageFinite
<1>5. IsFiniteSet(Links(P))
  <2>1. Links(P) \subseteq T
    BY <1>1
  <2> HIDE DEF T
  <2> QED BY <1>4, <2>1, FS_Subset
<1> QED BY <1>1, <1>3, <1>5

\* Where edges may lead, and where from.
Place(n, known) == n = Root \/ n = Hub \/ Between(n, known)

Laid(edges, known) ==
  /\ IsFiniteSet(edges)
  /\ \A l \in edges : /\ l = <<l[1], l[2]>>
                      /\ Place(l[1], known) /\ Place(l[2], known) /\ l[2] # Root

LEMMA BetweenIs ==
  ASSUME NEW n, NEW known, Between(n, known)
  PROVE  n # Root /\ n # Hub
<1>1. Passing(n) => n # Root /\ n # Hub
  BY NodesAre DEF Passing
<1>2. (\E f \in known : n = Monitored(f)) => n # Root /\ n # Hub
  BY NodesAre
<1> QED BY <1>1, <1>2 DEF Between

LEMMA LaidEnds ==
  ASSUME NEW edges, NEW known, Laid(edges, known)
  PROVE  IsFiniteSet(EndsOf(edges)) /\ \A n \in EndsOf(edges) : Place(n, known)
<1>1. IsFiniteSet(EndsOf(edges))
  BY EndsFinite DEF Laid
<1> QED BY <1>1 DEF Laid, EndsOf

\* The links of the path of an endpoint, and of the way to one that is not in the graph.
LEMMA PathLinksAre ==
  ASSUME NEW e, NEW known, NEW hops \in Seq(Heard), e \in known
  PROVE  Laid(PathLinks(e, hops, known), known)
<1> DEFINE W == Way(e, hops, known)
           T == {HopNode(e, hops, i, known) : i \in 1..Len(hops)}
           P == <<Root>> \o W \o <<Monitored(e)>>
           n == Len(W) + 2
<1>1. /\ W \in Seq(T) /\ Len(W) = Len(hops) /\ Len(hops) \in Nat
      /\ \A i \in 1..Len(hops) : Between(W[i], known)
  BY WayIs
<1> HIDE DEF W, T
<1>2. /\ Len(P) = n /\ n \in Nat /\ P[1] = Root /\ P[n] = Monitored(e)
      /\ \A j \in 1..n : j = 1 \/ j = n \/ (j - 1 \in 1..Len(W) /\ P[j] = W[j - 1])
  BY <1>1, PathIs
<1>3. PathLinks(e, hops, known) = Links(P)
  BY DEF PathLinks, W
<1> HIDE DEF P, n
<1>4. \A j \in 1..n : Place(P[j], known) /\ (j # 1 => P[j] # Root)
  <2>1. \A i \in 1..Len(W) : W[i] # Root /\ Place(W[i], known)
    BY <1>1, BetweenIs DEF Place
  <2>2. Place(P[1], known) /\ Place(P[n], known) /\ P[n] # Root
    BY <1>2, NodesAre DEF Place, Between
  <2> QED BY <1>2, <2>1, <2>2
<1>5. IsFiniteSet(Links(P)) /\ \A l \in Links(P) : \E i \in 1..n - 1 : l = <<P[i], P[i + 1]>>
  BY <1>2, LinksAre
<1>6. \A i \in 1..n - 1 : i \in 1..n /\ i + 1 \in 1..n /\ i + 1 # 1
  BY <1>2
<1>7. \A l \in Links(P) : /\ l = <<l[1], l[2]>>
                          /\ Place(l[1], known) /\ Place(l[2], known) /\ l[2] # Root
  <2> SUFFICES ASSUME NEW l \in Links(P)
               PROVE  /\ l = <<l[1], l[2]>>
                      /\ Place(l[1], known) /\ Place(l[2], known) /\ l[2] # Root
    OBVIOUS
  <2>1. PICK i \in 1..n - 1 : l = <<P[i], P[i + 1]>>
    BY <1>5
  <2> QED BY <1>4, <1>6, <2>1
<1> QED BY <1>3, <1>5, <1>7 DEF Laid

LEMMA WayLinksAre ==
  ASSUME NEW e, NEW known, NEW hops \in Seq(Heard)
  PROVE  Laid(Links(<<Root>> \o Way(e, hops, known)), known)
<1> DEFINE W == Way(e, hops, known)
           T == {HopNode(e, hops, i, known) : i \in 1..Len(hops)}
           U == T \cup {Root}
           P == <<Root>> \o W
           n == Len(W) + 1
<1>1. /\ W \in Seq(T) /\ Len(W) = Len(hops) /\ Len(hops) \in Nat
      /\ \A i \in 1..Len(hops) : Between(W[i], known)
  BY WayIs
<1> HIDE DEF W, T
<1>2. <<Root>> \in Seq(U) /\ W \in Seq(U) /\ Len(<<Root>>) = 1 /\ <<Root>>[1] = Root
      /\ Len(W) \in Nat /\ n \in Nat
  BY <1>1
<1> HIDE DEF U
<1>3. /\ Len(P) = 1 + Len(W)
      /\ \A i \in 1..1 + Len(W) : P[i] = IF i <= 1 THEN <<Root>>[i] ELSE W[i - 1]
  <2>1. /\ Len(P) = Len(<<Root>>) + Len(W)
        /\ \A i \in 1..Len(<<Root>>) + Len(W) :
             P[i] = IF i <= Len(<<Root>>) THEN <<Root>>[i] ELSE W[i - Len(<<Root>>)]
    BY <1>2, ConcatProperties
  <2> HIDE DEF P
  <2> QED BY <1>2, <2>1
<1> HIDE DEF P
<1>4. \A j \in 1..n : Place(P[j], known) /\ (j # 1 => P[j] # Root)
  <2>1. \A i \in 1..Len(W) : W[i] # Root /\ Place(W[i], known)
    BY <1>1, BetweenIs DEF Place
  <2> SUFFICES ASSUME NEW j \in 1..n PROVE Place(P[j], known) /\ (j # 1 => P[j] # Root)
    OBVIOUS
  <2>2. CASE j = 1
    <3>1. P[j] = Root
      BY <1>2, <1>3, <2>2
    <3> QED BY <2>2, <3>1 DEF Place
  <2>3. CASE j # 1
    <3>1. j - 1 \in 1..Len(W) /\ ~(j <= 1) /\ j \in 1..1 + Len(W)
      BY <1>2, <2>3
    <3>2. P[j] = W[j - 1]
      BY <1>3, <3>1
    <3> QED BY <2>1, <3>1, <3>2
  <2> QED BY <2>2, <2>3
<1>5. IsFiniteSet(Links(P)) /\ \A l \in Links(P) : \E i \in 1..n - 1 : l = <<P[i], P[i + 1]>>
  <2>1. n = Len(P)
    BY <1>2, <1>3
  <2> HIDE DEF n
  <2> QED BY <1>2, <2>1, LinksAre
<1>6. \A i \in 1..n - 1 : i \in 1..n /\ i + 1 \in 1..n /\ i + 1 # 1
  BY <1>2
<1>7. \A l \in Links(P) : /\ l = <<l[1], l[2]>>
                          /\ Place(l[1], known) /\ Place(l[2], known) /\ l[2] # Root
  <2> SUFFICES ASSUME NEW l \in Links(P)
               PROVE  /\ l = <<l[1], l[2]>>
                      /\ Place(l[1], known) /\ Place(l[2], known) /\ l[2] # Root
    OBVIOUS
  <2>1. PICK i \in 1..n - 1 : l = <<P[i], P[i + 1]>>
    BY <1>5
  <2> QED BY <1>4, <1>6, <2>1
<1> QED BY <1>5, <1>7 DEF Laid, P, W

-----------------------------------------------------------------------------
(* The graph that is built.                                                *)

RowsOf == UNION {[read -> Rows] : read \in SUBSET Endpoints}

LEMMA RowsAre ==
  ASSUME NEW seen \in RowsOf
  PROVE  /\ DOMAIN seen \subseteq Endpoints /\ IsFiniteSet(DOMAIN seen)
         /\ \A e \in DOMAIN seen :
              seen[e] \in Rows /\ seen[e].shown \in BOOLEAN /\ seen[e].up \in BOOLEAN
<1>1. PICK read \in SUBSET Endpoints : seen \in [read -> Rows]
  BY DEF RowsOf
<1>2. IsFiniteSet(read)
  BY <1>1, TopologyAssumption, FS_Subset
<1>3. \A r \in Rows : r.shown \in BOOLEAN /\ r.up \in BOOLEAN
  BY DEF Rows
<1> QED BY <1>1, <1>2, <1>3

Routed(routes) == \A e \in DOMAIN routes : routes[e] \in Seq(Heard)

LEMMA StepLinksAre ==
  ASSUME NEW e, NEW seen, NEW routes, NEW known, e \in known, Routed(routes)
  PROVE  Laid(StepLinks(e, seen, routes, known), known)
<1>1. CASE seen[e].parent \in known
  <2> DEFINE l == <<Monitored(seen[e].parent), Monitored(e)>>
  <2>1. StepLinks(e, seen, routes, known) = {l}
    BY <1>1 DEF StepLinks
  <2>2. Place(l[1], known) /\ Place(l[2], known) /\ l[2] # Root /\ l = <<l[1], l[2]>>
    BY <1>1, NodesAre DEF Place, Between
  <2>3. IsFiniteSet({l})
    <3> HIDE DEF l
    <3> QED BY FS_Singleton
  <2> HIDE DEF l
  <2> QED BY <2>1, <2>2, <2>3 DEF Laid
<1>2. CASE seen[e].parent \notin known
  <2> DEFINE hops == IF e \in DOMAIN routes THEN Clean(routes[e]) ELSE <<>>
  <2>1. hops \in Seq(Heard)
    BY CleanIs DEF Routed
  <2>2. StepLinks(e, seen, routes, known) = PathLinks(e, hops, known)
    BY <1>2 DEF StepLinks
  <2> HIDE DEF hops
  <2> QED BY <2>1, <2>2, PathLinksAre
<1> QED BY <1>1, <1>2

\* All that is laid together.
LEMMA LaidUnion ==
  ASSUME NEW S, IsFiniteSet(S), NEW known, NEW f, DOMAIN f = S, \A e \in S : Laid(f[e], known)
  PROVE  Laid(UNION {f[e] : e \in S}, known)
<1> DEFINE T == {f[e] : e \in S}
<1>1. IsFiniteSet(T)
  BY ImageFinite
<1>2. \A U \in T : IsFiniteSet(U)
  BY DEF Laid
<1>3. IsFiniteSet(UNION T)
  <2> HIDE DEF T
  <2> QED BY <1>1, <1>2, FS_UNION
<1> QED BY <1>3 DEF Laid

LEMMA ClusterIs ==
  ASSUME NEW edges, NEW known, IsFiniteSet(known), Laid(edges, known)
  PROVE  Laid(Cluster(edges, known), known)
<1> DEFINE direct == {Monitored(e) : e \in known} \cap {l[2] : l \in {x \in edges : x[1] = Root}}
           all == {Monitored(e) : e \in known}
           f == [e \in known |-> Monitored(e)]
           A == edges \ ({Root} \X direct)
           B == {<<Root, Hub>>}
           C == {Hub} \X direct
<1>1. IsFiniteSet(direct)
  <2>1. IsFiniteSet({f[e] : e \in known})
    <3>1. DOMAIN f = known
      OBVIOUS
    <3> HIDE DEF f
    <3> QED BY <3>1, ImageFinite
  <2>2. direct \subseteq {f[e] : e \in known}
    OBVIOUS
  <2> HIDE DEF direct, f
  <2> QED BY <2>1, <2>2, FS_Subset
<1>2. \A n \in direct : Place(n, known) /\ n # Root
  BY NodesAre DEF Place, Between
<1>3. Cluster(edges, known) = IF Cardinality(direct) >= 2 THEN (A \cup B) \cup C ELSE edges
  BY DEF Cluster
<1> HIDE DEF direct
<1>4. IsFiniteSet(A) /\ IsFiniteSet(B) /\ IsFiniteSet(C)
  <2>1. IsFiniteSet(edges) /\ A \subseteq edges
    BY DEF Laid
  <2>2. IsFiniteSet({Hub}) /\ IsFiniteSet(B)
    BY FS_Singleton
  <2>3. IsFiniteSet(C)
    BY <1>1, <2>2, FS_Product
  <2>4. IsFiniteSet(A)
    <3> HIDE DEF A
    <3> QED BY <2>1, FS_Subset
  <2> QED BY <2>2, <2>3, <2>4
<1>5. \A l \in (A \cup B) \cup C : /\ l = <<l[1], l[2]>>
                                  /\ Place(l[1], known) /\ Place(l[2], known) /\ l[2] # Root
  <2>1. \A l \in A : /\ l = <<l[1], l[2]>>
                     /\ Place(l[1], known) /\ Place(l[2], known) /\ l[2] # Root
    BY DEF Laid
  <2>2. \A l \in B : /\ l = <<l[1], l[2]>>
                     /\ Place(l[1], known) /\ Place(l[2], known) /\ l[2] # Root
    <3>1. Place(Root, known) /\ Place(Hub, known) /\ Hub # Root
      BY NodesAre DEF Place
    <3> QED BY <3>1
  <2>3. \A l \in C : /\ l = <<l[1], l[2]>>
                     /\ Place(l[1], known) /\ Place(l[2], known) /\ l[2] # Root
    BY <1>2 DEF Place
  <2> HIDE DEF A, B, C
  <2> QED BY <2>1, <2>2, <2>3
<1> HIDE DEF A, B, C
<1>6. IsFiniteSet((A \cup B) \cup C)
  BY <1>4, FS_Union
<1> QED BY <1>3, <1>5, <1>6 DEF Laid

\* A router's state is worked out from what is below it: the rest stays.
LEMMA Propagated ==
  ASSUME NEW g, Shaped(g)
  PROVE  LET h == Propagate(g)
         IN  /\ Shaped(h) /\ Lit(h) /\ Known(h) = Known(g) /\ h.edges = g.edges
             /\ h.hidden = g.hidden /\ h.routes = g.routes /\ h.parent = g.parent
             /\ DOMAIN h.state = DOMAIN g.state
             /\ \A n \in DOMAIN g.state : n[1] # "transit" => h.state[n] = g.state[n]
<1> DEFINE dark(n) == /\ n[1] = "transit" /\ g.state[n] # "FAILURE_POINT"
                      /\ LET below == Downstream(g.edges, n)
                         IN  below # {} /\ \A m \in below : g.state[m] \in Down
           D == DOMAIN g.state
           s == [n \in D |-> IF dark(n) THEN "INFERRED_DOWN" ELSE g.state[n]]
           h == [g EXCEPT !.state = s]
<1>1. Propagate(g) = h
  BY DEF Propagate
<1>2. DOMAIN s = D /\ \A n \in D : s[n] = IF dark(n) THEN "INFERRED_DOWN" ELSE g.state[n]
  OBVIOUS
<1>3. \A n \in D : g.state[n] \in States
  BY DEF Shaped
<1>4. s \in [D -> States]
  BY <1>3 DEF States
<1> HIDE DEF s
<1>5. /\ DOMAIN h = Fields /\ h.state = s /\ h.edges = g.edges /\ h.hidden = g.hidden
      /\ h.routes = g.routes /\ h.parent = g.parent
  BY DEF Shaped, Fields
<1> HIDE DEF h
<1>6. Known(h) = Known(g)
  BY <1>2, <1>5 DEF Known
<1>7. Shaped(h)
  BY <1>2, <1>4, <1>5, <1>6 DEF Shaped
<1>8. ASSUME NEW n \in D PROVE \A m \in Downstream(g.edges, n) : IsMonitored(m) /\ m \in D
  <2> DEFINE edges == {l \in g.edges : ~IsMonitored(l[1])}
  <2>1. EndsOf(edges) \subseteq D /\ {n} \subseteq D /\ IsFiniteSet(D)
    BY DEF Shaped, EndsOf
  <2>2. Reach(edges, {n}) \subseteq D
    <3> HIDE DEF edges, D
    <3> QED BY <2>1, ReachIs
  <2> QED BY <2>2 DEF Downstream
<1>9. ASSUME NEW n \in D, n[1] = "transit", s[n] = "UP", Downstream(g.edges, n) # {}
      PROVE  \E m \in Downstream(g.edges, n) : s[m] \notin Down
  <2>1. ~dark(n) /\ g.state[n] = "UP"
    BY <1>2, <1>9
  <2>2. PICK m \in Downstream(g.edges, n) : g.state[m] \notin Down
    BY <1>9, <2>1
  <2>3. m \in D /\ ~dark(m)
    BY <1>8 DEF IsMonitored
  <2> HIDE DEF D
  <2> QED BY <1>2, <2>2, <2>3
<1>10. Lit(h)
  <2> HIDE DEF D
  <2> QED BY <1>2, <1>5, <1>9 DEF Lit, D
<1>11. \A n \in D : n[1] # "transit" => s[n] = g.state[n]
  BY <1>2
<1> HIDE DEF D
<1> QED BY <1>1, <1>2, <1>5, <1>6, <1>7, <1>10, <1>11 DEF D

Shown(seen) == {e \in DOMAIN seen : seen[e].shown}

StepsOf(seen, routes) ==
  UNION {StepLinks(e, seen, routes, Shown(seen)) : e \in Shown(seen)}


LEMMA EdgesAre ==
  ASSUME NEW seen \in RowsOf, NEW routes, Routed(routes)
  PROVE  Laid(Cluster(StepsOf(seen, routes), Shown(seen)), Shown(seen))
<1> DEFINE known == Shown(seen)
           f == [e \in known |-> StepLinks(e, seen, routes, known)]
<1>1. IsFiniteSet(known)
  <2>1. known \subseteq DOMAIN seen /\ IsFiniteSet(DOMAIN seen)
    BY RowsAre DEF Shown
  <2> HIDE DEF known
  <2> QED BY <2>1, FS_Subset
<1>2. DOMAIN f = known /\ \A e \in known : f[e] = StepLinks(e, seen, routes, known)
  OBVIOUS
<1> HIDE DEF f
<1>3. StepsOf(seen, routes) = UNION {f[e] : e \in known}
  BY <1>2 DEF StepsOf
<1> HIDE DEF known
<1>4. \A e \in known : Laid(f[e], known)
  BY <1>2, StepLinksAre
<1>5. Laid(UNION {f[e] : e \in known}, known)
  BY <1>1, <1>2, <1>4, LaidUnion
<1> HIDE DEF f
<1>6. Laid(Cluster(UNION {f[e] : e \in known}, known), known)
  BY <1>1, <1>5, ClusterIs
<1> QED BY <1>3, <1>6 DEF known

\* The endpoints among the nodes there are.
LEMMA KnownAre ==
  ASSUME NEW known \in SUBSET Endpoints, NEW nodes,
         {Monitored(e) : e \in known} \subseteq nodes,
         \A n \in nodes : Place(n, known)
  PROVE  {e \in Endpoints : Monitored(e) \in nodes} = known
<1>1. ASSUME NEW e \in Endpoints, Monitored(e) \in nodes PROVE e \in known
  <2>1. Place(Monitored(e), known)
    BY <1>1
  <2>2. ~Passing(Monitored(e))
    BY NodesAre DEF Passing
  <2>3. \E f \in known : Monitored(e) = Monitored(f)
    BY <2>1, <2>2, NodesAre DEF Place, Between
  <2> QED BY <2>3, NodesAre
<1> QED BY <1>1

LEMMA BuildIs ==
  ASSUME NEW seen \in RowsOf, NEW routes, Routed(routes), NEW failed, NEW built,
         built = Build(seen, routes, failed)
  PROVE  /\ Shaped(built) /\ Lit(built) /\ Known(built) = Shown(seen)
         /\ built.edges = Cluster(StepsOf(seen, routes), Shown(seen))
         /\ built.hidden = DOMAIN seen \ Shown(seen) /\ built.routes = routes
         /\ DOMAIN built.parent = Shown(seen)
         /\ \A e \in Shown(seen) : built.parent[e] = seen[e].parent
         /\ \A e \in Shown(seen) : built.state[Monitored(e)] = "UP" <=> seen[e].up
<1> DEFINE known == Shown(seen)
           edges == Cluster(StepsOf(seen, routes), known)
           nodes == {Root} \cup {Monitored(e) : e \in known} \cup EndsOf(edges)
           state == [n \in nodes |-> StateOf(n, seen, failed)]
           parent == [e \in known |-> seen[e].parent]
           g == [state |-> state, edges |-> edges, hidden |-> DOMAIN seen \ known,
                 routes |-> routes, parent |-> parent]
<1>1. built = Propagate(g)
  BY DEF Build, StepsOf, Shown
<1>2. Laid(edges, known)
  BY EdgesAre
<1>3. known \in SUBSET Endpoints /\ IsFiniteSet(known) /\ known \subseteq DOMAIN seen
  <2>1. known \subseteq DOMAIN seen /\ IsFiniteSet(DOMAIN seen) /\ DOMAIN seen \subseteq Endpoints
    BY RowsAre DEF Shown
  <2> HIDE DEF known
  <2> QED BY <2>1, FS_Subset
<1> HIDE DEF known, edges
<1>4. IsFiniteSet(nodes)
  <2> DEFINE f == [e \in known |-> Monitored(e)]
  <2>1. DOMAIN f = known /\ {Monitored(e) : e \in known} = {f[e] : e \in known}
    OBVIOUS
  <2> HIDE DEF f
  <2>2. IsFiniteSet({Monitored(e) : e \in known})
    BY <1>3, <2>1, ImageFinite
  <2>3. IsFiniteSet({Root}) /\ IsFiniteSet(EndsOf(edges))
    BY <1>2, FS_Singleton, LaidEnds
  <2>4. IsFiniteSet({Root} \cup {Monitored(e) : e \in known})
    BY <2>2, <2>3, FS_Union
  <2>5. IsFiniteSet(({Root} \cup {Monitored(e) : e \in known}) \cup EndsOf(edges))
    BY <2>3, <2>4, FS_Union
  <2> QED BY <2>5
<1>5. {e \in Endpoints : Monitored(e) \in nodes} = known
  <2>1. \A n \in nodes : Place(n, known)
    BY <1>2, LaidEnds DEF Place, Between
  <2>2. {Monitored(e) : e \in known} \subseteq nodes
    OBVIOUS
  <2> HIDE DEF nodes
  <2> QED BY <1>3, <2>1, <2>2, KnownAre
<1>6. \A n : StateOf(n, seen, failed) \in States
  BY DEF StateOf, States, Down, IsMonitored
<1>7. Root \in nodes /\ EndsOf(edges) \subseteq nodes /\ \A e \in known : Monitored(e) \in nodes
  OBVIOUS
<1> HIDE DEF nodes
<1>8. DOMAIN state = nodes /\ state \in [nodes -> States]
      /\ \A n \in nodes : state[n] = StateOf(n, seen, failed)
  BY <1>6
<1>9. DOMAIN parent = known /\ \A e \in known : parent[e] = seen[e].parent
  OBVIOUS
<1> HIDE DEF state, parent
<1>10. /\ DOMAIN g = Fields /\ g.state = state /\ g.edges = edges
       /\ g.hidden = DOMAIN seen \ known /\ g.routes = routes /\ g.parent = parent
  BY DEF Fields
<1> HIDE DEF g
<1>11. Known(g) = known
  BY <1>5, <1>8, <1>10 DEF Known
<1>12. Shaped(g)
  BY <1>4, <1>7, <1>8, <1>9, <1>10, <1>11 DEF Shaped, Routed, Heard
<1>13. \A e \in known : state[Monitored(e)] = "UP" <=> seen[e].up
  <2> SUFFICES ASSUME NEW e \in known PROVE state[Monitored(e)] = "UP" <=> seen[e].up
    OBVIOUS
  <2>1. state[Monitored(e)] = StateOf(Monitored(e), seen, failed)
    BY <1>7, <1>8
  <2>2. IsMonitored(Monitored(e)) /\ Monitored(e)[2] = e /\ Monitored(e)[1] # "transit"
    BY NodesAre
  <2>3. StateOf(Monitored(e), seen, failed) = "UP" <=> seen[e].up
    BY <2>2 DEF StateOf, IsMonitored
  <2> QED BY <2>1, <2>3
<1>14. \A e \in known : Monitored(e)[1] # "transit" /\ Monitored(e) \in DOMAIN g.state
  BY <1>7, <1>8, <1>10, NodesAre
<1>15. LET h == Propagate(g)
       IN  /\ Shaped(h) /\ Lit(h) /\ Known(h) = Known(g) /\ h.edges = g.edges
           /\ h.hidden = g.hidden /\ h.routes = g.routes /\ h.parent = g.parent
           /\ \A n \in DOMAIN g.state : n[1] # "transit" => h.state[n] = g.state[n]
  BY <1>12, Propagated
<1> QED BY <1>1, <1>10, <1>11, <1>13, <1>14, <1>9, <1>15 DEF edges, known

-----------------------------------------------------------------------------
(* The graph that is changed.                                              *)

LEMMA SetStatusIs ==
  ASSUME NEW g, Shaped(g), Lit(g), NEW e, NEW state \in States
  PROVE  LET h == SetStatus(g, e, state)
         IN  /\ Shaped(h) /\ Lit(h) /\ Known(h) = Known(g) /\ h.edges = g.edges
             /\ h.hidden = g.hidden /\ h.routes = g.routes /\ h.parent = g.parent
             /\ \A f \in Known(g) :
                  h.state[Monitored(f)] = IF f = e THEN state ELSE g.state[Monitored(f)]
<1> DEFINE D == DOMAIN g.state
           s == [g.state EXCEPT ![Monitored(e)] = state]
           k == [g EXCEPT !.state[Monitored(e)] = state]
<1>1. CASE e \in Known(g)
  <2>1. SetStatus(g, e, state) = Propagate(k)
    BY <1>1 DEF SetStatus
  <2>2. s \in [D -> States] /\ DOMAIN s = D
        /\ \A n \in D : s[n] = IF n = Monitored(e) THEN state ELSE g.state[n]
    BY DEF Shaped
  <2> HIDE DEF s
  <2>3. /\ DOMAIN k = Fields /\ k.state = s /\ k.edges = g.edges /\ k.hidden = g.hidden
        /\ k.routes = g.routes /\ k.parent = g.parent
    BY DEF Shaped, Fields, s
  <2> HIDE DEF k
  <2>4. Known(k) = Known(g)
    BY <2>2, <2>3 DEF Known
  <2>5. Shaped(k)
    BY <2>2, <2>3, <2>4 DEF Shaped
  <2>6. \A f \in Known(g) : /\ Monitored(f) \in D /\ Monitored(f)[1] # "transit"
                            /\ (Monitored(f) = Monitored(e) <=> f = e)
    BY NodesAre DEF Known
  <2>7. LET h == Propagate(k)
        IN  /\ Shaped(h) /\ Lit(h) /\ Known(h) = Known(k) /\ h.edges = k.edges
            /\ h.hidden = k.hidden /\ h.routes = k.routes /\ h.parent = k.parent
            /\ \A n \in DOMAIN k.state : n[1] # "transit" => h.state[n] = k.state[n]
    BY <2>5, Propagated
  <2> HIDE DEF D
  <2> QED BY <2>1, <2>2, <2>3, <2>4, <2>6, <2>7
<1>2. CASE e \notin Known(g)
  BY <1>2 DEF SetStatus
<1> QED BY <1>1, <1>2

\* The links that update_endpoint_path lays, and the nodes it leaves.
LaidFor(g, e, way) ==
  IF e \in Known(g) THEN PathLinks(e, way, Known(g)) ELSE Links(<<Root>> \o Way(e, way, Known(g)))

RoutesWith(g, e, way) ==
  [f \in {e} \cup DOMAIN g.routes |-> IF f = e THEN way ELSE g.routes[f]]

Ghost(n, routes, known) == n[1] \in {"transit", "anon"} /\ n \notin Active(routes, known)

NodesWith(g, e, way) ==
  {n \in DOMAIN g.state \cup EndsOf(LaidFor(g, e, way)) :
     ~Ghost(n, RoutesWith(g, e, way), Known(g))}

EdgesWith(g, e, way) ==
  {l \in {l \in g.edges : l[2] # Monitored(e)} \cup LaidFor(g, e, way) :
     l[1] \in NodesWith(g, e, way) /\ l[2] \in NodesWith(g, e, way)}

LEMMA LaidForIs ==
  ASSUME NEW g, NEW e, NEW way \in Seq(Heard)
  PROVE  Laid(LaidFor(g, e, way), Known(g))
BY PathLinksAre, WayLinksAre DEF LaidFor

LEMMA RestitchIs ==
  ASSUME NEW g, Shaped(g), NEW e, NEW hops \in Seq(Heard)
  PROVE  LET h == Restitch(g, e, hops)
             way == Clean(hops)
         IN  /\ Shaped(h) /\ Lit(h) /\ Known(h) = Known(g) /\ h.edges = EdgesWith(g, e, way)
             /\ h.hidden = g.hidden /\ h.routes = RoutesWith(g, e, way) /\ h.parent = g.parent
             /\ \A f \in Known(g) : h.state[Monitored(f)] = g.state[Monitored(f)]
<1> DEFINE known == Known(g)
           way == Clean(hops)
           laid == LaidFor(g, e, way)
           routes == RoutesWith(g, e, way)
           nodes == NodesWith(g, e, way)
           edges == EdgesWith(g, e, way)
           s == [n \in nodes |-> IF n \in DOMAIN g.state THEN g.state[n] ELSE "UP"]
           k == [g EXCEPT !.state = s, !.edges = edges, !.routes = routes]
<1>1. Restitch(g, e, hops) = Propagate(k)
  BY DEF Restitch, LaidFor, RoutesWith, NodesWith, EdgesWith, Ghost
<1>2. way \in Seq(Heard)
  BY CleanIs
<1> HIDE DEF way
<1>3. Laid(laid, known)
  BY <1>2, LaidForIs
<1>4. DOMAIN routes = {e} \cup DOMAIN g.routes
      /\ \A f \in DOMAIN routes : routes[f] = IF f = e THEN way ELSE g.routes[f]
  BY DEF RoutesWith
<1>5. \A f \in DOMAIN routes : routes[f] \in Seq(Heard)
  <2>1. \A f \in DOMAIN g.routes : g.routes[f] \in Seq(Heard)
    BY DEF Shaped, Heard
  <2> HIDE DEF routes
  <2> QED BY <1>2, <1>4, <2>1
<1>6. nodes \subseteq DOMAIN g.state \cup EndsOf(laid)
      /\ \A n \in DOMAIN g.state \cup EndsOf(laid) :
           n[1] \notin {"transit", "anon"} => n \in nodes
  BY DEF NodesWith, Ghost
<1>7. EndsOf(edges) \subseteq nodes
  BY DEF EndsOf, EdgesWith
<1> HIDE DEF nodes, edges, laid, routes
<1>8. IsFiniteSet(nodes)
  <2>1. IsFiniteSet(EndsOf(laid)) /\ IsFiniteSet(DOMAIN g.state)
    BY <1>3, LaidEnds DEF Shaped
  <2>2. IsFiniteSet(DOMAIN g.state \cup EndsOf(laid))
    BY <2>1, FS_Union
  <2> QED BY <1>6, <2>2, FS_Subset
<1>9. known \in SUBSET Endpoints /\ \A f \in known : Monitored(f) \in DOMAIN g.state
  BY DEF Known
<1>10. \A f \in Endpoints : Monitored(f) \in EndsOf(laid) => f \in known
  <2> SUFFICES ASSUME NEW f \in Endpoints, Monitored(f) \in EndsOf(laid) PROVE f \in known
    OBVIOUS
  <2>1. Place(Monitored(f), known)
    BY <1>3, LaidEnds
  <2>2. ~Passing(Monitored(f))
    BY NodesAre DEF Passing
  <2>3. \E x \in known : Monitored(f) = Monitored(x)
    BY <2>1, <2>2, NodesAre DEF Place, Between
  <2> QED BY <2>3, NodesAre
<1>11. {f \in Endpoints : Monitored(f) \in nodes} = known
  <2>1. \A f : Monitored(f)[1] \notin {"transit", "anon"}
    BY NodesAre
  <2>2. \A f \in Endpoints : f \in known <=> Monitored(f) \in DOMAIN g.state
    BY DEF Known
  <2> HIDE DEF known
  <2> QED BY <1>6, <1>9, <1>10, <2>1, <2>2
<1>12. \A n \in DOMAIN g.state : g.state[n] \in States
  BY DEF Shaped
<1>13. DOMAIN s = nodes /\ s \in [nodes -> States]
       /\ \A n \in nodes \cap DOMAIN g.state : s[n] = g.state[n]
  BY <1>12 DEF States
<1> HIDE DEF s
<1>14. /\ DOMAIN k = Fields /\ k.state = s /\ k.edges = edges /\ k.hidden = g.hidden
       /\ k.routes = routes /\ k.parent = g.parent
  BY DEF Shaped, Fields
<1> HIDE DEF k
<1>15. Known(k) = known
  BY <1>11, <1>13, <1>14 DEF Known
<1>16. Root \in nodes
  <2>1. Root \in DOMAIN g.state /\ Root[1] \notin {"transit", "anon"}
    BY NodesAre DEF Shaped
  <2> QED BY <1>6, <2>1
<1>17. Shaped(k)
  <2>1. known \cap g.hidden = {} /\ DOMAIN g.parent = known
    BY DEF Shaped
  <2> QED BY <1>5, <1>7, <1>8, <1>13, <1>14, <1>15, <1>16, <2>1 DEF Shaped, Heard
<1>18. LET h == Propagate(k)
       IN  /\ Shaped(h) /\ Lit(h) /\ Known(h) = Known(k) /\ h.edges = k.edges
           /\ h.hidden = k.hidden /\ h.routes = k.routes /\ h.parent = k.parent
           /\ \A n \in DOMAIN k.state : n[1] # "transit" => h.state[n] = k.state[n]
  BY <1>17, Propagated
<1>19. \A f \in known : /\ Monitored(f) \in nodes /\ Monitored(f)[1] # "transit"
                        /\ s[Monitored(f)] = g.state[Monitored(f)]
  <2>1. \A f \in known : Monitored(f)[1] \notin {"transit", "anon"}
    BY NodesAre
  <2> HIDE DEF known
  <2> QED BY <1>6, <1>9, <1>13, <2>1
<1> QED BY <1>1, <1>13, <1>14, <1>15, <1>18, <1>19 DEF edges, routes, way, known

-----------------------------------------------------------------------------
(* Rows and tasks.                                                         *)

LEMMA RowWith ==
  ASSUME NEW row \in Rows
  PROVE  /\ \A x \in {"ACTIVE", "DELETED"} : [row EXCEPT !.status = x] \in Rows
         /\ \A x \in BOOLEAN : [row EXCEPT !.shown = x] \in Rows
         /\ \A x \in BOOLEAN : [row EXCEPT !.event = x] \in Rows
         /\ \A x \in Endpoints \cup {None} : [row EXCEPT !.parent = x] \in Rows
         /\ \A x \in BOOLEAN : [row EXCEPT !.up = x] \in Rows
         /\ \A x \in {None} \cup Found : [row EXCEPT !.route = x] \in Rows
         /\ \A x \in Failures \cup {None} : [row EXCEPT !.incident = x] \in Rows
BY DEF Rows

LEMMA RowHas ==
  ASSUME NEW row \in Rows
  PROVE  /\ row.status \in {"ABSENT", "ACTIVE", "DELETED"} /\ row.shown \in BOOLEAN
         /\ row.parent \in Endpoints \cup {None} /\ row.up \in BOOLEAN
         /\ row.route \in {None} \cup Found /\ row.incident \in Failures \cup {None}
BY DEF Rows

\* A row once the engine has written of the endpoint first.
FirstOf(row, up) == [[row EXCEPT !.event = TRUE] EXCEPT !.up = up]

LEMMA FirstOfIs ==
  ASSUME NEW row \in Rows, NEW up \in BOOLEAN
  PROVE  LET then == FirstOf(row, up)
         IN  then \in Rows /\ then.up = up /\ then.parent = row.parent
<1> DEFINE one == [row EXCEPT !.event = TRUE]
<1>1. one \in Rows /\ one.parent = row.parent
  BY DEF Rows
<1> HIDE DEF one
<1>2. LET then == [one EXCEPT !.up = up]
      IN  then \in Rows /\ then.up = up /\ then.parent = one.parent
  BY <1>1 DEF Rows
<1>3. FirstOf(row, up) = [one EXCEPT !.up = up]
  BY DEF FirstOf, one
<1> QED BY <1>1, <1>2, <1>3

LEMMA FirstRowIs ==
  ASSUME db \in [Endpoints -> Rows], NEW e \in Endpoints, FirstRow(e)
  PROVE  /\ \E up \in BOOLEAN :
              /\ db' = [db EXCEPT ![e] = FirstOf(db[e], up)] /\ db'[e].up = up
              /\ IF up = db[e].up THEN UNCHANGED <<rebuild, astray>> ELSE Stray(e)
         /\ db' \in [Endpoints -> Rows] /\ \A f \in Endpoints : f # e => db'[f] = db[f]
         /\ \A f \in Endpoints : db'[f].parent = db[f].parent
         /\ UNCHANGED <<graph, coming, wire, queue, discovering, tasks>>
<1>1. PICK up \in BOOLEAN :
        /\ db' = [db EXCEPT ![e] = FirstOf(db[e], up)]
        /\ IF up = db[e].up THEN UNCHANGED <<rebuild, astray>> ELSE Stray(e)
  BY DEF FirstRow, FirstOf
<1>2. db[e] \in Rows
  OBVIOUS
<1> DEFINE then == FirstOf(db[e], up)
<1>3. then \in Rows /\ then.up = up /\ then.parent = db[e].parent
  BY <1>2, FirstOfIs
<1>4. db' = [db EXCEPT ![e] = then]
  BY <1>1
<1> HIDE DEF then
<1>5. db'[e] = then /\ db' \in [Endpoints -> Rows] /\ \A f \in Endpoints : f # e => db'[f] = db[f]
  BY <1>3, <1>4
<1>6. \A f \in Endpoints : db'[f].parent = db[f].parent
  BY <1>3, <1>5
<1>7. UNCHANGED <<graph, coming, wire, queue, discovering, tasks>>
  BY DEF FirstRow
<1> QED BY <1>1, <1>3, <1>5, <1>6, <1>7

\* No step makes a row anything else.
LEMMA RowsStep ==
  ASSUME db \in [Endpoints -> Rows], TasksInv, coming \in [Endpoints -> BOOLEAN \cup {None}],
         [GNext]_gvars
  PROVE  db' \in [Endpoints -> Rows]
<1>1. \A e \in Endpoints : db[e] \in Rows
  OBVIOUS
<1>2. ASSUME NEW e \in Endpoints, NEW row \in Rows, db' = [db EXCEPT ![e] = row]
      PROVE  db' \in [Endpoints -> Rows]
  BY <1>2
<1>3. CASE UNCHANGED db
  BY <1>3
<1>4. ASSUME NEW e \in Endpoints, Commit(e) PROVE db' \in [Endpoints -> Rows]
  <2>1. coming[e] \in BOOLEAN /\ db' = [db EXCEPT ![e] = [db[e] EXCEPT !.up = coming[e]]]
    BY <1>4 DEF Commit
  <2>2. [db[e] EXCEPT !.up = coming[e]] \in Rows
    BY <1>1, <2>1, RowWith
  <2> QED BY <1>2, <2>1, <2>2
<1>5. ASSUME NEW e \in Endpoints, Diagnose(e) PROVE db' \in [Endpoints -> Rows]
  <2>1. PICK hop \in Failures \cup {None} :
          db' = [db EXCEPT ![e] = [db[e] EXCEPT !.incident = hop]]
    <3>1. PICK hop \in IF db[e].up THEN {None} ELSE Failures : db' = [db EXCEPT ![e].incident = hop]
      BY <1>5 DEF Diagnose
    <3> QED BY <3>1
  <2>2. [db[e] EXCEPT !.incident = hop] \in Rows
    BY <1>1, RowWith
  <2> QED BY <1>2, <2>1, <2>2
<1>6. ASSUME NEW t \in Tasks, SetParent(t) PROVE db' \in [Endpoints -> Rows]
  <2>1. tasks[t].e \in Endpoints /\ tasks[t].arg \in Endpoints
    BY <1>6 DEF SetParent, TasksInv, Proper
  <2> DEFINE e == tasks[t].e
             arg == tasks[t].arg
  <2>2. UNCHANGED db \/ db' = [db EXCEPT ![e] = [db[e] EXCEPT !.parent = arg]]
    BY <1>6 DEF SetParent
  <2> HIDE DEF e, arg
  <2>3. e \in Endpoints /\ arg \in Endpoints
    BY <2>1 DEF e, arg
  <2>4. [db[e] EXCEPT !.parent = arg] \in Rows
    BY <1>1, <2>3, RowWith
  <2> QED BY <1>2, <1>3, <2>2, <2>3, <2>4
<1>7. ASSUME NEW t \in Tasks, Store(t) PROVE db' \in [Endpoints -> Rows]
  <2>1. tasks[t].e \in Endpoints /\ tasks[t].arg \in Found
    BY <1>7 DEF Store, TasksInv, Proper
  <2> DEFINE e == tasks[t].e
             arg == tasks[t].arg
  <2>2. db' = [db EXCEPT ![e] = [db[e] EXCEPT !.route = arg]]
    BY <1>7 DEF Store
  <2> HIDE DEF e, arg
  <2>3. e \in Endpoints /\ arg \in Found
    BY <2>1 DEF e, arg
  <2>4. [db[e] EXCEPT !.route = arg] \in Rows
    BY <1>1, <2>3, RowWith
  <2> QED BY <1>2, <2>2, <2>3, <2>4
<1>8. ASSUME NEW t \in Tasks, NEW e \in Endpoints, SetShown(t, e) PROVE db' \in [Endpoints -> Rows]
  <2>1. db' = [db EXCEPT ![e] = [db[e] EXCEPT !.shown = ~db[e].shown]]
    BY <1>8 DEF SetShown
  <2>2. [db[e] EXCEPT !.shown = ~db[e].shown] \in Rows
    BY <1>1, RowWith, RowHas
  <2> QED BY <1>2, <2>1, <2>2
<1>9. ASSUME NEW t \in Tasks, NEW e \in Endpoints, Delete(t, e) PROVE db' \in [Endpoints -> Rows]
  <2>1. db' = [db EXCEPT ![e] = [db[e] EXCEPT !.status = "DELETED"]]
    BY <1>9 DEF Delete
  <2>2. [db[e] EXCEPT !.status = "DELETED"] \in Rows
    BY <1>1, RowWith
  <2> QED BY <1>2, <2>1, <2>2
<1>10. ASSUME NEW t \in Tasks, NEW e \in Endpoints, NEW p \in Endpoints \cup {None}, Create(t, e, p)
       PROVE  db' \in [Endpoints -> Rows]
  <2> DEFINE row == [[[db[e] EXCEPT !.status = "ACTIVE"] EXCEPT !.shown = TRUE] EXCEPT !.parent = p]
  <2>1. db' = [db EXCEPT ![e] = row]
    BY <1>10 DEF Create
  <2>2. row \in Rows
    <3>1. [db[e] EXCEPT !.status = "ACTIVE"] \in Rows
      BY <1>1, RowWith
    <3>2. [[db[e] EXCEPT !.status = "ACTIVE"] EXCEPT !.shown = TRUE] \in Rows
      BY <3>1, RowWith
    <3> QED BY <3>2, RowWith
  <2> HIDE DEF row
  <2> QED BY <1>2, <2>1, <2>2
<1>11. CASE UNCHANGED gvars
  BY <1>3, <1>11 DEF gvars
<1>12. CASE GNext
  <2>1. \/ UNCHANGED db \/ \E e \in Endpoints : Commit(e) \/ FirstRow(e) \/ Diagnose(e)
        \/ \E t \in Tasks : SetParent(t) \/ Store(t)
        \/ \E t \in Tasks, e \in Endpoints : SetShown(t, e) \/ Delete(t, e)
        \/ \E t \in Tasks, e \in Endpoints : \E p \in Endpoints \cup {None} : Create(t, e, p)
    BY <1>12 DEF GNext, Announce, Rollback, Handle, Lose, Reads, Builds, Trace, StoreFails, LayPath,
                 AskRebuild, AskRefresh, CheckParent, EnqueueAll, Dequeue, Done, gvars
  <2>2. \A e \in Endpoints : FirstRow(e) => db' \in [Endpoints -> Rows]
    BY FirstRowIs
  <2> QED BY <1>3, <1>4, <1>5, <1>6, <1>7, <1>8, <1>9, <1>10, <2>1, <2>2
<1> QED BY <1>11, <1>12

GoodJobs == {job \in Jobs : Proper(job)}

\* What the tasks are given to do.
LEMMA JobsAre ==
  /\ Idle \in GoodJobs /\ Idle.at = "idle" /\ Idle.e = None
  /\ [Idle EXCEPT !.at = "rebuild"] \in GoodJobs /\ [Idle EXCEPT !.at = "rebuild"].at = "rebuild"
  /\ \A e \in Endpoints :
       LET job == [Idle EXCEPT !.at = "tracing", !.e = e]
       IN  job \in GoodJobs /\ job.at = "tracing"
BY DEF GoodJobs, Proper, Jobs, Places, Idle

LEMMA JobWith ==
  ASSUME NEW job \in GoodJobs
  PROVE  /\ \A at \in {"rebuild", "building"} :
              LET next == [job EXCEPT !.at = at]
              IN  /\ next \in GoodJobs /\ next.at = at /\ next.e = job.e
         /\ job.at = "traced" => LET next == [job EXCEPT !.at = job.then]
                                 IN  /\ next \in GoodJobs /\ next.at = job.then
                                     /\ next.e = job.e /\ next.at \in {"path", "rebuild"}
         /\ LET next == [job EXCEPT !.overtaken = TRUE]
            IN  /\ next \in GoodJobs /\ next.at = job.at /\ next.e = job.e /\ next.overtaken
                /\ next.then = job.then
<1>1. job \in Jobs /\ Proper(job)
  BY DEF GoodJobs
<1>2. \A at \in {"rebuild", "building"} :
        LET next == [job EXCEPT !.at = at]
        IN  next \in Jobs /\ next.at = at /\ next.e = job.e
  BY <1>1 DEF Jobs, Places
<1>3. job.at = "traced" => LET next == [job EXCEPT !.at = job.then]
                           IN  /\ next \in Jobs /\ next.at = job.then /\ next.arg = job.arg
                               /\ next.e = job.e /\ next.at \in {"path", "rebuild"}
  BY <1>1 DEF Jobs, Places, Proper
<1>4. LET next == [job EXCEPT !.overtaken = TRUE]
      IN  /\ next \in Jobs /\ next.at = job.at /\ next.e = job.e /\ next.overtaken
          /\ next.then = job.then /\ next.arg = job.arg
  BY <1>1 DEF Jobs
<1>5. \A at \in {"rebuild", "building"} : Proper([job EXCEPT !.at = at])
  BY <1>2 DEF Proper
<1>6. job.at = "traced" => Proper([job EXCEPT !.at = job.then])
  BY <1>1, <1>3 DEF Proper
<1>7. Proper([job EXCEPT !.overtaken = TRUE])
  BY <1>1, <1>4 DEF Proper
<1> QED BY <1>2, <1>3, <1>4, <1>5, <1>6, <1>7 DEF GoodJobs

LEMMA RebuildWith ==
  ASSUME NEW r \in Rebuilds, NEW C \in SUBSET Endpoints
  PROVE  /\ r # None /\ r.clean \in SUBSET Endpoints /\ r.dirty \in SUBSET Endpoints
         /\ LET s == [r EXCEPT !.clean = C]
            IN  s \in Rebuilds /\ s.by = r.by /\ s.clean = C /\ s.rows = r.rows
                /\ s.dirty = r.dirty /\ s.ok = r.ok
         /\ LET s == [r EXCEPT !.dirty = C]
            IN  s \in Rebuilds /\ s.by = r.by /\ s.dirty = C /\ s.rows = r.rows
                /\ s.clean = r.clean /\ s.ok = r.ok
<1>1. None \notin Rebuilds
  BY TopologyAssumption
<1> QED BY <1>1 DEF Rebuilds

LEMMA RebuildHas ==
  ASSUME NEW r \in Rebuilds
  PROVE  r.by \in Tasks /\ r.ok \in BOOLEAN /\ r.rows \in RowsOf
BY DEF Rebuilds, RowsOf

\* The lock is held on, or free.
SameHolder ==
  \/ UNCHANGED rebuild
  \/ rebuild # None /\ rebuild' # None /\ rebuild' \in Rebuilds /\ rebuild'.by = rebuild.by

LEMMA HolderSame ==
  ASSUME TasksInv, SameHolder, UNCHANGED tasks
  PROVE  TasksInv'
BY DEF TasksInv, SameHolder

LEMMA Strayed ==
  ASSUME TasksInv, NEW e, Stray(e)
  PROVE  /\ SameHolder /\ astray' = astray \cup {e} /\ (rebuild = None <=> rebuild' = None)
         /\ rebuild # None => /\ rebuild'.clean = rebuild.clean \ {e}
                              /\ rebuild'.rows = rebuild.rows /\ rebuild'.dirty = rebuild.dirty
                              /\ rebuild'.ok = rebuild.ok
<1>1. CASE rebuild = None
  BY <1>1 DEF Stray, SameHolder
<1>2. CASE rebuild # None
  <2>1. rebuild \in Rebuilds
    BY <1>2 DEF TasksInv
  <2>2. rebuild' = [rebuild EXCEPT !.clean = rebuild.clean \ {e}] /\ astray' = astray \cup {e}
    BY <1>2 DEF Stray
  <2>3. rebuild.clean \in SUBSET Endpoints
    BY <2>1, RebuildWith
  <2>4. rebuild.clean \ {e} \in SUBSET Endpoints
    BY <2>3
  <2>5. LET s == [rebuild EXCEPT !.clean = rebuild.clean \ {e}]
        IN  s \in Rebuilds /\ s.by = rebuild.by /\ s.clean = rebuild.clean \ {e}
            /\ s.rows = rebuild.rows /\ s.dirty = rebuild.dirty /\ s.ok = rebuild.ok /\ s # None
    BY <2>1, <2>4, RebuildWith
  <2> QED BY <1>2, <2>2, <2>5 DEF SameHolder
<1> QED BY <1>1, <1>2

\* What update_node_status does to the rebuild under way.
LEMMA SetsKeeps ==
  ASSUME TasksInv, NEW e \in Endpoints, NEW up, Sets(e, up)
  PROVE  /\ SameHolder /\ (rebuild = None <=> rebuild' = None)
         /\ rebuild # None => /\ e \in graph.hidden /\ rebuild'.dirty = rebuild.dirty \cup {e}
                              /\ rebuild'.rows = rebuild.rows /\ rebuild'.clean = rebuild.clean
                              /\ rebuild'.ok = rebuild.ok
<1>1. CASE rebuild = None
  BY <1>1 DEF Sets, SameHolder
<1>2. CASE rebuild # None
  <2>1. rebuild \in Rebuilds
    BY <1>2 DEF TasksInv
  <2>2. e \in graph.hidden /\ rebuild' = [rebuild EXCEPT !.dirty = rebuild.dirty \cup {e}]
    BY <1>2 DEF Sets
  <2>3. rebuild.dirty \in SUBSET Endpoints
    BY <2>1, RebuildWith
  <2>4. rebuild.dirty \cup {e} \in SUBSET Endpoints
    BY <2>3
  <2>5. LET s == [rebuild EXCEPT !.dirty = rebuild.dirty \cup {e}]
        IN  s \in Rebuilds /\ s.by = rebuild.by /\ s.dirty = rebuild.dirty \cup {e}
            /\ s.rows = rebuild.rows /\ s.clean = rebuild.clean /\ s.ok = rebuild.ok /\ s # None
    BY <2>1, <2>4, RebuildWith
  <2> QED BY <1>2, <2>2, <2>5 DEF SameHolder
<1> QED BY <1>1, <1>2

LEMMA PlainTask ==
  ASSUME TasksInv, NEW t \in Tasks, tasks[t].at # "building", NEW job \in GoodJobs,
         job.at # "building", tasks' = [tasks EXCEPT ![t] = job], UNCHANGED rebuild
  PROVE  TasksInv'
<1>1. \A u \in Tasks : tasks'[u] = IF u = t THEN job ELSE tasks[u]
  BY DEF TasksInv
<1>2. tasks' \in [Tasks -> {j \in Jobs : Proper(j)}]
  BY DEF TasksInv, GoodJobs
<1> QED BY <1>1, <1>2 DEF TasksInv

LinkingJob(e, p) == [Idle EXCEPT !.at = "linking", !.e = e, !.arg = p]

LEMMA LinkingIs ==
  ASSUME NEW e \in Endpoints, NEW p \in Endpoints
  PROVE  /\ LinkingJob(e, p) \in GoodJobs /\ LinkingJob(e, p).at = "linking"
         /\ LinkingJob(e, p).e = e /\ LinkingJob(e, p).arg = p
         /\ LinkingJob(e, p).overtaken = FALSE
BY DEF LinkingJob, GoodJobs, Proper, Jobs, Places, Idle

LEMMA FoundAre ==
  Found \subseteq Seq(Heard) /\ \A e \in Endpoints : Routes[e] \subseteq Found
BY TopologyAssumption DEF Found, Range, Heard

LEMMA TracedIs ==
  ASSUME db \in [Endpoints -> Rows], NEW t, NEW e \in Endpoints,
         NEW next \in {"path", "rebuild"}, Traced(t, e, next)
  PROVE  \E job \in GoodJobs : /\ job.at = "traced" /\ job.e = e /\ job.then = next
                               /\ tasks' = [tasks EXCEPT ![t] = job]
<1>1. PICK found \in Routes[e] : \E arg \in {found, db[e].route} :
        /\ tasks' = [tasks EXCEPT ![t] =
             [Idle EXCEPT !.at = "traced", !.e = e, !.arg = arg, !.then = next]]
        /\ arg = found \/ db[e].route # None
  BY DEF Traced, Task
<1>4. PICK arg \in {found, db[e].route} :
        /\ tasks' = [tasks EXCEPT ![t] =
             [Idle EXCEPT !.at = "traced", !.e = e, !.arg = arg, !.then = next]]
        /\ arg = found \/ db[e].route # None
  BY <1>1
<1>2. db[e].route \in {None} \cup Found
  BY RowHas
<1>3. arg \in Found
  BY <1>2, <1>4, FoundAre
<1> DEFINE job == [Idle EXCEPT !.at = "traced", !.e = e, !.arg = arg, !.then = next]
<1>5. job \in GoodJobs /\ job.at = "traced" /\ job.e = e /\ job.then = next
  BY <1>3 DEF GoodJobs, Proper, Jobs, Places, Idle
<1>6. tasks' = [tasks EXCEPT ![t] = job]
  BY <1>4
<1> HIDE DEF job
<1> QED BY <1>5, <1>6

\* A task that is told where to go next.
LEMMA TaskWas ==
  ASSUME TasksInv, NEW t \in Tasks
  PROVE  tasks[t] \in GoodJobs
BY DEF TasksInv, GoodJobs

LEMMA AfterwardsIs ==
  ASSUME TasksInv, NEW t \in Tasks, Afterwards(t, "rebuild")
  PROVE  \E job \in GoodJobs : job.at \in {"idle", "rebuild"} /\ tasks' = [tasks EXCEPT ![t] = job]
<1>1. tasks[t] \in GoodJobs
  BY TaskWas
<1>2. tasks' = [tasks EXCEPT ![t] = [tasks[t] EXCEPT !.at = "rebuild"]]
      \/ tasks' = [tasks EXCEPT ![t] = Idle]
  BY DEF Afterwards, Step, End
<1> QED BY <1>1, <1>2, JobsAre, JobWith

\* What the other changes of parents are overtaken by.
LEMMA OvertakingIs ==
  ASSUME TasksInv, NEW t \in Tasks, NEW job \in GoodJobs,
         tasks' = [Overtaking(t) EXCEPT ![t] = job]
  PROVE  /\ tasks' \in [Tasks -> GoodJobs] /\ tasks'[t] = job
         /\ \A u \in Tasks \ {t} :
              /\ tasks'[u].at = tasks[u].at /\ tasks'[u].e = tasks[u].e
              /\ tasks'[u].then = tasks[u].then
              /\ tasks[u].at # "linking" => tasks'[u] = tasks[u]
              /\ tasks[u].at = "linking" => tasks'[u].overtaken
<1> DEFINE f == [u \in Tasks |-> IF u # t /\ tasks[u].at = "linking"
                                   THEN [tasks[u] EXCEPT !.overtaken = TRUE] ELSE tasks[u]]
<1>1. tasks' = [f EXCEPT ![t] = job]
  BY DEF Overtaking
<1>2. DOMAIN f = Tasks /\ \A u \in Tasks : f[u] = IF u # t /\ tasks[u].at = "linking"
                                   THEN [tasks[u] EXCEPT !.overtaken = TRUE] ELSE tasks[u]
  OBVIOUS
<1> HIDE DEF f
<1>3. \A u \in Tasks : tasks[u] \in GoodJobs
  BY TaskWas
<1>4. \A u \in Tasks : f[u] \in GoodJobs
  <2> TAKE u \in Tasks
  <2>1. CASE u # t /\ tasks[u].at = "linking"
    <3>1. [tasks[u] EXCEPT !.overtaken = TRUE] \in GoodJobs
      BY <1>3, JobWith
    <3> QED BY ONLY <1>2, <2>1, <3>1
  <2>2. CASE ~(u # t /\ tasks[u].at = "linking")
    BY ONLY <1>2, <1>3, <2>2
  <2> QED BY ONLY <2>1, <2>2
<1>5. DOMAIN tasks' = Tasks /\ \A u \in Tasks : tasks'[u] = IF u = t THEN job ELSE f[u]
  BY <1>1, <1>2
<1>6. tasks' = [u \in Tasks |-> tasks'[u]]
  BY <1>1, <1>2
<1>7. tasks' \in [Tasks -> GoodJobs]
  BY <1>4, <1>5, <1>6
<1>8. \A u \in Tasks \ {t} :
        /\ tasks'[u].at = tasks[u].at /\ tasks'[u].e = tasks[u].e
        /\ tasks'[u].then = tasks[u].then
        /\ tasks[u].at # "linking" => tasks'[u] = tasks[u]
        /\ tasks[u].at = "linking" => tasks'[u].overtaken
  <2> SUFFICES ASSUME NEW u \in Tasks \ {t}
               PROVE  /\ tasks'[u].at = tasks[u].at /\ tasks'[u].e = tasks[u].e
                      /\ tasks'[u].then = tasks[u].then
                      /\ tasks[u].at # "linking" => tasks'[u] = tasks[u]
                      /\ tasks[u].at = "linking" => tasks'[u].overtaken
    OBVIOUS
  <2>1. tasks'[u] = f[u] /\ tasks[u] \in GoodJobs
    BY <1>3, <1>5
  <2>2. f[u] = IF tasks[u].at = "linking" THEN [tasks[u] EXCEPT !.overtaken = TRUE] ELSE tasks[u]
    BY <1>2
  <2>3. LET next == [tasks[u] EXCEPT !.overtaken = TRUE]
        IN  /\ next.at = tasks[u].at /\ next.e = tasks[u].e /\ next.overtaken
            /\ next.then = tasks[u].then
    BY <2>1, JobWith
  <2> QED BY <2>1, <2>2, <2>3
<1> QED BY <1>5, <1>7, <1>8

\* An event on the way is about an endpoint.
LEMMA EventIs ==
  ASSUME EventsInv, NEW c \in Channels, wire[c] # <<>>
  PROVE  /\ Head(wire[c]).e \in Endpoints /\ Head(wire[c]).up \in BOOLEAN
         /\ wire[c] \in Seq(Events)
         /\ Head(wire[c]) = wire[c][1] /\ Len(wire[c]) \in Nat /\ Len(wire[c]) > 0
<1> DEFINE E == Events
           w == wire[c]
<1>1. w \in Seq(E) /\ w # <<>>
  BY DEF EventsInv, WireOK
<1>2. \A v \in E : v.e \in Endpoints /\ v.up \in BOOLEAN
  BY DEF Events
<1> HIDE DEF E, w
<1>3. Head(w) \in E /\ Head(w) = w[1] /\ Len(w) \in Nat /\ Len(w) > 0
  BY <1>1, EmptySeq
<1> QED BY <1>1, <1>2, <1>3 DEF E, w

\* Every step leaves every task with what it can do.
LEMMA TasksStep ==
  ASSUME db \in [Endpoints -> Rows], TasksInv, QueueInv, EventsInv, [GNext]_gvars
  PROVE  TasksInv'
<1>1. CASE UNCHANGED tasks /\ UNCHANGED rebuild
  BY <1>1 DEF TasksInv
<1>2. ASSUME NEW e \in Endpoints, Rollback(e) PROVE TasksInv'
  <2>1. Stray(e) /\ UNCHANGED tasks
    BY <1>2 DEF Rollback
  <2>2. SameHolder
    BY <2>1, Strayed
  <2> QED BY <2>1, <2>2, HolderSame
<1>3. ASSUME NEW c \in Channels, wire[c] # <<>> PROVE Head(wire[c]).e \in Endpoints
  BY <1>3, EventIs
<1>4. ASSUME NEW c \in Channels, Handle(c) PROVE TasksInv'
  <2>1. Sets(Head(wire[c]).e, Head(wire[c]).up) /\ UNCHANGED tasks /\ Head(wire[c]).e \in Endpoints
    BY <1>3, <1>4 DEF Handle
  <2> QED BY <2>1, SetsKeeps, HolderSame
<1>5. ASSUME NEW c \in Channels, Lose(c) PROVE TasksInv'
  <2>1. Stray(Head(wire[c]).e) /\ UNCHANGED tasks
    BY <1>5 DEF Lose
  <2>2. SameHolder
    BY <2>1, Strayed
  <2> QED BY <2>1, <2>2, HolderSame
<1>6. ASSUME NEW t \in Tasks, Reads(t) PROVE TasksInv'
  <2> DEFINE job == [tasks[t] EXCEPT !.at = "building"]
  <2>1. tasks' = [tasks EXCEPT ![t] = job] /\ rebuild = None
    BY <1>6 DEF Reads, Step
  <2>2. tasks[t] \in GoodJobs
    BY TaskWas
  <2>3. job \in GoodJobs /\ job.at = "building"
    BY <2>2, JobWith
  <2> HIDE DEF job
  <2>4. rebuild' \in Rebuilds /\ rebuild'.by = t
    <3>1. CASE rebuild' = [by |-> t, ok |-> FALSE, rows |-> <<>>, clean |-> {}, dirty |-> {}]
      <4>1. <<>> \in [{} -> Rows]
        OBVIOUS
      <4>2. <<>> \in RowsOf
        BY <4>1 DEF RowsOf
      <4> QED BY <3>1, <4>2 DEF Rebuilds, RowsOf
    <3>2. CASE rebuild' = [by |-> t, ok |-> TRUE, rows |-> [e \in Live |-> db[e]],
                       clean |-> {e \in Live : coming[e] = None /\ ~OnTheWay(e)},
                       dirty |-> {e \in Live : coming[e] # None /\ ~OnTheWay(e)}]
      <4>1. [e \in Live |-> db[e]] \in [Live -> Rows] /\ Live \in SUBSET Endpoints
        BY DEF Live
      <4>2. [e \in Live |-> db[e]] \in RowsOf
        BY <4>1 DEF RowsOf
      <4>3. \A C : {e \in Live : coming[e] = None /\ ~OnTheWay(e)} \in SUBSET Endpoints
                   /\ {e \in Live : coming[e] # None /\ ~OnTheWay(e)} \in SUBSET Endpoints
        BY <4>1
      <4> QED BY <3>2, <4>2, <4>3 DEF Rebuilds, RowsOf
    <3> QED BY <1>6, <3>1, <3>2 DEF Reads
  <2>5. rebuild' # None
    BY <2>4, TopologyAssumption
  <2>6. \A u \in Tasks : tasks'[u] = IF u = t THEN job ELSE tasks[u]
    BY <2>1 DEF TasksInv
  <2>7. tasks' \in [Tasks -> GoodJobs]
    BY <2>1, <2>3 DEF TasksInv, GoodJobs
  <2> QED BY <2>1, <2>3, <2>4, <2>5, <2>6, <2>7 DEF TasksInv, GoodJobs
<1>7. ASSUME NEW t \in Tasks, Builds(t) PROVE TasksInv'
  <2>1. tasks' = [tasks EXCEPT ![t] = Idle] /\ rebuild' = None /\ rebuild.by = t
    BY <1>7 DEF Builds, Leave, End, TasksInv
  <2>2. \A u \in Tasks : tasks'[u] = IF u = t THEN Idle ELSE tasks[u]
    BY <2>1 DEF TasksInv
  <2>3. tasks' \in [Tasks -> GoodJobs]
    BY <2>1, JobsAre DEF TasksInv, GoodJobs
  <2> QED BY <2>1, <2>2, <2>3, JobsAre DEF TasksInv, GoodJobs
<1>8. ASSUME NEW t \in Tasks, NEW job \in GoodJobs, job.at # "building",
             tasks[t].at # "building", UNCHANGED rebuild,
             tasks' = [Overtaking(t) EXCEPT ![t] = job]
      PROVE  TasksInv'
  <2>1. /\ tasks' \in [Tasks -> GoodJobs] /\ tasks'[t] = job
        /\ \A u \in Tasks \ {t} : tasks'[u].at = tasks[u].at
    BY <1>8, OvertakingIs
  <2>2. \A u \in Tasks : tasks'[u].at = "building" <=> tasks[u].at = "building"
    BY <1>8, <2>1
  <2> QED BY <1>8, <2>1, <2>2 DEF TasksInv, GoodJobs
<1>9. ASSUME NEW t \in Tasks, SetParent(t) PROVE TasksInv'
  BY <1>8, <1>9, JobsAre DEF SetParent
<1>10. ASSUME NEW t \in Tasks, NEW e \in Endpoints, NEW p, Create(t, e, p) PROVE TasksInv'
  <2>1. PICK here \in BOOLEAN : tasks' = [Overtaking(t) EXCEPT ![t] =
          IF here THEN [Idle EXCEPT !.at = "tracing", !.e = e] ELSE Idle]
    BY <1>10 DEF Create
  <2>2. UNCHANGED rebuild /\ tasks[t].at # "building"
    BY <1>10 DEF Create, Request
  <2>3. CASE here
    BY <1>8, <2>1, <2>2, <2>3, JobsAre
  <2>4. CASE ~here
    BY <1>8, <2>1, <2>2, <2>4, JobsAre
  <2> QED BY <2>3, <2>4
<1>11. ASSUME NEW t \in Tasks, Trace(t) PROVE TasksInv'
  <2>1. tasks[t].e \in Endpoints /\ Traced(t, tasks[t].e, "rebuild") /\ UNCHANGED rebuild
        /\ tasks[t].at # "building"
    BY <1>11 DEF Trace, TasksInv, Proper
  <2>2. PICK job \in GoodJobs : job.at = "traced" /\ tasks' = [tasks EXCEPT ![t] = job]
    BY <2>1, TracedIs
  <2> QED BY <2>1, <2>2, PlainTask
<1>12. ASSUME NEW t \in Tasks, Store(t) PROVE TasksInv'
  <2>1. UNCHANGED rebuild /\ tasks[t].at = "traced" /\ tasks[t] \in GoodJobs
        /\ (tasks' = [tasks EXCEPT ![t] = [tasks[t] EXCEPT !.at = tasks[t].then]]
            \/ tasks' = [tasks EXCEPT ![t] = Idle])
    BY <1>12, TaskWas DEF Store, Step, End, Afterwards
  <2>2. LET next == [tasks[t] EXCEPT !.at = tasks[t].then]
        IN  next \in GoodJobs /\ next.at \in {"path", "rebuild"}
    BY <2>1, JobWith
  <2> DEFINE next == [tasks[t] EXCEPT !.at = tasks[t].then]
  <2>3. CASE tasks' = [tasks EXCEPT ![t] = next]
    <3> HIDE DEF next
    <3>1. next \in GoodJobs /\ next.at # "building"
      BY <2>2 DEF next
    <3> QED BY <2>1, <2>3, <3>1, PlainTask
  <2>4. CASE tasks' = [tasks EXCEPT ![t] = Idle]
    BY <2>1, <2>4, JobsAre, PlainTask
  <2> QED BY <2>1, <2>3, <2>4
<1>13. ASSUME NEW t \in Tasks, StoreFails(t) PROVE TasksInv'
  <2>1. UNCHANGED rebuild /\ tasks[t].at = "traced" /\ tasks' = [tasks EXCEPT ![t] = Idle]
    BY <1>13 DEF StoreFails, Leave, End
  <2> QED BY <2>1, JobsAre, PlainTask
<1>14. ASSUME NEW t \in Tasks, LayPath(t) PROVE TasksInv'
  <2>1. UNCHANGED rebuild /\ tasks[t].at = "path" /\ tasks[t] \in GoodJobs
        /\ (tasks' = [tasks EXCEPT ![t] = [tasks[t] EXCEPT !.at = "rebuild"]]
            \/ tasks' = [tasks EXCEPT ![t] = Idle])
    BY <1>14, TaskWas DEF LayPath, Step, End, Leave
  <2> DEFINE next == [tasks[t] EXCEPT !.at = "rebuild"]
  <2>2. CASE tasks' = [tasks EXCEPT ![t] = next]
    <3>1. next \in GoodJobs /\ next.at = "rebuild"
      BY <2>1, JobWith
    <3> HIDE DEF next
    <3> QED BY <2>1, <2>2, <3>1, PlainTask
  <2>3. CASE tasks' = [tasks EXCEPT ![t] = Idle]
    BY <2>1, <2>3, JobsAre, PlainTask
  <2> QED BY <2>1, <2>2, <2>3
<1>15. ASSUME NEW t \in Tasks, AskRebuild(t) PROVE TasksInv'
  <2>1. UNCHANGED rebuild /\ tasks[t].at = "idle"
        /\ tasks' = [tasks EXCEPT ![t] = [Idle EXCEPT !.at = "rebuild"]]
    BY <1>15 DEF AskRebuild, Request, Task
  <2> QED BY <2>1, JobsAre, PlainTask
<1>16. ASSUME NEW t \in Tasks, NEW e \in Endpoints, SetShown(t, e) \/ Delete(t, e) PROVE TasksInv'
  <2>1. UNCHANGED rebuild /\ tasks[t].at = "idle" /\ Afterwards(t, "rebuild")
    BY <1>16 DEF SetShown, Delete, Request
  <2>2. PICK job \in GoodJobs : job.at \in {"idle", "rebuild"} /\ tasks' = [tasks EXCEPT ![t] = job]
    BY <2>1, AfterwardsIs
  <2> QED BY <2>1, <2>2, PlainTask
<1>17. ASSUME NEW t \in Tasks, NEW e \in Endpoints, AskRefresh(t, e) PROVE TasksInv'
  <2>1. UNCHANGED rebuild /\ tasks[t].at = "idle" /\ Traced(t, e, "path")
    BY <1>17 DEF AskRefresh, Request
  <2>2. PICK job \in GoodJobs : job.at = "traced" /\ tasks' = [tasks EXCEPT ![t] = job]
    BY <2>1, TracedIs
  <2> QED BY <2>1, <2>2, PlainTask
<1>18. ASSUME NEW t \in Tasks, NEW e \in Endpoints, NEW p \in Endpoints, CheckParent(t, e, p)
       PROVE  TasksInv'
  <2>1. UNCHANGED rebuild /\ tasks[t].at = "idle"
        /\ tasks' = [tasks EXCEPT ![t] = LinkingJob(e, p)]
    BY <1>18 DEF CheckParent, Request, Task, LinkingJob
  <2>2. LinkingJob(e, p) \in GoodJobs /\ LinkingJob(e, p).at = "linking"
    BY LinkingIs
  <2> QED BY <2>1, <2>2, PlainTask
<1>19. ASSUME Dequeue PROVE TasksInv'
  <2>1. UNCHANGED rebuild /\ tasks[Consumer].at = "idle" /\ Consumer \in Tasks
        /\ Head(queue) \in Endpoints /\ Traced(Consumer, Head(queue), "path")
    BY <1>19 DEF Dequeue, QueueInv, Tasks
  <2>2. PICK job \in GoodJobs : job.at = "traced" /\ tasks' = [tasks EXCEPT ![Consumer] = job]
    BY <2>1, TracedIs
  <2> QED BY <2>1, <2>2, PlainTask
<1>20. CASE GNext
  <2>1. \/ UNCHANGED tasks /\ UNCHANGED rebuild
        \/ (\E e \in Endpoints : Rollback(e) \/ FirstRow(e))
        \/ (\E c \in Channels : Handle(c) \/ Lose(c))
        \/ \E t \in Tasks :
             \/ Reads(t) \/ Builds(t) \/ SetParent(t) \/ Trace(t) \/ Store(t) \/ StoreFails(t)
             \/ LayPath(t) \/ AskRebuild(t)
        \/ \E t \in Tasks, e \in Endpoints :
             \/ SetShown(t, e) \/ Delete(t, e) \/ AskRefresh(t, e)
             \/ \E p \in Endpoints : CheckParent(t, e, p)
             \/ \E p \in Endpoints \cup {None} : Create(t, e, p)
        \/ Dequeue
    <3>1. \A e \in Endpoints : Announce(e) \/ Commit(e) \/ Diagnose(e)
            => UNCHANGED tasks /\ UNCHANGED rebuild
      BY DEF Announce, Commit, Diagnose
    <3>2. EnqueueAll \/ Done => UNCHANGED tasks /\ UNCHANGED rebuild
      BY DEF EnqueueAll, Done, gvars
    <3> QED BY <1>20, <3>1, <3>2 DEF GNext
  <2>2. CASE \/ \E e \in Endpoints : Rollback(e) \/ FirstRow(e)
             \/ \E c \in Channels : Handle(c) \/ Lose(c)
    <3>1. ASSUME NEW e \in Endpoints, FirstRow(e) PROVE TasksInv'
      <4>1. UNCHANGED tasks /\ (UNCHANGED rebuild \/ Stray(e))
        BY <3>1, FirstRowIs
      <4>2. UNCHANGED rebuild \/ SameHolder
        BY <4>1, Strayed
      <4> QED BY <1>1, <4>1, <4>2, HolderSame
    <3> QED BY <1>2, <1>4, <1>5, <2>2, <3>1
  <2>3. CASE \E t \in Tasks :
             \/ Reads(t) \/ Builds(t) \/ SetParent(t) \/ Trace(t) \/ Store(t) \/ StoreFails(t)
             \/ LayPath(t) \/ AskRebuild(t)
    BY <1>6, <1>7, <1>9, <1>11, <1>12, <1>13, <1>14, <1>15, <2>3
  <2>4. CASE \E t \in Tasks, e \in Endpoints :
             \/ SetShown(t, e) \/ Delete(t, e) \/ AskRefresh(t, e)
             \/ \E p \in Endpoints : CheckParent(t, e, p)
             \/ \E p \in Endpoints \cup {None} : Create(t, e, p)
    BY <1>10, <1>16, <1>17, <1>18, <2>4
  <2> QED BY <1>1, <1>19, <2>1, <2>2, <2>3, <2>4
<1>21. CASE UNCHANGED gvars
  BY <1>1, <1>21 DEF gvars
<1> QED BY <1>20, <1>21

-----------------------------------------------------------------------------
(* The queue for discovery.                                                *)

Waiting == {queue[i] : i \in 1..Len(queue)}

\* The consumer and the queue as they are.
LEMMA QueueKept ==
  ASSUME QueueInv, UNCHANGED <<queue, discovering>>, tasks'[Consumer].at = tasks[Consumer].at,
         tasks'[Consumer].e = tasks[Consumer].e, tasks'[Consumer].then = tasks[Consumer].then
  PROVE  QueueInv'
BY DEF QueueInv

\* The consumer goes on with what it has.
LEMMA QueueGoesOn ==
  ASSUME TasksInv, QueueInv, UNCHANGED <<queue, discovering>>, tasks[Consumer].at # "idle",
         NEW job \in GoodJobs, tasks' = [tasks EXCEPT ![Consumer] = job],
         job.at \in {"path", "rebuild", "building"}, job.e = tasks[Consumer].e
  PROVE  QueueInv'
<1>1. tasks'[Consumer] = job
  BY DEF TasksInv, Tasks
<1> QED BY <1>1 DEF QueueInv

\* The consumer has done with its endpoint.
LEMMA QueueLeft ==
  ASSUME TasksInv, QueueInv, UNCHANGED queue, discovering' = discovering \ {tasks[Consumer].e},
         tasks' = [tasks EXCEPT ![Consumer] = Idle]
  PROVE  QueueInv'
<1>1. tasks'[Consumer] = Idle
  BY DEF TasksInv, Tasks
<1>2. discovering' = Waiting
  BY DEF QueueInv, Waiting
<1>3. \A i \in 1..Len(queue) : queue[i] # None
  <2>1. \A e \in Endpoints : e # None
    BY TopologyAssumption DEF Hops
  <2> QED BY <2>1 DEF QueueInv
<1>4. \A i \in 1..Len(queue) : queue[i] # Idle.e
  BY <1>3, JobsAre
<1>5. Idle.at = "idle" /\ Idle.e = None
  BY JobsAre
<1>6. discovering' = {queue[i] : i \in 1..Len(queue)} \cup {}
  BY <1>2 DEF Waiting
<1> QED BY <1>1, <1>4, <1>5, <1>6 DEF QueueInv

\* Another task leaves.
LEMMA QueueOther ==
  ASSUME TasksInv, QueueInv, UNCHANGED <<queue, discovering>>, NEW t \in Tasks, t # Consumer,
         NEW job, tasks' = [tasks EXCEPT ![t] = job]
  PROVE  QueueInv'
<1>1. tasks'[Consumer] = tasks[Consumer]
  BY DEF TasksInv, Tasks
<1> QED BY <1>1, QueueKept

\* Two lists with no member twice and none in common, one after the other.
LEMMA Appended ==
  ASSUME NEW S, NEW p \in Seq(S), NEW q \in Seq(S),
         \A i, j \in 1..Len(p) : p[i] = p[j] => i = j,
         \A i, j \in 1..Len(q) : q[i] = q[j] => i = j,
         \A i \in 1..Len(p) : \A j \in 1..Len(q) : p[i] # q[j],
         NEW r \in Seq(S), r = p \o q
  PROVE  /\ r \in Seq(S) /\ \A i, j \in 1..Len(r) : r[i] = r[j] => i = j
         /\ \A i \in 1..Len(r) : \/ \E j \in 1..Len(p) : r[i] = p[j]
                                 \/ \E j \in 1..Len(q) : r[i] = q[j]
         /\ \A j \in 1..Len(p) : \E i \in 1..Len(r) : r[i] = p[j]
<1> DEFINE m == Len(p)
           n == Len(q)
<1>1. m \in Nat /\ n \in Nat
  OBVIOUS
<1>2. /\ r \in Seq(S) /\ Len(r) = m + n
      /\ \A i \in 1..m + n : r[i] = IF i <= m THEN p[i] ELSE q[i - m]
  BY ConcatProperties
<1> HIDE DEF m, n
<1>3. \A i \in 1..m + n : IF i <= m THEN i \in 1..m ELSE i - m \in 1..n
  BY <1>1
<1>4. \A i \in 1..m : i \in 1..m + n /\ i <= m
  BY <1>1
<1>6. ASSUME NEW i \in 1..m + n, NEW j \in 1..m + n, r[i] = r[j] PROVE i = j
  <2>1. CASE i <= m /\ j <= m
    BY <1>2, <1>3, <1>6, <2>1 DEF m
  <2>2. CASE ~(i <= m) /\ ~(j <= m)
    <3>1. q[i - m] = q[j - m] /\ i - m \in 1..n /\ j - m \in 1..n
      BY <1>2, <1>3, <1>6, <2>2
    <3>2. i - m = j - m
      BY <3>1 DEF n
    <3> QED BY <1>1, <3>2
  <2>3. CASE i <= m /\ ~(j <= m)
    BY <1>2, <1>3, <1>6, <2>3 DEF m, n
  <2>4. CASE ~(i <= m) /\ j <= m
    BY <1>2, <1>3, <1>6, <2>4 DEF m, n
  <2> QED BY <2>1, <2>2, <2>3, <2>4
<1>7. \A i \in 1..m + n : (\E j \in 1..m : r[i] = p[j]) \/ (\E j \in 1..n : r[i] = q[j])
  BY <1>2, <1>3
<1>8. \A j \in 1..m : \E i \in 1..m + n : r[i] = p[j]
  BY <1>2, <1>4
<1> QED BY <1>2, <1>6, <1>7, <1>8 DEF m, n

\* Endpoints that are not waiting, and not with the consumer, are queued once.
LEMMA Queued ==
  ASSUME QueueInv, UNCHANGED tasks, NEW q \in Seq(Endpoints),
         \A i, j \in 1..Len(q) : q[i] = q[j] => i = j, queue' = queue \o q,
         {q[i] : i \in 1..Len(q)} \cap discovering = {},
         discovering' = discovering \cup {q[i] : i \in 1..Len(q)}
  PROVE  QueueInv'
<1> DEFINE E == {q[i] : i \in 1..Len(q)}
<1>1. discovering = Waiting \cup (IF tasks[Consumer].at = "idle" THEN {} ELSE {tasks[Consumer].e})
  BY DEF QueueInv, Waiting
<1>2. \A i \in 1..Len(queue) : \A j \in 1..Len(q) : queue[i] # q[j]
  <2> SUFFICES ASSUME NEW i \in 1..Len(queue), NEW j \in 1..Len(q), queue[i] = q[j] PROVE FALSE
    OBVIOUS
  <2>1. queue[i] \in Waiting /\ q[j] \in E
    BY DEF Waiting
  <2>2. queue[i] \in discovering
    BY <1>1, <2>1
  <2> QED BY <2>1, <2>2
<1>3. queue \in Seq(Endpoints) /\ \A i, j \in 1..Len(queue) : queue[i] = queue[j] => i = j
  BY DEF QueueInv
<1>4. /\ queue' \in Seq(Endpoints) /\ \A i, j \in 1..Len(queue') : queue'[i] = queue'[j] => i = j
      /\ {queue'[i] : i \in 1..Len(queue')} = Waiting \cup E
  <2> DEFINE w == queue \o q
  <2>1. /\ w \in Seq(Endpoints) /\ \A i, j \in 1..Len(w) : w[i] = w[j] => i = j
        /\ \A i \in 1..Len(w) : \/ \E j \in 1..Len(queue) : w[i] = queue[j]
                                \/ \E j \in 1..Len(q) : w[i] = q[j]
        /\ \A j \in 1..Len(queue) : \E i \in 1..Len(w) : w[i] = queue[j]
        /\ \A j \in 1..Len(q) : \E i \in 1..Len(w) : w[i] = q[j]
    <3>1. w = queue \o q /\ \A i, j \in 1..Len(q) : q[i] = q[j] => i = j
      OBVIOUS
    <3> HIDE DEF E, w
    <3>2. PICK p : p = queue
      OBVIOUS
    <3>3. p \in Seq(Endpoints) /\ w = p \o q
      BY <1>3, <3>1, <3>2
    <3>4. \A i, j \in 1..Len(p) : p[i] = p[j] => i = j
      BY <1>3, <3>2
    <3>5. \A i \in 1..Len(p) : \A j \in 1..Len(q) : p[i] # q[j]
      BY <1>2, <3>2
    <3>6. q \in Seq(Endpoints)
      OBVIOUS
    <3>7. w \in Seq(Endpoints)
      BY ONLY <3>3, <3>6
    <3>8. \A i, j \in 1..Len(w) : w[i] = w[j] => i = j
      BY ONLY <3>1, <3>3, <3>4, <3>5, <3>6, <3>7, Appended
    <3>9. \A i \in 1..Len(w) : \/ \E j \in 1..Len(p) : w[i] = p[j]
                               \/ \E j \in 1..Len(q) : w[i] = q[j]
      BY ONLY <3>1, <3>3, <3>4, <3>5, <3>6, <3>7, Appended
    <3>10. \A j \in 1..Len(p) : \E i \in 1..Len(w) : w[i] = p[j]
      BY ONLY <3>1, <3>3, <3>4, <3>5, <3>6, <3>7, Appended
    <3>11. ASSUME NEW j \in 1..Len(q) PROVE \E i \in 1..Len(w) : w[i] = q[j]
      <4>1. Len(p) \in Nat /\ Len(q) \in Nat /\ Len(w) = Len(p) + Len(q)
            /\ \A i \in 1..Len(p) + Len(q) : w[i] = IF i <= Len(p) THEN p[i] ELSE q[i - Len(p)]
        BY <3>3, <3>6, ConcatProperties
      <4>2. j + Len(p) \in 1..Len(p) + Len(q) /\ ~(j + Len(p) <= Len(p))
            /\ (j + Len(p)) - Len(p) = j
        BY <4>1
      <4>3. w[j + Len(p)] = q[j]
        BY <4>1, <4>2
      <4> QED BY <4>1, <4>2, <4>3
    <3> QED BY <3>2, <3>7, <3>8, <3>9, <3>10, <3>11
  <2>2. queue' = w
    OBVIOUS
  <2> DEFINE Z == {w[i] : i \in 1..Len(w)}
  <2>3. Z = Waiting \cup E
    <3>1. \A i \in 1..Len(w) : w[i] \in Waiting \/ w[i] \in E
      BY <2>1 DEF Waiting
    <3>2. \A i \in 1..Len(queue) : queue[i] \in Z
      BY <2>1
    <3>3. \A i \in 1..Len(q) : q[i] \in Z
      BY <2>1
    <3>4. Z \subseteq Waiting \cup E
      BY <3>1
    <3>5. Waiting \subseteq Z /\ E \subseteq Z
      BY <3>2, <3>3 DEF Waiting
    <3> HIDE DEF Z, E
    <3> QED BY <3>4, <3>5
  <2>4. {queue'[i] : i \in 1..Len(queue')} = Z
    BY <2>2
  <2> HIDE DEF w, Z
  <2> QED BY <2>1, <2>2, <2>3, <2>4
<1> HIDE DEF E
<1>5. tasks[Consumer].e \notin E
  <2>1. CASE tasks[Consumer].at = "idle"
    <3>1. tasks[Consumer].e = None /\ E \subseteq Endpoints
      BY <2>1 DEF QueueInv, E
    <3> QED BY <3>1, TopologyAssumption DEF Hops
  <2>2. CASE tasks[Consumer].at # "idle"
    BY <1>1, <2>2 DEF E
  <2> QED BY <2>1, <2>2
<1>6. \A i \in 1..Len(queue') : queue'[i] # tasks[Consumer].e
  <2>1. tasks[Consumer].e \notin Waiting
    BY DEF QueueInv, Waiting
  <2> QED BY ONLY <1>4, <1>5, <2>1
<1>7. discovering' = {queue'[i] : i \in 1..Len(queue')}
                     \cup (IF tasks[Consumer].at = "idle" THEN {} ELSE {tasks[Consumer].e})
  BY <1>1, <1>4 DEF E
<1> QED BY <1>4, <1>6, <1>7 DEF QueueInv

\* An endpoint is queued once at most, and not while the consumer is at it.
LEMMA QueueStep ==
  ASSUME db \in [Endpoints -> Rows], TasksInv, QueueInv, EventsInv, [GNext]_gvars
  PROVE  QueueInv'
<1>0. Consumer \in Tasks /\ Consumer \notin Requests
  BY TopologyAssumption DEF Tasks
<1>1. CASE UNCHANGED <<tasks, queue, discovering>>
  BY <1>1, QueueKept
<1>2. ASSUME NEW c \in Channels, Handle(c) PROVE QueueInv'
  <2> DEFINE e == Head(wire[c]).e
  <2>1. e \in Endpoints /\ UNCHANGED tasks
    BY <1>2, EventIs DEF Handle
  <2>2. \/ UNCHANGED <<queue, discovering>>
        \/ e \notin discovering /\ discovering' = discovering \cup {e} /\ queue' = Append(queue, e)
    BY <1>2 DEF Handle, Discovers
  <2> HIDE DEF e
  <2>3. CASE e \notin discovering /\ discovering' = discovering \cup {e} /\ queue' = Append(queue, e)
    <3> DEFINE q == <<e>>
    <3>1. q \in Seq(Endpoints) /\ Len(q) = 1 /\ q[1] = e /\ {q[i] : i \in 1..Len(q)} = {e}
      BY <2>1
    <3>2. queue' = queue \o q
      BY <2>1, <2>3 DEF QueueInv
    <3> HIDE DEF q
    <3>3. \A i, j \in 1..Len(q) : q[i] = q[j] => i = j
      BY <3>1
    <3> QED BY <2>1, <2>3, <3>1, <3>2, <3>3, Queued
  <2> QED BY <1>1, <2>1, <2>2, <2>3
<1>3. ASSUME EnqueueAll PROVE QueueInv'
  <2> DEFINE due == {e \in Live : db[e].up} \ discovering
  <2>1. UNCHANGED tasks /\ discovering' = discovering \cup due
        /\ \E order \in SetToSeqs(due) : queue' = queue \o order
    BY <1>3 DEF EnqueueAll
  <2>2. due \subseteq Endpoints /\ due \cap discovering = {}
    BY DEF Live
  <2> HIDE DEF due
  <2>3. PICK order \in SetToSeqs(due) : queue' = queue \o order
    BY <2>1
  <2> DEFINE n == Cardinality(due)
             D == 1..n
  <2>4. order \in [D -> due] /\ \A i, j \in D : i # j => order[i] # order[j]
    BY <2>3 DEF SetToSeqs
  <2>5. n \in Nat /\ IsFiniteSet(due)
    BY <2>2, TopologyAssumption, FS_Subset, FS_CardinalityType
  <2>6. IsFiniteSet(D) /\ Cardinality(D) = n
    <3> HIDE DEF n
    <3>1. 1 \in Int /\ n \in Int
      BY <2>5
    <3>2. IsFiniteSet(1..n) /\ Cardinality(1..n) = IF 1 > n THEN 0 ELSE n - 1 + 1
      BY <3>1, FS_Interval
    <3> QED BY <2>5, <3>2
  <2>7. order \in Seq(Endpoints) /\ Len(order) = n
    BY <2>2, <2>4, <2>5
  <2>8. \A i, j \in 1..Len(order) : order[i] = order[j] => i = j
    BY <2>4, <2>7
  <2>9. {order[i] : i \in 1..Len(order)} = due
    <3> HIDE DEF D
    <3>1. order \in Injection(D, due)
      BY <2>4 DEF Injection, IsInjective
    <3>2. order \in Surjection(D, due)
      BY <2>5, <2>6, <3>1, FS_Injection DEF n
    <3>3. \A x \in due : \E i \in D : order[i] = x
      BY <3>2 DEF Surjection
    <3> QED BY <2>4, <2>7, <3>3 DEF D
  <2> QED BY <2>1, <2>2, <2>3, <2>7, <2>8, <2>9, Queued
<1>4. ASSUME Dequeue PROVE QueueInv'
  <2> DEFINE e == Head(queue)
             q == Tail(queue)
  <2>1. /\ e = queue[1] /\ q \in Seq(Endpoints) /\ Len(q) = Len(queue) - 1 /\ Len(queue) \in Nat
        /\ Len(queue) > 0 /\ \A i \in 1..Len(q) : q[i] = queue[i + 1]
    BY <1>4, EmptySeq DEF Dequeue, QueueInv
  <2>2. e \in Endpoints /\ tasks[Consumer].at = "idle" /\ Traced(Consumer, e, "path")
        /\ queue' = q /\ UNCHANGED discovering
    BY <1>4 DEF Dequeue, QueueInv
  <2> HIDE DEF e, q
  <2>3. PICK job \in GoodJobs : /\ job.at = "traced" /\ job.e = e /\ job.then = "path"
                                /\ tasks' = [tasks EXCEPT ![Consumer] = job]
    BY <1>0, <2>2, TracedIs
  <2>4. tasks'[Consumer] = job
    BY <1>0, <2>3 DEF TasksInv
  <2>5. \A i \in 1..Len(q) : i + 1 \in 1..Len(queue) /\ i + 1 # 1
    BY <2>1
  <2>6. /\ \A i, j \in 1..Len(queue) : queue[i] = queue[j] => i = j
        /\ discovering = Waiting
    BY <2>2 DEF QueueInv, Waiting
  <2>7. 1 \in 1..Len(queue) /\ \A i \in 1..Len(queue) : i = 1 \/ (i - 1 \in 1..Len(q) /\ (i - 1) + 1 = i)
    BY <2>1
  <2>8. \A i, j \in 1..Len(q) : q[i] = q[j] => i = j
    <3> SUFFICES ASSUME NEW i \in 1..Len(q), NEW j \in 1..Len(q), q[i] = q[j] PROVE i = j
      OBVIOUS
    <3>1. i + 1 = j + 1
      BY <2>1, <2>5, <2>6
    <3> QED BY <3>1
  <2>9. \A i \in 1..Len(q) : q[i] # e
    BY <2>1, <2>5, <2>6, <2>7
  <2>10. discovering = {q[i] : i \in 1..Len(q)} \cup {e}
    <3>1. \A x \in Waiting : x = e \/ \E i \in 1..Len(q) : x = q[i]
      <4>1. ASSUME NEW i \in 1..Len(queue)
            PROVE  queue[i] = e \/ \E j \in 1..Len(q) : queue[i] = q[j]
        <5>1. CASE i = 1
          BY <2>1, <5>1
        <5>2. CASE i # 1
          <6>1. i - 1 \in 1..Len(q) /\ (i - 1) + 1 = i
            BY <2>7, <5>2
          <6> QED BY <2>1, <6>1
        <5> QED BY <5>1, <5>2
      <4> QED BY ONLY <4>1 DEF Waiting
    <3>2. e \in Waiting /\ \A i \in 1..Len(q) : q[i] \in Waiting
      BY <2>1, <2>5, <2>7 DEF Waiting
    <3> QED BY <2>6, <3>1, <3>2
  <2>11. /\ tasks'[Consumer].at = "traced" /\ tasks'[Consumer].e = e
         /\ tasks'[Consumer].then = "path"
    BY <2>3, <2>4
  <2>12. discovering' = {queue'[i] : i \in 1..Len(queue')} \cup {tasks'[Consumer].e}
    BY <2>2, <2>10, <2>11
  <2> QED BY <2>1, <2>2, <2>8, <2>9, <2>11, <2>12 DEF QueueInv
<1>5. ASSUME NEW t \in Tasks, Leave(t), UNCHANGED queue PROVE QueueInv'
  <2>1. tasks' = [tasks EXCEPT ![t] = Idle]
        /\ discovering' = IF t = Consumer THEN discovering \ {tasks[t].e} ELSE discovering
    BY <1>5 DEF Leave, End
  <2>2. CASE t = Consumer
    BY <1>5, <2>1, <2>2, QueueLeft
  <2>3. CASE t # Consumer
    BY <1>5, <2>1, <2>3, QueueOther
  <2> QED BY <2>2, <2>3
<1>6. ASSUME NEW t \in Tasks, tasks[t].at # "idle", UNCHANGED <<queue, discovering>>,
             NEW at \in {"rebuild", "building"}, tasks' = [tasks EXCEPT ![t].at = at]
      PROVE  QueueInv'
  <2> DEFINE job == [tasks[t] EXCEPT !.at = at]
  <2>1. tasks' = [tasks EXCEPT ![t] = job]
    BY <1>6
  <2>2. job \in GoodJobs /\ job.at = at /\ job.e = tasks[t].e
    BY TaskWas, JobWith
  <2> HIDE DEF job
  <2>3. CASE t = Consumer
    BY <1>6, <2>1, <2>2, <2>3, QueueGoesOn
  <2>4. CASE t # Consumer
    BY <1>6, <2>1, <2>4, QueueOther
  <2> QED BY <2>3, <2>4
<1>7. ASSUME NEW t \in Tasks, Reads(t) PROVE QueueInv'
  BY <1>6, <1>7 DEF Reads, Step
<1>8. ASSUME NEW t \in Tasks, Builds(t) \/ StoreFails(t) PROVE QueueInv'
  BY <1>5, <1>8 DEF Builds, StoreFails
<1>9. ASSUME NEW t \in Tasks, LayPath(t) PROVE QueueInv'
  BY <1>5, <1>6, <1>9 DEF LayPath, Step
<1>10. ASSUME NEW t \in Tasks, Store(t) PROVE QueueInv'
  <2>1. CASE t = Consumer
    <3> DEFINE job == [tasks[t] EXCEPT !.at = tasks[t].then]
    <3>1. tasks' = [tasks EXCEPT ![t] = job] /\ tasks[t].at = "traced" /\ tasks[t] \in GoodJobs
          /\ UNCHANGED <<queue, discovering>>
      BY <1>10, <2>1, TaskWas DEF Store, Step
    <3>2. job \in GoodJobs /\ job.at \in {"path", "rebuild"} /\ job.e = tasks[t].e
      BY <3>1, JobWith
    <3> HIDE DEF job
    <3> QED BY <2>1, <3>1, <3>2, QueueGoesOn
  <2>2. CASE t # Consumer
    <3>1. UNCHANGED <<queue, discovering>> /\ \E job : tasks' = [tasks EXCEPT ![t] = job]
      BY <1>10, <2>2 DEF Store, Afterwards, Step, End
    <3> QED BY <2>2, <3>1, QueueOther
  <2> QED BY <2>1, <2>2
<1>11. ASSUME NEW t \in Tasks, NEW job \in GoodJobs, t # Consumer, UNCHANGED <<queue, discovering>>,
              tasks' = [Overtaking(t) EXCEPT ![t] = job]
       PROVE  QueueInv'
  <2>1. /\ tasks'[Consumer].at = tasks[Consumer].at /\ tasks'[Consumer].e = tasks[Consumer].e
        /\ tasks'[Consumer].then = tasks[Consumer].then
    BY <1>0, <1>11, OvertakingIs
  <2> QED BY <1>11, <2>1, QueueKept
<1>12. ASSUME NEW t \in Tasks, SetParent(t) PROVE QueueInv'
  <2>1. t # Consumer
    BY <1>12 DEF SetParent, QueueInv
  <2> QED BY <1>11, <1>12, <2>1, JobsAre DEF SetParent
<1>13. ASSUME NEW t \in Tasks, NEW e \in Endpoints, NEW p, Create(t, e, p) PROVE QueueInv'
  <2>1. t # Consumer /\ UNCHANGED <<queue, discovering>>
    BY <1>0, <1>13 DEF Create, Request
  <2>2. PICK here \in BOOLEAN : tasks' = [Overtaking(t) EXCEPT ![t] =
          IF here THEN [Idle EXCEPT !.at = "tracing", !.e = e] ELSE Idle]
    BY <1>13 DEF Create
  <2>3. CASE here
    BY <1>11, <2>1, <2>2, <2>3, JobsAre
  <2>4. CASE ~here
    BY <1>11, <2>1, <2>2, <2>4, JobsAre
  <2> QED BY <2>3, <2>4
<1>14. ASSUME NEW t \in Tasks, t # Consumer, UNCHANGED <<queue, discovering>>,
              \E job : tasks' = [tasks EXCEPT ![t] = job]
       PROVE  QueueInv'
  BY <1>14, QueueOther
<1>15. ASSUME NEW t \in Tasks, NEW e, NEW next, Traced(t, e, next)
       PROVE  \E job : tasks' = [tasks EXCEPT ![t] = job]
  BY <1>15 DEF Traced, Task
<1>16. ASSUME NEW t \in Tasks, Trace(t) PROVE QueueInv'
  <2>1. t # Consumer
    BY <1>16 DEF Trace, QueueInv
  <2> QED BY <1>14, <1>15, <1>16, <2>1 DEF Trace
<1>17. ASSUME NEW t \in Tasks, AskRebuild(t) PROVE QueueInv'
  BY <1>0, <1>14, <1>17 DEF AskRebuild, Request, Task
<1>18. ASSUME NEW t \in Tasks, NEW e \in Endpoints, SetShown(t, e) \/ Delete(t, e) PROVE QueueInv'
  BY <1>0, <1>14, <1>18 DEF SetShown, Delete, Request, Afterwards, Step, End
<1>19. ASSUME NEW t \in Tasks, NEW e \in Endpoints, AskRefresh(t, e) PROVE QueueInv'
  BY <1>0, <1>14, <1>15, <1>19 DEF AskRefresh, Request
<1>20. ASSUME NEW t \in Tasks, NEW e \in Endpoints, NEW p, CheckParent(t, e, p) PROVE QueueInv'
  BY <1>0, <1>14, <1>20 DEF CheckParent, Request, Task
<1>21. CASE GNext
  <2>1. \A e \in Endpoints : Announce(e) \/ Commit(e) \/ Rollback(e) \/ FirstRow(e) \/ Diagnose(e)
          => UNCHANGED <<tasks, queue, discovering>>
    BY DEF Announce, Commit, Rollback, FirstRow, Diagnose
  <2>2. (\E c \in Channels : Lose(c)) \/ Done => UNCHANGED <<tasks, queue, discovering>>
    BY DEF Lose, Done, gvars
  <2>3. CASE \E t \in Tasks :
             \/ Reads(t) \/ Builds(t) \/ SetParent(t) \/ Trace(t) \/ Store(t) \/ StoreFails(t)
             \/ LayPath(t) \/ AskRebuild(t)
    BY <1>7, <1>8, <1>9, <1>10, <1>12, <1>16, <1>17, <2>3
  <2>4. CASE \E t \in Tasks, e \in Endpoints :
             \/ SetShown(t, e) \/ Delete(t, e) \/ AskRefresh(t, e)
             \/ \E p \in Endpoints : CheckParent(t, e, p)
             \/ \E p \in Endpoints \cup {None} : Create(t, e, p)
    BY <1>13, <1>18, <1>19, <1>20, <2>4
  <2> QED BY <1>1, <1>2, <1>3, <1>4, <1>21, <2>1, <2>2, <2>3, <2>4 DEF GNext
<1>22. CASE UNCHANGED gvars
  BY <1>1, <1>22 DEF gvars
<1> QED BY <1>21, <1>22

-----------------------------------------------------------------------------
(* Events.                                                                 *)

LEMMA OnTheWayIs ==
  ASSUME WireOK, NEW e
  PROVE  OnTheWay(e) <=> \E c \in Channels : \E i \in 1..Len(wire[c]) : wire[c][i].e = e
<1>1. \A c \in Channels : wire[c] \in Seq(Events)
  BY DEF WireOK
<1>2. \A c \in Channels : DOMAIN wire[c] = 1..Len(wire[c])
  BY <1>1
<1> QED BY <1>2 DEF OnTheWay

LEMMA OnTheWayThen ==
  ASSUME WireOK', NEW e
  PROVE  OnTheWay(e)' <=> \E c \in Channels : \E i \in 1..Len(wire'[c]) : wire'[c][i].e = e
<1>1. \A c \in Channels : wire'[c] \in Seq(Events)
  BY DEF WireOK
<1>2. \A c \in Channels : DOMAIN wire'[c] = 1..Len(wire'[c])
  BY <1>1
<1> QED BY <1>2 DEF OnTheWay

\* An event more on every channel.
LEMMA WireLonger ==
  ASSUME WireOK, NEW v \in Events, NEW a, a = v.e, wire' = [c \in Channels |-> Append(wire[c], v)]
  PROVE  /\ WireOK'
         /\ \A c \in Channels : \A i \in 1..Len(wire'[c]) :
              \/ wire'[c][i] = v
              \/ /\ i \in 1..Len(wire[c]) /\ wire'[c][i] = wire[c][i]
                 /\ Newest(c, i)' => Newest(c, i) /\ wire[c][i].e # v.e
         /\ \A e : OnTheWay(e) => OnTheWay(e)'
         /\ OnTheWay(a)'
<1>1. ASSUME NEW c \in Channels
      PROVE  /\ wire[c] \in Seq(Events) /\ Len(wire[c]) \in Nat
             /\ wire'[c] \in Seq(Events) /\ Len(wire'[c]) = Len(wire[c]) + 1
             /\ wire'[c][Len(wire[c]) + 1] = v
             /\ \A i \in 1..Len(wire[c]) : wire'[c][i] = wire[c][i]
  <2> DEFINE w == wire[c]
             x == Append(w, v)
  <2>1. w \in Seq(Events)
    BY DEF WireOK
  <2>2. wire'[c] = x
    OBVIOUS
  <2> HIDE DEF w
  <2>3. /\ Len(w) \in Nat /\ x \in Seq(Events) /\ Len(x) = Len(w) + 1
        /\ x[Len(w) + 1] = v /\ \A i \in 1..Len(w) : x[i] = w[i]
    BY <2>1
  <2> HIDE DEF x
  <2> QED BY <2>1, <2>2, <2>3 DEF w
<1>2. WireOK'
  BY <1>1 DEF WireOK
<1>3. ASSUME NEW c \in Channels, NEW i \in 1..Len(wire'[c])
      PROVE  \/ wire'[c][i] = v
             \/ /\ i \in 1..Len(wire[c]) /\ wire'[c][i] = wire[c][i]
                /\ Newest(c, i)' => Newest(c, i) /\ wire[c][i].e # v.e
  <2>1. CASE i = Len(wire[c]) + 1
    BY <1>1, <2>1
  <2>2. CASE i # Len(wire[c]) + 1
    <3>1. i \in 1..Len(wire[c])
      BY <1>1, <2>2
    <3>2. Len(wire[c]) + 1 \in 1..Len(wire'[c]) /\ Len(wire[c]) + 1 > i
          /\ \A j \in 1..Len(wire[c]) : j \in 1..Len(wire'[c])
      BY <1>1, <3>1
    <3>3. ASSUME \A j \in 1..Len(wire'[c]) : j > i => wire'[c][j].e # wire'[c][i].e
          PROVE  /\ \A j \in 1..Len(wire[c]) : j > i => wire[c][j].e # wire[c][i].e
                 /\ wire[c][i].e # v.e
      BY <1>1, <3>1, <3>2, <3>3
    <3> QED BY <1>1, <3>1, <3>3 DEF Newest
  <2> QED BY <2>1, <2>2
<1>4. \A c \in Channels : \A i \in 1..Len(wire[c]) : i \in 1..Len(wire'[c])
  BY <1>1
<1>5. \A e : OnTheWay(e) => OnTheWay(e)'
  BY <1>1, <1>2, <1>4, OnTheWayIs, OnTheWayThen
<1>6. OnTheWay(a)'
  <2>1. PICK c \in Channels : TRUE
    BY DEF Channels
  <2>2. Len(wire[c]) + 1 \in 1..Len(wire'[c])
    BY <1>1
  <2> QED BY <1>1, <1>2, <2>2, OnTheWayThen
<1> QED BY <1>2, <1>3, <1>5, <1>6

\* An event less on one of them.
LEMMA WireShorter ==
  ASSUME WireOK, NEW c \in Channels, wire[c] # <<>>, wire' = [wire EXCEPT ![c] = Tail(wire[c])]
  PROVE  /\ WireOK'
         /\ \A d \in Channels : \A i \in 1..Len(wire'[d]) : \E j \in 1..Len(wire[d]) :
              wire'[d][i] = wire[d][j] /\ (Newest(d, i)' => Newest(d, j))
         /\ \A e : OnTheWay(e)' => OnTheWay(e)
         /\ \A e : OnTheWay(e) /\ ~OnTheWay(e)' => e = wire[c][1].e /\ Newest(c, 1)
         /\ 1 \in 1..Len(wire[c])
<1> DEFINE w == wire[c]
           x == Tail(w)
<1>1. w \in Seq(Events) /\ w # <<>>
  BY DEF WireOK
<1> HIDE DEF w
<1>2. /\ Len(w) \in Nat /\ Len(w) > 0 /\ x \in Seq(Events) /\ Len(x) = Len(w) - 1
      /\ \A i \in 1..Len(x) : x[i] = w[i + 1]
  BY <1>1, EmptySeq
<1> HIDE DEF x
<1>3. wire'[c] = x /\ \A d \in Channels : d # c => wire'[d] = wire[d]
  BY DEF w, x, WireOK
<1>4. WireOK'
  BY <1>2, <1>3 DEF WireOK, w, x
<1>5. \A i \in 1..Len(x) : i + 1 \in 1..Len(w)
  BY <1>2
<1>6. \A j \in 1..Len(w) : j # 1 => j - 1 \in 1..Len(x) /\ (j - 1) + 1 = j
  BY <1>2
<1>7. ASSUME NEW d \in Channels, NEW i \in 1..Len(wire'[d])
      PROVE  \E j \in 1..Len(wire[d]) : wire'[d][i] = wire[d][j] /\ (Newest(d, i)' => Newest(d, j))
  <2>1. CASE d = c
    <3>1. i \in 1..Len(x) /\ i + 1 \in 1..Len(w) /\ x[i] = w[i + 1]
      BY <1>2, <1>3, <1>5, <2>1
    <3>2. ASSUME \A j \in 1..Len(x) : j > i => x[j].e # x[i].e, NEW j \in 1..Len(w), j > i + 1
          PROVE  w[j].e # w[i + 1].e
      <4>1. j - 1 \in 1..Len(x) /\ (j - 1) + 1 = j /\ j - 1 > i
        BY <1>2, <3>1, <3>2
      <4> QED BY <1>2, <3>1, <3>2, <4>1
    <3>3. Newest(d, i)' => Newest(d, i + 1)
      BY <1>3, <2>1, <3>2 DEF Newest, w
    <3>4. wire'[d][i] = wire[d][i + 1] /\ i + 1 \in 1..Len(wire[d])
      BY <1>3, <2>1, <3>1 DEF w
    <3> QED BY <3>3, <3>4
  <2>2. CASE d # c
    <3>1. wire'[d] = wire[d]
      BY <1>3, <2>2
    <3>2. Newest(d, i)' => Newest(d, i)
      BY <3>1 DEF Newest
    <3> QED BY <3>1, <3>2
  <2> QED BY <2>1, <2>2
<1>8. \A e : OnTheWay(e)' => OnTheWay(e)
  BY <1>4, <1>7, OnTheWayIs, OnTheWayThen
<1>9. ASSUME NEW e, OnTheWay(e), ~OnTheWay(e)' PROVE e = wire[c][1].e /\ Newest(c, 1)
  <2>1. PICK d \in Channels : \E i \in 1..Len(wire[d]) : wire[d][i].e = e
    BY <1>9, OnTheWayIs
  <2>2. PICK i \in 1..Len(wire[d]) : wire[d][i].e = e
    BY <2>1
  <2>3. \A a \in Channels : \A j \in 1..Len(wire'[a]) : wire'[a][j].e # e
    BY <1>4, <1>9, OnTheWayThen
  <2>4. d = c
    BY <1>3, <2>2, <2>3
  <2>5. \A j \in 1..Len(w) : j # 1 => w[j].e # e
    <3> SUFFICES ASSUME NEW j \in 1..Len(w), j # 1 PROVE w[j].e # e
      OBVIOUS
    <3>1. j - 1 \in 1..Len(x) /\ (j - 1) + 1 = j
      BY <1>6
    <3>2. x[j - 1] = w[j]
      BY <1>2, <3>1
    <3> QED BY <1>3, <2>3, <3>1, <3>2
  <2>6. i = 1
    BY <2>2, <2>4, <2>5 DEF w
  <2>7. e = wire[c][1].e
    BY <2>2, <2>4, <2>6
  <2>8. \A j \in 1..Len(wire[c]) : j > 1 => wire[c][j].e # wire[c][1].e
    BY <2>5, <2>7 DEF w
  <2> QED BY <2>7, <2>8 DEF Newest
<1>10. 1 \in 1..Len(wire[c])
  BY <1>2 DEF w
<1> QED BY <1>4, <1>7, <1>8, <1>9, <1>10

-----------------------------------------------------------------------------
(* The graph at each step.                                                 *)

LEMMA AnswersAre ==
  ASSUME db \in [Endpoints -> Rows], NEW n
  PROVE  Routed(Answers(n).routes)
<1> DEFINE routed == {e \in Endpoints : n > 0 /\ db[e].route # None}
           routes == [e \in routed |-> db[e].route]
<1>1. Answers(n).routes = routes
  BY DEF Answers
<1>2. \A e \in routed : db[e].route \in Seq(Heard)
  <2> SUFFICES ASSUME NEW e \in routed PROVE db[e].route \in Seq(Heard)
    OBVIOUS
  <2>1. db[e] \in Rows /\ db[e].route # None
    OBVIOUS
  <2>2. db[e].route \in Found
    BY <2>1, RowHas
  <2> QED BY <2>2, FoundAre
<1>3. DOMAIN routes = routed /\ \A e \in routed : routes[e] = db[e].route
  OBVIOUS
<1> HIDE DEF routed, routes
<1> QED BY <1>1, <1>2, <1>3 DEF Routed

\* What a rebuild makes of what it has read.
LEMMA BuildsIs ==
  ASSUME db \in [Endpoints -> Rows], TasksInv, NEW t \in Tasks, Builds(t)
  PROVE  /\ rebuild \in Rebuilds /\ rebuild.rows \in RowsOf
         /\ \E routes, failed : /\ Routed(routes)
                                /\ graph' = Build(rebuild.rows, routes, failed)
<1>1. rebuild \in Rebuilds
  BY DEF Builds, TasksInv
<1>2. PICK n \in 0..2 : graph' = Build(rebuild.rows, Answers(n).routes, Answers(n).failed)
  BY DEF Builds
<1> QED BY <1>1, <1>2, AnswersAre, RebuildHas

\* How a path is laid.
LEMMA LayPathIs ==
  ASSUME TasksInv, NEW t \in Tasks, LayPath(t)
  PROVE  \/ UNCHANGED graph
         \/ \E e \in Endpoints : \E hops \in Seq(Heard) :
              graph' = Restitch(graph, e, hops) /\ e \notin graph.hidden
<1>1. tasks[t].e \in Endpoints /\ tasks[t].arg \in Found
  BY DEF LayPath, TasksInv, Proper
<1>2. tasks[t].arg \in Seq(Heard)
  BY <1>1, FoundAre
<1>3. \/ UNCHANGED graph
      \/ graph' = Restitch(graph, tasks[t].e, tasks[t].arg) /\ tasks[t].e \notin graph.hidden
  BY DEF LayPath
<1> QED BY <1>1, <1>2, <1>3

\* How a state is set.
LEMMA SetsIs ==
  ASSUME NEW e \in Endpoints, NEW up, Sets(e, up)
  PROVE  \/ UNCHANGED graph /\ e \in graph.hidden
         \/ \E state \in States : /\ graph' = SetStatus(graph, e, state)
                                  /\ state = "UP" <=> up
<1>1. "UP" \in States /\ "DOWN" \in States /\ "UP" # "DOWN"
  BY DEF States, Down
<1> QED BY <1>1 DEF Sets

GraphAs(g) ==
  /\ Shaped(g) /\ Lit(g) /\ Known(g) = Known(graph) /\ g.hidden = graph.hidden
  /\ g.parent = graph.parent

\* A step leaves the graph, lays a path, sets a state, or builds the graph.
LEMMA GraphSteps ==
  ASSUME db \in [Endpoints -> Rows], TasksInv, EventsInv, Shaped(graph), Lit(graph), [GNext]_gvars
  PROVE  \/ UNCHANGED graph
         \/ \E e \in Endpoints : \E hops \in Seq(Heard) :
              graph' = Restitch(graph, e, hops) /\ e \notin graph.hidden
         \/ \E c \in Channels : Handle(c)
         \/ \E t \in Tasks : Builds(t)
<1>1. CASE UNCHANGED graph
  BY <1>1
<1>2. \A t \in Tasks : LayPath(t) =>
         \/ UNCHANGED graph
         \/ \E e \in Endpoints : \E hops \in Seq(Heard) :
              graph' = Restitch(graph, e, hops) /\ e \notin graph.hidden
  BY LayPathIs
<1>3. CASE GNext
  <2>1. \A e \in Endpoints : Announce(e) \/ Commit(e) \/ Rollback(e) \/ FirstRow(e) \/ Diagnose(e)
          => UNCHANGED graph
    BY DEF Announce, Commit, Rollback, FirstRow, Diagnose
  <2>2. (\E c \in Channels : Lose(c)) \/ Done \/ EnqueueAll \/ Dequeue => UNCHANGED graph
    BY DEF Lose, Done, gvars, EnqueueAll, Dequeue
  <2>3. \A t \in Tasks : Reads(t) \/ SetParent(t) \/ Trace(t) \/ Store(t) \/ StoreFails(t)
                         \/ AskRebuild(t) => UNCHANGED graph
    BY DEF Reads, SetParent, Trace, Store, StoreFails, AskRebuild
  <2>4. (\E t \in Tasks, e \in Endpoints :
             \/ SetShown(t, e) \/ Delete(t, e) \/ AskRefresh(t, e)
             \/ \E p \in Endpoints : CheckParent(t, e, p)
             \/ \E p \in Endpoints \cup {None} : Create(t, e, p)) => UNCHANGED graph
    BY DEF SetShown, Delete, AskRefresh, CheckParent, Create
  <2> QED BY <1>2, <1>3, <2>1, <2>2, <2>3, <2>4 DEF GNext
<1>4. CASE UNCHANGED gvars
  BY <1>1, <1>4 DEF gvars
<1> QED BY <1>3, <1>4

LEMMA HandleGraph ==
  ASSUME EventsInv, Shaped(graph), Lit(graph), NEW c \in Channels, Handle(c)
  PROVE  /\ GraphAs(graph') /\ graph'.edges = graph.edges /\ graph'.routes = graph.routes
         /\ \A e \in Known(graph) :
              IF e = Head(wire[c]).e
                THEN graph'.state[Monitored(e)] = "UP" <=> Head(wire[c]).up
                ELSE graph'.state[Monitored(e)] = graph.state[Monitored(e)]
<1> DEFINE e == Head(wire[c]).e
           up == Head(wire[c]).up
<1>1. e \in Endpoints /\ Sets(e, up)
  BY EventIs DEF Handle
<1> HIDE DEF e, up
<1>2. CASE UNCHANGED graph /\ e \in graph.hidden
  <2>1. e \notin Known(graph)
    BY <1>2 DEF Shaped
  <2> QED BY <1>2, <2>1 DEF GraphAs, e
<1>3. ASSUME NEW state \in States, graph' = SetStatus(graph, e, state), state = "UP" <=> up
      PROVE  /\ GraphAs(graph') /\ graph'.edges = graph.edges /\ graph'.routes = graph.routes
             /\ \A f \in Known(graph) :
                  IF f = e THEN graph'.state[Monitored(f)] = "UP" <=> up
                  ELSE graph'.state[Monitored(f)] = graph.state[Monitored(f)]
  <2>1. LET h == graph'
        IN   /\ Shaped(h) /\ Lit(h) /\ Known(h) = Known(graph) /\ h.edges = graph.edges
             /\ h.hidden = graph.hidden /\ h.routes = graph.routes /\ h.parent = graph.parent
             /\ \A f \in Known(graph) :
                  h.state[Monitored(f)] = IF f = e THEN state ELSE graph.state[Monitored(f)]
    BY <1>3, SetStatusIs
  <2> QED BY <1>3, <2>1 DEF GraphAs
<1> QED BY <1>1, <1>2, <1>3, SetsIs DEF e, up

\* The graph keeps its shape, and no router is shown up over nothing.
LEMMA GraphStep ==
  ASSUME db \in [Endpoints -> Rows], TasksInv, EventsInv, Shaped(graph), Lit(graph), [GNext]_gvars
  PROVE  Shaped(graph') /\ Lit(graph')
<1>1. CASE UNCHANGED graph
  BY <1>1
<1>2. ASSUME NEW e \in Endpoints, NEW hops \in Seq(Heard), graph' = Restitch(graph, e, hops)
      PROVE  Shaped(graph') /\ Lit(graph')
  BY <1>2, RestitchIs
<1>3. ASSUME NEW c \in Channels, Handle(c) PROVE Shaped(graph') /\ Lit(graph')
  BY <1>3, HandleGraph DEF GraphAs
<1>4. ASSUME NEW t \in Tasks, Builds(t) PROVE Shaped(graph') /\ Lit(graph')
  <2>1. rebuild.rows \in RowsOf
    BY <1>4, BuildsIs
  <2>2. PICK routes, failed : Routed(routes) /\ graph' = Build(rebuild.rows, routes, failed)
    BY <1>4, BuildsIs
  <2> QED BY <2>1, <2>2, BuildIs
<1> QED BY <1>1, <1>2, <1>3, <1>4, GraphSteps

\* Nothing changes for an endpoint but what the rows say beside up or down.
LEMMA EventsKept ==
  ASSUME EventsInv, UNCHANGED <<wire, coming, astray, rebuild>>, Known(graph') = Known(graph),
         \A e \in Endpoints : Expected(e)' = Expected(e),
         \A f \in Known(graph) : graph'.state[Monitored(f)] = graph.state[Monitored(f)]
  PROVE  EventsInv'
<1>1. ASSUME NEW e \in Endpoints PROVE Told(e)' /\ Follows(e)' /\ WillFollow(e)'
  <2>1. Expected(e)' = Expected(e) /\ Told(e) /\ Follows(e) /\ WillFollow(e)
    BY DEF EventsInv
  <2>2. (Sound(e)' <=> Sound(e)) /\ (OnTheWay(e)' <=> OnTheWay(e))
    BY DEF Sound, OnTheWay
  <2>3. \A c, i : Newest(c, i)' <=> Newest(c, i)
    BY DEF Newest
  <2>4. Told(e)'
    BY <2>1, <2>2, <2>3 DEF Told
  <2>5. Follows(e)'
    BY <2>1, <2>2 DEF Follows
  <2>6. WillFollow(e)'
    BY <2>1, <2>2 DEF WillFollow
  <2> QED BY <2>4, <2>5, <2>6
<1> QED BY <1>1 DEF EventsInv, WireOK

LEMMA AnnounceEvents ==
  ASSUME db \in [Endpoints -> Rows], EventsInv, NEW e \in Endpoints, Announce(e)
  PROVE  EventsInv'
<1> DEFINE up == ~db[e].up
           v == [e |-> e, up |-> up]
<1>1. /\ wire' = [c \in Channels |-> Append(wire[c], v)] /\ coming' = [coming EXCEPT ![e] = up]
      /\ UNCHANGED <<db, graph, rebuild, astray>>
  BY DEF Announce
<1>2. v \in Events /\ v.e = e /\ v.up = up /\ up \in BOOLEAN
  BY RowHas DEF Events
<1> HIDE DEF up, v
<1>3. coming' \in [Endpoints -> BOOLEAN \cup {None}] /\ coming'[e] = up
      /\ \A f \in Endpoints : f # e => coming'[f] = coming[f]
  BY <1>1, <1>2 DEF EventsInv
<1>4. Expected(e)' = up /\ \A f \in Endpoints : f # e => Expected(f)' = Expected(f)
  BY <1>1, <1>2, <1>3, TopologyAssumption DEF Expected
<1>6. WireOK
  BY DEF EventsInv
<1>7. /\ WireOK'
      /\ \A c \in Channels : \A i \in 1..Len(wire'[c]) :
           \/ wire'[c][i] = v
           \/ /\ i \in 1..Len(wire[c]) /\ wire'[c][i] = wire[c][i]
              /\ Newest(c, i)' => Newest(c, i) /\ wire[c][i].e # v.e
      /\ \A f : OnTheWay(f) => OnTheWay(f)'
      /\ OnTheWay(e)'
  BY <1>1, <1>2, <1>6, WireLonger
<1>8. ASSUME NEW f \in Endpoints PROVE Told(f)' /\ Follows(f)' /\ WillFollow(f)'
  <2>1. Told(f) /\ Follows(f) /\ WillFollow(f)
    BY DEF EventsInv
  <2>2. Sound(f)' <=> Sound(f)
    BY <1>1 DEF Sound
  <2>3. ASSUME Sound(f)', NEW c \in Channels, NEW i \in 1..Len(wire'[c]), wire'[c][i].e = f,
               Newest(c, i)'
        PROVE  wire'[c][i].up = Expected(f)'
    <3>1. CASE wire'[c][i] = v
      BY <1>2, <1>4, <2>3, <3>1
    <3>2. CASE i \in 1..Len(wire[c]) /\ wire'[c][i] = wire[c][i] /\ Newest(c, i) /\ wire[c][i].e # v.e
      BY <1>2, <1>4, <2>1, <2>2, <2>3, <3>2 DEF Told
    <3> QED BY <1>7, <2>3, <3>1, <3>2
  <2>4. Told(f)'
    BY <2>3 DEF Told
  <2>5. Follows(f)'
    BY <1>1, <1>4, <1>7, <2>1 DEF Follows
  <2>6. WillFollow(f)'
    BY <1>1, <1>4, <1>7, <2>1, <2>2 DEF WillFollow
  <2> QED BY <2>4, <2>5, <2>6
<1> QED BY <1>3, <1>7, <1>8 DEF EventsInv

LEMMA CommitEvents ==
  ASSUME db \in [Endpoints -> Rows], EventsInv, NEW e \in Endpoints, Commit(e)
  PROVE  EventsInv'
<1>1. /\ coming[e] # None /\ db' = [db EXCEPT ![e].up = coming[e]]
      /\ coming' = [coming EXCEPT ![e] = None] /\ UNCHANGED <<graph, rebuild, wire, astray>>
  BY DEF Commit
<1>2. coming' \in [Endpoints -> BOOLEAN \cup {None}] /\ coming'[e] = None
      /\ \A f \in Endpoints : f # e => coming'[f] = coming[f]
  BY <1>1 DEF EventsInv
<1>3. db'[e].up = coming[e] /\ \A f \in Endpoints : f # e => db'[f] = db[f]
  <2>1. db[e] \in Rows
    OBVIOUS
  <2>2. [db[e] EXCEPT !.up = coming[e]].up = coming[e]
    BY <2>1 DEF Rows
  <2> QED BY <1>1, <2>2
<1>4. \A f \in Endpoints : Expected(f)' = Expected(f)
  BY <1>1, <1>2, <1>3 DEF Expected
<1>5. ASSUME NEW f \in Endpoints PROVE Told(f)' /\ Follows(f)' /\ WillFollow(f)'
  <2>1. Expected(f)' = Expected(f) /\ Told(f) /\ Follows(f) /\ WillFollow(f)
    BY <1>4 DEF EventsInv
  <2>2. (Sound(f)' <=> Sound(f)) /\ (OnTheWay(f)' <=> OnTheWay(f))
    BY <1>1 DEF Sound, OnTheWay
  <2>3. \A c, i : Newest(c, i)' <=> Newest(c, i)
    BY <1>1 DEF Newest
  <2>4. Told(f)'
    BY <1>1, <2>1, <2>2, <2>3 DEF Told
  <2>5. Follows(f)'
    BY <1>1, <2>1, <2>2 DEF Follows
  <2>6. WillFollow(f)'
    BY <1>1, <2>1, <2>2 DEF WillFollow
  <2> QED BY <2>4, <2>5, <2>6
<1> QED BY <1>1, <1>2, <1>5 DEF EventsInv, WireOK

\* The graph may miss the state of an endpoint: what is known of the others stays.
LEMMA StrayEvents ==
  ASSUME TasksInv, EventsInv, NEW e \in Endpoints, Stray(e), UNCHANGED graph, WireOK',
         \A f \in Endpoints : f # e => db'[f].up = db[f].up,
         coming' \in [Endpoints -> BOOLEAN \cup {None}],
         \A f \in Endpoints : f # e => coming'[f] = coming[f],
         \A d \in Channels : \A i \in 1..Len(wire'[d]) : \E j \in 1..Len(wire[d]) :
           wire'[d][i] = wire[d][j] /\ (Newest(d, i)' => Newest(d, j)),
         \A f \in Endpoints : f # e /\ OnTheWay(f) => OnTheWay(f)'
  PROVE  EventsInv'
<1>1. /\ astray' = astray \cup {e} /\ (rebuild = None <=> rebuild' = None)
      /\ rebuild # None => /\ rebuild'.clean = rebuild.clean \ {e}
                           /\ rebuild'.rows = rebuild.rows /\ rebuild'.dirty = rebuild.dirty
  BY Strayed
<1>2. ASSUME NEW f \in Endpoints PROVE Told(f)' /\ Follows(f)' /\ WillFollow(f)'
  <2>1. CASE f = e
    <3>1. ~Sound(f)' /\ f \in astray'
      BY <1>1, <2>1 DEF Sound
    <3> QED BY <3>1 DEF Told, Follows, WillFollow
  <2>2. CASE f # e
    <3>1. Expected(f)' = Expected(f) /\ (OnTheWay(f) => OnTheWay(f)') /\ (Sound(f)' <=> Sound(f))
      BY <1>1, <2>2 DEF Expected, Sound
    <3>2. Told(f) /\ Follows(f) /\ WillFollow(f)
      BY DEF EventsInv
    <3>3. ASSUME Sound(f), NEW c \in Channels, NEW i \in 1..Len(wire'[c]), wire'[c][i].e = f,
                 Newest(c, i)'
          PROVE  wire'[c][i].up = Expected(f)
      <4>1. PICK j \in 1..Len(wire[c]) : wire'[c][i] = wire[c][j] /\ (Newest(c, i)' => Newest(c, j))
        OBVIOUS
      <4> QED BY <3>2, <3>3, <4>1 DEF Told
    <3>4. Told(f)'
      BY <3>1, <3>3 DEF Told
    <3>5. Follows(f)'
      BY <1>1, <2>2, <3>1, <3>2 DEF Follows
    <3>6. WillFollow(f)'
      BY <1>1, <3>1, <3>2 DEF WillFollow
    <3> QED BY <3>4, <3>5, <3>6
  <2> QED BY <2>1, <2>2
<1> QED BY <1>2 DEF EventsInv

LEMMA RollbackEvents ==
  ASSUME TasksInv, EventsInv, NEW e \in Endpoints, Rollback(e)
  PROVE  EventsInv'
<1>1. Stray(e) /\ UNCHANGED <<db, graph, wire>> /\ coming' = [coming EXCEPT ![e] = None]
  BY DEF Rollback
<1>2. coming' \in [Endpoints -> BOOLEAN \cup {None}] /\ \A f \in Endpoints : f # e => coming'[f] = coming[f]
  BY <1>1 DEF EventsInv
<1>3. WireOK' /\ \A f : OnTheWay(f)' <=> OnTheWay(f)
  BY <1>1 DEF EventsInv, WireOK, OnTheWay
<1>4. \A d \in Channels : \A i \in 1..Len(wire'[d]) : \E j \in 1..Len(wire[d]) :
        wire'[d][i] = wire[d][j] /\ (Newest(d, i)' => Newest(d, j))
  BY <1>1 DEF Newest
<1> QED BY <1>1, <1>2, <1>3, <1>4, StrayEvents

LEMMA FirstRowEvents ==
  ASSUME db \in [Endpoints -> Rows], TasksInv, EventsInv, NEW e \in Endpoints, FirstRow(e)
  PROVE  EventsInv'
<1>1. PICK up \in BOOLEAN :
        db'[e].up = up /\ IF up = db[e].up THEN UNCHANGED <<rebuild, astray>> ELSE Stray(e)
  BY FirstRowIs
<1>2. /\ \A f \in Endpoints : f # e => db'[f].up = db[f].up
      /\ UNCHANGED <<graph, coming, wire>>
  BY FirstRowIs
<1>3. CASE up = db[e].up
  <2>1. \A f \in Endpoints : Expected(f)' = Expected(f)
    BY <1>1, <1>2, <1>3 DEF Expected
  <2> QED BY <1>1, <1>2, <1>3, <2>1, EventsKept
<1>4. CASE up # db[e].up
  <2>1. coming' \in [Endpoints -> BOOLEAN \cup {None}]
        /\ \A f \in Endpoints : f # e => coming'[f] = coming[f]
    BY <1>2 DEF EventsInv
  <2>2. WireOK' /\ \A f : OnTheWay(f)' <=> OnTheWay(f)
    BY <1>2 DEF EventsInv, WireOK, OnTheWay
  <2>3. \A d \in Channels : \A i \in 1..Len(wire'[d]) : \E j \in 1..Len(wire[d]) :
          wire'[d][i] = wire[d][j] /\ (Newest(d, i)' => Newest(d, j))
    BY <1>2 DEF Newest
  <2> QED BY <1>1, <1>2, <1>4, <2>1, <2>2, <2>3, StrayEvents
<1> QED BY <1>3, <1>4

LEMMA LoseEvents ==
  ASSUME TasksInv, EventsInv, NEW c \in Channels, Lose(c)
  PROVE  EventsInv'
<1> DEFINE e == Head(wire[c]).e
<1>1. /\ Stray(e) /\ UNCHANGED <<db, graph, coming>> /\ wire[c] # <<>>
      /\ wire' = [wire EXCEPT ![c] = Tail(wire[c])]
  BY DEF Lose
<1>2. e \in Endpoints /\ e = wire[c][1].e
  BY <1>1, EventIs
<1> HIDE DEF e
<1>3. WireOK /\ coming \in [Endpoints -> BOOLEAN \cup {None}]
  BY DEF EventsInv
<1>4. /\ WireOK'
      /\ \A d \in Channels : \A i \in 1..Len(wire'[d]) : \E j \in 1..Len(wire[d]) :
           wire'[d][i] = wire[d][j] /\ (Newest(d, i)' => Newest(d, j))
      /\ \A f : OnTheWay(f) /\ ~OnTheWay(f)' => f = e
  BY <1>1, <1>2, <1>3, WireShorter
<1> QED BY <1>1, <1>2, <1>3, <1>4, StrayEvents

LEMMA HandleEvents ==
  ASSUME TasksInv, EventsInv, Shaped(graph), Lit(graph), NEW c \in Channels, Handle(c)
  PROVE  EventsInv'
<1> DEFINE e == Head(wire[c]).e
           up == Head(wire[c]).up
<1>1. /\ Sets(e, up) /\ UNCHANGED <<db, coming, astray>> /\ wire[c] # <<>>
      /\ wire' = [wire EXCEPT ![c] = Tail(wire[c])]
  BY DEF Handle
<1>2. e \in Endpoints /\ e = wire[c][1].e /\ up = wire[c][1].up
  BY <1>1, EventIs
<1>3. /\ GraphAs(graph')
      /\ \A f \in Known(graph) :
           IF f = e THEN graph'.state[Monitored(f)] = "UP" <=> up
           ELSE graph'.state[Monitored(f)] = graph.state[Monitored(f)]
  BY HandleGraph
<1> HIDE DEF e, up
<1>4. WireOK /\ coming \in [Endpoints -> BOOLEAN \cup {None}]
  BY DEF EventsInv
<1>5. /\ WireOK'
      /\ \A d \in Channels : \A i \in 1..Len(wire'[d]) : \E j \in 1..Len(wire[d]) :
           wire'[d][i] = wire[d][j] /\ (Newest(d, i)' => Newest(d, j))
      /\ \A f : OnTheWay(f) /\ ~OnTheWay(f)' => f = e /\ Newest(c, 1)
      /\ 1 \in 1..Len(wire[c])
  BY <1>1, <1>2, <1>4, WireShorter
<1>6. /\ rebuild = None <=> rebuild' = None
      /\ rebuild # None => /\ e \in graph.hidden /\ rebuild'.dirty = rebuild.dirty \cup {e}
                           /\ rebuild'.rows = rebuild.rows /\ rebuild'.clean = rebuild.clean
  BY <1>1, <1>2, SetsKeeps
<1>7. ASSUME NEW f \in Endpoints PROVE Told(f)' /\ Follows(f)' /\ WillFollow(f)'
  <2>1. Told(f) /\ Follows(f) /\ WillFollow(f)
    BY DEF EventsInv
  <2>2. Expected(f)' = Expected(f) /\ (Sound(f)' <=> Sound(f))
    BY <1>1, <1>6 DEF Expected, Sound
  <2>3. ASSUME Sound(f), NEW d \in Channels, NEW i \in 1..Len(wire'[d]), wire'[d][i].e = f,
               Newest(d, i)'
        PROVE  wire'[d][i].up = Expected(f)
    <3>1. PICK j \in 1..Len(wire[d]) : wire'[d][i] = wire[d][j] /\ (Newest(d, i)' => Newest(d, j))
      BY <1>5
    <3> QED BY <2>1, <2>3, <3>1 DEF Told
  <2>4. Told(f)'
    BY <2>2, <2>3 DEF Told
  <2>5. Follows(f)'
    <3>1. Known(graph') = Known(graph) /\ UNCHANGED astray
      BY <1>1, <1>3 DEF GraphAs
    <3> SUFFICES ASSUME f \in Known(graph), f \notin astray, ~OnTheWay(f)'
                 PROVE  graph'.state[Monitored(f)] = "UP" <=> Expected(f)'
      BY <3>1 DEF Follows
    <3>2. CASE OnTheWay(f)
      <4>1. f = e /\ Newest(c, 1)
        BY <1>5, <3>2
      <4>2. Sound(f)
        BY DEF Sound
      <4>3. up = Expected(f)
        BY <1>2, <1>5, <2>1, <4>1, <4>2 DEF Told
      <4> QED BY <1>3, <2>2, <4>1, <4>3
    <3>3. CASE ~OnTheWay(f)
      <4>1. graph.state[Monitored(f)] = "UP" <=> Expected(f)
        BY <2>1, <3>3 DEF Follows
      <4>2. CASE f # e
        BY <1>3, <2>2, <4>1, <4>2
      <4>3. CASE f = e
        BY <1>2, <1>4, <1>5, <3>3, <4>3, OnTheWayIs
      <4> QED BY <4>2, <4>3
    <3> QED BY <3>2, <3>3
  <2>6. WillFollow(f)'
    <3>1. CASE f = e
      BY <1>6, <3>1 DEF WillFollow
    <3>2. CASE f # e
      <4>1. OnTheWay(f) => OnTheWay(f)'
        BY <1>5, <3>2
      <4> QED BY <1>6, <2>1, <2>2, <3>2, <4>1 DEF WillFollow
    <3> QED BY <3>1, <3>2
  <2> QED BY <2>4, <2>5, <2>6
<1> QED BY <1>1, <1>4, <1>5, <1>7 DEF EventsInv

LEMMA ReadsEvents ==
  ASSUME db \in [Endpoints -> Rows], EventsInv, NEW t, Reads(t)
  PROVE  EventsInv'
<1> DEFINE clean == {e \in Live : coming[e] = None /\ ~OnTheWay(e)}
           dirty == {e \in Live : coming[e] # None /\ ~OnTheWay(e)}
           seen == [e \in Live |-> db[e]]
<1>1. /\ UNCHANGED <<db, graph, coming, wire, astray>> /\ rebuild = None
      /\ \/ rebuild' = [by |-> t, ok |-> TRUE, rows |-> seen, clean |-> clean, dirty |-> dirty]
         \/ rebuild' = [by |-> t, ok |-> FALSE, rows |-> <<>>, clean |-> {}, dirty |-> {}]
  BY DEF Reads
<1>2. /\ \/ DOMAIN rebuild'.rows = Live /\ (\A e \in Live : rebuild'.rows[e] = db[e])
            /\ rebuild'.dirty = dirty
         \/ DOMAIN rebuild'.rows = {}
      /\ rebuild'.clean \subseteq clean
  <2>1. DOMAIN seen = Live /\ \A e \in Live : seen[e] = db[e]
    OBVIOUS
  <2>2. DOMAIN <<>> = {}
    OBVIOUS
  <2> HIDE DEF clean, dirty, seen
  <2> QED BY <1>1, <2>1, <2>2
<1>3. ASSUME NEW f \in Endpoints PROVE Told(f)' /\ Follows(f)' /\ WillFollow(f)'
  <2>1. Told(f) /\ Follows(f) /\ WillFollow(f)
    BY DEF EventsInv
  <2>2. Expected(f)' = Expected(f) /\ (OnTheWay(f)' <=> OnTheWay(f))
    BY <1>1 DEF Expected, OnTheWay
  <2>3. Sound(f)' => f \notin astray \/ ~OnTheWay(f)
    BY <1>1, <1>2 DEF Sound
  <2>4. \A d, i : Newest(d, i)' <=> Newest(d, i)
    BY <1>1 DEF Newest
  <2>5. Told(f)'
    <3> SUFFICES ASSUME Sound(f)', NEW d \in Channels, NEW i \in 1..Len(wire[d]),
                        wire[d][i].e = f, Newest(d, i)
                 PROVE  wire[d][i].up = Expected(f)
      BY <1>1, <2>2, <2>4 DEF Told
    <3>1. OnTheWay(f)
      BY OnTheWayIs DEF EventsInv
    <3>2. Sound(f)
      BY <2>3, <3>1 DEF Sound
    <3> QED BY <2>1, <3>2 DEF Told
  <2>6. Follows(f)'
    BY <1>1, <2>1, <2>2 DEF Follows
  <2>7. WillFollow(f)'
    <3> SUFFICES ASSUME f \in DOMAIN rebuild'.rows, f \notin rebuild'.dirty, ~OnTheWay(f)
                 PROVE  rebuild'.rows[f].up = Expected(f)'
      BY <2>2 DEF WillFollow
    <3>1. f \in Live /\ rebuild'.rows[f] = db[f] /\ f \notin dirty
      BY <1>2
    <3>2. coming[f] = None
      BY <3>1
    <3> QED BY <2>2, <3>1, <3>2 DEF Expected
  <2> QED BY <2>5, <2>6, <2>7
<1> QED BY <1>1, <1>3 DEF EventsInv, WireOK

LEMMA BuildsEvents ==
  ASSUME db \in [Endpoints -> Rows], TasksInv, EventsInv, NEW t \in Tasks, Builds(t)
  PROVE  EventsInv'
<1>1. /\ UNCHANGED <<db, coming, wire>> /\ rebuild' = None
      /\ astray' = (astray \ rebuild.clean) \cup rebuild.dirty
  BY DEF Builds
<1>2. rebuild # None /\ rebuild.rows \in RowsOf
  BY BuildsIs, TopologyAssumption
<1>3. PICK routes, failed : Routed(routes) /\ graph' = Build(rebuild.rows, routes, failed)
  BY BuildsIs
<1>4. /\ Known(graph') = Shown(rebuild.rows)
      /\ \A e \in Known(graph') : graph'.state[Monitored(e)] = "UP" <=> rebuild.rows[e].up
  <2>1. PICK seen \in RowsOf : seen = rebuild.rows
    BY <1>2
  <2>2. PICK g : g = graph'
    OBVIOUS
  <2>3. g = Build(seen, routes, failed) /\ Routed(routes)
    BY <1>3, <2>1, <2>2
  <2>4. Known(g) = Shown(seen)
        /\ \A e \in Shown(seen) : g.state[Monitored(e)] = "UP" <=> seen[e].up
    BY ONLY <2>3, BuildIs, seen \in RowsOf
  <2> QED BY <2>1, <2>2, <2>4
<1>5. \A e \in Known(graph') : e \in DOMAIN rebuild.rows /\ rebuild.rows[e].up \in BOOLEAN
  BY <1>2, <1>4, RowsAre DEF Shown
<1>6. ASSUME NEW f \in Endpoints PROVE Told(f)' /\ Follows(f)' /\ WillFollow(f)'
  <2>1. Told(f) /\ WillFollow(f)
    BY DEF EventsInv
  <2>2. Expected(f)' = Expected(f) /\ (OnTheWay(f)' <=> OnTheWay(f))
    BY <1>1 DEF Expected, OnTheWay
  <2>3. f \notin astray' => Sound(f) /\ f \notin rebuild.dirty
    BY <1>1, <1>2 DEF Sound
  <2>4. Sound(f)' => Sound(f)
    BY <1>1, <2>3 DEF Sound
  <2>5. \A d, i : Newest(d, i)' <=> Newest(d, i)
    BY <1>1 DEF Newest
  <2>6. Told(f)'
    BY <1>1, <2>1, <2>2, <2>4, <2>5 DEF Told
  <2>7. Follows(f)'
    <3> SUFFICES ASSUME f \in Known(graph'), f \notin astray', ~OnTheWay(f)
                 PROVE  graph'.state[Monitored(f)] = "UP" <=> Expected(f)
      BY <2>2 DEF Follows
    <3>1. rebuild.rows[f].up = Expected(f)
      BY <1>2, <1>5, <2>1, <2>3 DEF WillFollow
    <3> QED BY <1>4, <3>1
  <2>8. WillFollow(f)'
    BY <1>1 DEF WillFollow
  <2> QED BY <2>6, <2>7, <2>8
<1> QED BY <1>1, <1>6 DEF EventsInv, WireOK

\* But for a commit and the first row no step sets what a row says of up or down.
LEMMA UpKept ==
  ASSUME db \in [Endpoints -> Rows], TasksInv, [GNext]_gvars,
         ~ \E e \in Endpoints : Commit(e) \/ FirstRow(e)
  PROVE  \A f \in Endpoints : db'[f].up = db[f].up
<1>1. \A f \in Endpoints : db[f] \in Rows
  OBVIOUS
<1>2. ASSUME NEW row \in Rows, NEW x
      PROVE  /\ [row EXCEPT !.incident = x].up = row.up /\ [row EXCEPT !.parent = x].up = row.up
             /\ [row EXCEPT !.route = x].up = row.up /\ [row EXCEPT !.status = x].up = row.up
             /\ [row EXCEPT !.shown = x].up = row.up
  BY DEF Rows
<1>3. ASSUME NEW e \in Endpoints, NEW row, row.up = db[e].up, db' = [db EXCEPT ![e] = row]
      PROVE  \A f \in Endpoints : db'[f].up = db[f].up
  BY <1>3
<1>4. CASE UNCHANGED db
  BY <1>4
<1>5. ASSUME NEW e \in Endpoints, Diagnose(e) PROVE \A f \in Endpoints : db'[f].up = db[f].up
  <2>1. PICK hop : db' = [db EXCEPT ![e] = [db[e] EXCEPT !.incident = hop]]
    <3>1. PICK hop \in IF db[e].up THEN {None} ELSE Failures : db' = [db EXCEPT ![e].incident = hop]
      BY <1>5 DEF Diagnose
    <3> QED BY <3>1
  <2> QED BY <1>1, <1>2, <1>3, <2>1
<1>6. ASSUME NEW t \in Tasks, SetParent(t) PROVE \A f \in Endpoints : db'[f].up = db[f].up
  <2> DEFINE e == tasks[t].e
             arg == tasks[t].arg
  <2>1. e \in Endpoints
    BY <1>6 DEF SetParent, TasksInv, Proper
  <2>2. UNCHANGED db \/ db' = [db EXCEPT ![e] = [db[e] EXCEPT !.parent = arg]]
    BY <1>6 DEF SetParent
  <2> HIDE DEF e, arg
  <2>3. [db[e] EXCEPT !.parent = arg].up = db[e].up
    BY <1>1, <1>2, <2>1
  <2>4. CASE db' = [db EXCEPT ![e] = [db[e] EXCEPT !.parent = arg]]
    BY <1>3, <2>1, <2>3, <2>4
  <2> QED BY <1>4, <2>2, <2>4
<1>7. ASSUME NEW t \in Tasks, Store(t) PROVE \A f \in Endpoints : db'[f].up = db[f].up
  <2> DEFINE e == tasks[t].e
             arg == tasks[t].arg
  <2>1. e \in Endpoints
    BY <1>7 DEF Store, TasksInv, Proper
  <2>2. db' = [db EXCEPT ![e] = [db[e] EXCEPT !.route = arg]]
    BY <1>7 DEF Store
  <2> HIDE DEF e, arg
  <2> QED BY <1>1, <1>2, <1>3, <2>1, <2>2
<1>8. ASSUME NEW t \in Tasks, NEW e \in Endpoints, SetShown(t, e)
      PROVE  \A f \in Endpoints : db'[f].up = db[f].up
  <2>1. PICK x : db' = [db EXCEPT ![e] = [db[e] EXCEPT !.shown = x]]
    BY <1>8 DEF SetShown
  <2> QED BY <1>1, <1>2, <1>3, <2>1
<1>9. ASSUME NEW t \in Tasks, NEW e \in Endpoints, Delete(t, e)
      PROVE  \A f \in Endpoints : db'[f].up = db[f].up
  <2>1. db' = [db EXCEPT ![e] = [db[e] EXCEPT !.status = "DELETED"]]
    BY <1>9 DEF Delete
  <2> QED BY <1>1, <1>2, <1>3, <2>1
<1>10. ASSUME NEW t \in Tasks, NEW e \in Endpoints, NEW p \in Endpoints \cup {None}, Create(t, e, p)
       PROVE  \A f \in Endpoints : db'[f].up = db[f].up
  <2> DEFINE one == [db[e] EXCEPT !.status = "ACTIVE"]
             two == [one EXCEPT !.shown = TRUE]
             row == [two EXCEPT !.parent = p]
  <2>1. db' = [db EXCEPT ![e] = row]
    BY <1>10 DEF Create
  <2>2. one \in Rows /\ one.up = db[e].up
    BY <1>1, <1>2, RowWith
  <2> HIDE DEF one
  <2>3. two \in Rows /\ two.up = one.up
    BY <1>2, <2>2, RowWith
  <2> HIDE DEF two
  <2>4. row.up = two.up
    BY <1>2, <2>3
  <2> HIDE DEF row
  <2> QED BY <1>3, <2>1, <2>2, <2>3, <2>4
<1>11. CASE UNCHANGED gvars
  BY <1>4, <1>11 DEF gvars
<1>12. CASE GNext
  <2>1. \/ UNCHANGED db \/ \E e \in Endpoints : Commit(e) \/ Diagnose(e)
        \/ \E t \in Tasks : SetParent(t) \/ Store(t)
        \/ \E t \in Tasks, e \in Endpoints : SetShown(t, e) \/ Delete(t, e)
        \/ \E t \in Tasks, e \in Endpoints : \E p \in Endpoints \cup {None} : Create(t, e, p)
    BY <1>12 DEF GNext, Announce, Rollback, Handle, Lose, Reads, Builds, Trace, StoreFails, LayPath,
                 AskRebuild, AskRefresh, CheckParent, EnqueueAll, Dequeue, Done, gvars
  <2> QED BY <1>4, <1>5, <1>6, <1>7, <1>8, <1>9, <1>10, <2>1
<1> QED BY <1>11, <1>12

\* Every step keeps the graph, the events and the rows in agreement.
LEMMA EventsStep ==
  ASSUME db \in [Endpoints -> Rows], TasksInv, QueueInv, EventsInv, Shaped(graph), Lit(graph),
         [GNext]_gvars
  PROVE  EventsInv'
<1> DEFINE Apart == (\E e \in Endpoints : Announce(e) \/ Commit(e) \/ Rollback(e) \/ FirstRow(e))
                    \/ (\E c \in Channels : Handle(c) \/ Lose(c))
                    \/ (\E t \in Tasks : Reads(t) \/ Builds(t))
<1>1. CASE Apart
  <2>1. ASSUME NEW e \in Endpoints, Announce(e) \/ Commit(e) \/ Rollback(e) \/ FirstRow(e)
        PROVE  EventsInv'
    BY <2>1, AnnounceEvents, CommitEvents, RollbackEvents, FirstRowEvents
  <2>2. ASSUME NEW c \in Channels, Handle(c) \/ Lose(c) PROVE EventsInv'
    BY <2>2, HandleEvents, LoseEvents
  <2>3. ASSUME NEW t \in Tasks, Reads(t) \/ Builds(t) PROVE EventsInv'
    BY <2>3, ReadsEvents, BuildsEvents
  <2> QED BY <1>1, <2>1, <2>2, <2>3
<1>2. CASE ~Apart
  <2>1. UNCHANGED <<wire, coming, astray, rebuild>>
    BY <1>2 DEF GNext, gvars, Diagnose, SetParent, Trace, Store, StoreFails, LayPath, AskRebuild,
                SetShown, Delete, AskRefresh, CheckParent, Create, EnqueueAll, Dequeue, Done
  <2>2. \A e \in Endpoints : Expected(e)' = Expected(e)
    BY <1>2, <2>1, UpKept DEF Expected
  <2>3. /\ Known(graph') = Known(graph)
        /\ \A f \in Known(graph) : graph'.state[Monitored(f)] = graph.state[Monitored(f)]
    <3>1. CASE UNCHANGED graph
      BY <3>1
    <3>2. ASSUME NEW e \in Endpoints, NEW hops \in Seq(Heard), graph' = Restitch(graph, e, hops)
          PROVE  /\ Known(graph') = Known(graph)
                 /\ \A f \in Known(graph) : graph'.state[Monitored(f)] = graph.state[Monitored(f)]
      BY <3>2, RestitchIs
    <3> QED BY <1>2, <3>1, <3>2, GraphSteps
  <2> QED BY <2>1, <2>2, <2>3, EventsKept
<1> QED BY <1>1, <1>2

-----------------------------------------------------------------------------
(* From the start on.                                                      *)

CoreInv ==
  /\ db \in [Endpoints -> Rows] /\ TasksInv /\ QueueInv /\ EventsInv
  /\ Shaped(graph) /\ Lit(graph)

LEMMA InitRows ==
  ASSUME GInit
  PROVE  /\ db \in [Endpoints -> Rows]
         /\ \E seen \in RowsOf : /\ \A e \in DOMAIN seen : e \in Endpoints /\ seen[e] = db[e]
                                 /\ \E routes, failed : Routed(routes)
                                                         /\ graph = Build(seen, routes, failed)
<1>1. PICK new \in SUBSET Unborn, up \in [Endpoints -> BOOLEAN] :
        db = [e \in Endpoints |->
                [status |-> IF e \in new THEN "ABSENT" ELSE "ACTIVE", shown |-> TRUE,
                 parent |-> None, event |-> e \notin new, up |-> e \in new \/ up[e],
                 route |-> None, incident |-> None]]
  BY DEF GInit
<1>2. db \in [Endpoints -> Rows]
  BY <1>1 DEF Rows
<1> DEFINE seen == [e \in Live |-> db[e]]
<1>3. seen \in RowsOf /\ \A e \in DOMAIN seen : e \in Endpoints /\ seen[e] = db[e]
  <2>1. Live \in SUBSET Endpoints
    BY DEF Live
  <2>2. seen \in [Live -> Rows] /\ \A e \in DOMAIN seen : e \in Endpoints /\ seen[e] = db[e]
    BY <1>2, <2>1
  <2> QED BY <2>1, <2>2 DEF RowsOf
<1>4. Routed(<<>>)
  <2>1. DOMAIN <<>> = {}
    OBVIOUS
  <2> QED BY <2>1 DEF Routed
<1> QED BY <1>2, <1>3, <1>4 DEF GInit

LEMMA CoreInit == ASSUME GInit PROVE CoreInv
<1>0. Consumer \in Tasks
  BY DEF Tasks
<1>1. db \in [Endpoints -> Rows]
  BY InitRows
<1>6. PICK seen \in RowsOf : /\ \A e \in DOMAIN seen : e \in Endpoints /\ seen[e] = db[e]
                            /\ \E routes, failed : Routed(routes)
                                                    /\ graph = Build(seen, routes, failed)
  BY InitRows
<1>2. PICK routes, failed : Routed(routes) /\ graph = Build(seen, routes, failed)
  BY <1>6
<1>3. \A t \in Tasks : tasks[t] = Idle
  BY DEF GInit
<1>4. TasksInv
  <2>1. Idle \in {job \in Jobs : Proper(job)} /\ Idle.at # "building"
    BY JobsAre DEF GoodJobs
  <2>2. tasks = [t \in Tasks |-> Idle] /\ rebuild = None
    BY DEF GInit
  <2> QED BY <1>3, <2>1, <2>2 DEF TasksInv
<1>5. QueueInv
  <2>1. tasks[Consumer].at = "idle" /\ tasks[Consumer].e = None
    BY <1>0, <1>3, JobsAre
  <2>2. queue = <<>> /\ discovering = {}
    BY DEF GInit
  <2>3. queue \in Seq(Endpoints) /\ Len(queue) = 0 /\ 1..Len(queue) = {}
    BY <2>2
  <2> QED BY <2>1, <2>2, <2>3 DEF QueueInv
<1>7. PICK g : g = graph
  OBVIOUS
<1>8. g = Build(seen, routes, failed) /\ Routed(routes)
  BY <1>2, <1>7
<1>9. /\ Shaped(g) /\ Lit(g) /\ Known(g) = Shown(seen)
      /\ \A e \in Shown(seen) : g.state[Monitored(e)] = "UP" <=> seen[e].up
  BY ONLY <1>8, BuildIs, seen \in RowsOf
<1>10. EventsInv
  <2>1. coming = [e \in Endpoints |-> None] /\ wire = [c \in Channels |-> <<>>] /\ rebuild = None
    BY DEF GInit
  <2>2. WireOK /\ \A c \in Channels : 1..Len(wire[c]) = {}
    <3>1. <<>> \in Seq(Events) /\ Len(<<>>) = 0 /\ 1..0 = {}
      OBVIOUS
    <3> DEFINE w == <<>>
    <3>2. w \in Seq(Events) /\ 1..Len(w) = {} /\ wire = [c \in Channels |-> w]
      BY <2>1, <3>1
    <3> HIDE DEF w
    <3> QED BY <3>2 DEF WireOK
  <2>3. ASSUME NEW e \in Endpoints PROVE Told(e) /\ Follows(e) /\ WillFollow(e)
    <3>1. Told(e)
      BY <2>2 DEF Told
    <3>2. Expected(e) = db[e].up
      BY <2>1 DEF Expected
    <3>3. Follows(e)
      <4>1. Shown(seen) \subseteq DOMAIN seen
        BY DEF Shown
      <4> QED BY <1>6, <1>7, <1>9, <3>2, <4>1 DEF Follows
    <3>4. WillFollow(e)
      BY <2>1 DEF WillFollow
    <3> QED BY <3>1, <3>3, <3>4
  <2> QED BY <2>1, <2>2, <2>3 DEF EventsInv
<1> QED BY <1>1, <1>4, <1>5, <1>7, <1>9, <1>10 DEF CoreInv

LEMMA CoreStep == ASSUME CoreInv, [GNext]_gvars PROVE CoreInv'
<1>1. /\ db \in [Endpoints -> Rows] /\ TasksInv /\ QueueInv /\ EventsInv
      /\ Shaped(graph) /\ Lit(graph) /\ coming \in [Endpoints -> BOOLEAN \cup {None}]
  BY DEF CoreInv, EventsInv
<1>2. db' \in [Endpoints -> Rows]
  BY <1>1, RowsStep
<1>3. TasksInv'
  BY <1>1, TasksStep
<1>4. QueueInv'
  BY <1>1, QueueStep
<1>5. EventsInv'
  BY <1>1, EventsStep
<1>6. Shaped(graph') /\ Lit(graph')
  BY <1>1, GraphStep
<1> QED BY <1>2, <1>3, <1>4, <1>5, <1>6 DEF CoreInv

\* Rows, graph, events, tasks and queue are, at every step, what the code takes
\* them to be: TypeOK, which TLC checks, follows from it.
THEOREM TopologyTypes == GSpec => []TypeOK
<1>1. CoreInv => TypeOK
  <2> SUFFICES ASSUME CoreInv PROVE TypeOK
    OBVIOUS
  <2>1. db \in [Endpoints -> Rows] /\ coming \in [Endpoints -> BOOLEAN \cup {None}]
    BY DEF CoreInv, EventsInv
  <2>2. /\ graph.state \in [DOMAIN graph.state -> States] /\ Root \in DOMAIN graph.state
        /\ EndsOf(graph.edges) \subseteq DOMAIN graph.state
        /\ Known(graph) \cap graph.hidden = {} /\ DOMAIN graph.parent = Known(graph)
    BY DEF CoreInv, Shaped
  <2>3. QueueInv
    BY DEF CoreInv
  <2>4. queue \in Seq(Endpoints) /\ DOMAIN queue = 1..Len(queue)
    BY <2>3 DEF QueueInv
  <2>5. ToSet(queue) = {queue[i] : i \in 1..Len(queue)}
    BY <2>4 DEF ToSet
  <2>6. IsInjective(queue)
    BY <2>3, <2>4 DEF IsInjective, QueueInv
  <2>7. tasks[Consumer].e \notin ToSet(queue)
    BY <2>3, <2>5 DEF QueueInv
  <2>8. discovering = ToSet(queue) \cup (IF tasks[Consumer].at = "idle" THEN {}
                                         ELSE {tasks[Consumer].e})
    BY <2>3, <2>5 DEF QueueInv
  <2> QED BY <2>1, <2>2, <2>6, <2>7, <2>8 DEF TypeOK
<1> QED BY <1>1, CoreInit, CoreStep, PTL DEF GSpec

\* When no event or commit is outstanding, an endpoint is shown up in the graph
\* exactly when its row says so, whatever events, commits, rebuilds and paths came
\* in between, but for the endpoints gone astray: a transition rolled back, an event
\* lost, a first row of DOWN, which nobody is told (create_initial_event), a row read
\* between announcement and commit.  And a router with nothing up below it is never
\* shown up (update_node_status, full_rebuild, update_endpoint_path,
\* _propagate_inferred_down).
THEOREM TopologyFollows == GSpec => []GraphFollows
<1>1. CoreInv => GraphFollows
  <2> SUFFICES ASSUME CoreInv PROVE GraphFollows
    OBVIOUS
  <2>1. ASSUME NEW e \in Known(graph) \ astray, coming[e] = None, ~OnTheWay(e)
        PROVE  graph.state[Monitored(e)] = "UP" <=> db[e].up
    <3>1. e \in Endpoints
      BY DEF Known
    <3>2. Follows(e) /\ Expected(e) = db[e].up
      BY <2>1, <3>1 DEF CoreInv, EventsInv, Expected
    <3> QED BY <2>1, <3>2 DEF Follows
  <2>2. Lit(graph)
    BY DEF CoreInv
  <2> QED BY <2>1, <2>2 DEF GraphFollows, Lit
<1> QED BY <1>1, CoreInit, CoreStep, PTL DEF GSpec

-----------------------------------------------------------------------------
(* Manual parents.                                                         *)

\* The parents above some endpoints, when there are finitely many.
LEMMA AboveIs ==
  ASSUME NEW par, IsFiniteSet(DOMAIN par), NEW start \in SUBSET (DOMAIN par)
  PROVE  /\ start \subseteq Reach(Above(par), start)
         /\ Reach(Above(par), start) \subseteq DOMAIN par
         /\ ClosedUnder(Above(par), Reach(Above(par), start))
         /\ \A C : start \subseteq C /\ ClosedUnder(Above(par), C) => Reach(Above(par), start) \subseteq C
<1>1. EndsOf(Above(par)) \subseteq DOMAIN par
  BY DEF EndsOf, Above
<1> QED BY <1>1, ReachIs

\* What it is to be closed under parents.
LEMMA AboveClosed ==
  ASSUME NEW par, NEW C
  PROVE  ClosedUnder(Above(par), C)
           <=> \A x \in DOMAIN par : x \in C /\ par[x] \in DOMAIN par => par[x] \in C
<1>1. ASSUME ClosedUnder(Above(par), C), NEW x \in DOMAIN par, x \in C, par[x] \in DOMAIN par
      PROVE  par[x] \in C
  <2> DEFINE l == <<x, par[x]>>
  <2>1. l \in Above(par) /\ l[1] = x /\ l[2] = par[x]
    BY <1>1 DEF Above
  <2> HIDE DEF l
  <2> QED BY <1>1, <2>1 DEF ClosedUnder
<1>2. ASSUME \A x \in DOMAIN par : x \in C /\ par[x] \in DOMAIN par => par[x] \in C,
             NEW l \in Above(par), l[1] \in C
      PROVE  l[2] \in C
  BY <1>2 DEF Above
<1> QED BY <1>1, <1>2 DEF ClosedUnder

\* Fewer endpoints with their parents make no cycle.
LEMMA LooplessPart ==
  ASSUME NEW par, NEW part, IsFiniteSet(DOMAIN par), DOMAIN part \subseteq DOMAIN par,
         \A e \in DOMAIN part : part[e] = par[e], Loopless(par)
  PROVE  Loopless(part)
<1> SUFFICES ASSUME NEW c \in DOMAIN part, part[c] \in DOMAIN part,
                    c \in Reach(Above(part), {part[c]})
             PROVE  FALSE
  BY DEF Loopless
<1> DEFINE R == Reach(Above(par), {par[c]})
<1>1. c \in DOMAIN par /\ par[c] \in DOMAIN par /\ part[c] = par[c]
  OBVIOUS
<1>2. {par[c]} \subseteq R /\ ClosedUnder(Above(par), R)
  BY <1>1, AboveIs
<1>3. IsFiniteSet(DOMAIN part)
  BY FS_Subset
<1> HIDE DEF R
<1>4. ClosedUnder(Above(part), R)
  BY <1>2 DEF ClosedUnder, Above
<1>5. c \in R
  BY <1>1, <1>2, <1>3, <1>4, AboveIs
<1> QED BY <1>1, <1>5 DEF Loopless, R

\* A parent that is not below makes no cycle.
LEMMA LooplessLink ==
  ASSUME NEW par, NEW then, IsFiniteSet(DOMAIN par), DOMAIN then = DOMAIN par, Loopless(par),
         NEW e \in DOMAIN par, \A x \in DOMAIN par : x # e => then[x] = par[x],
         then[e] \in DOMAIN par => e \notin Reach(Above(par), {then[e]})
  PROVE  Loopless(then)
<1> SUFFICES ASSUME NEW c \in DOMAIN par, then[c] \in DOMAIN par,
                    c \in Reach(Above(then), {then[c]})
             PROVE  FALSE
  BY DEF Loopless
<1> DEFINE A == IF then[e] \in DOMAIN par THEN Reach(Above(par), {then[e]}) ELSE {}
           R == Reach(Above(par), {par[c]})
<1>1. /\ ClosedUnder(Above(par), A) /\ e \notin A
      /\ then[e] \in DOMAIN par => then[e] \in A
  <2>1. CASE then[e] \in DOMAIN par
    BY <2>1, AboveIs
  <2>2. CASE then[e] \notin DOMAIN par
    BY <2>2 DEF ClosedUnder
  <2> QED BY <2>1, <2>2
<1>2. ASSUME NEW C, then[c] \in C, ClosedUnder(Above(then), C) PROVE c \in C
  BY <1>2, AboveIs
<1>3. c # e => /\ par[c] \in DOMAIN par /\ then[c] = par[c]
               /\ par[c] \in R /\ ClosedUnder(Above(par), R) /\ c \notin R
  BY AboveIs DEF Loopless
<1> HIDE DEF A, R
<1>4. \A x \in DOMAIN par : x \in A /\ par[x] \in DOMAIN par => par[x] \in A
  BY <1>1, AboveClosed
<1>5. c # e => \A x \in DOMAIN par : x \in R /\ par[x] \in DOMAIN par => par[x] \in R
  BY <1>3, AboveClosed
<1>6. CASE c = e
  <2>1. \A x \in DOMAIN then : x \in A /\ then[x] \in DOMAIN then => then[x] \in A
    BY <1>1, <1>4
  <2>2. ClosedUnder(Above(then), A)
    BY <2>1, AboveClosed
  <2> QED BY <1>1, <1>2, <1>6, <2>2
<1>7. CASE c # e /\ c \in A
  <2>1. \A x \in DOMAIN then : x \in A \cap R /\ then[x] \in DOMAIN then => then[x] \in A \cap R
    BY <1>1, <1>4, <1>5, <1>7
  <2>2. ClosedUnder(Above(then), A \cap R)
    BY <2>1, AboveClosed
  <2>3. then[c] \in A \cap R
    BY <1>3, <1>4, <1>7
  <2> QED BY <1>2, <1>3, <1>7, <2>2, <2>3
<1>8. CASE c # e /\ c \notin A
  <2>1. \A x \in DOMAIN then : x \in A \cup R /\ then[x] \in DOMAIN then => then[x] \in A \cup R
    BY <1>1, <1>4, <1>5, <1>8
  <2>2. ClosedUnder(Above(then), A \cup R)
    BY <2>1, AboveClosed
  <2>3. then[c] \in A \cup R
    BY <1>3, <1>8
  <2> QED BY <1>2, <1>3, <1>8, <2>2, <2>3
<1> QED BY <1>6, <1>7, <1>8

\* The manual parents that the rows name.
LEMMA ParentsAre ==
  ASSUME NEW seen
  PROVE  DOMAIN Parents(seen) = DOMAIN seen /\ \A e \in DOMAIN seen : Parents(seen)[e] = seen[e].parent
BY DEF Parents

LEMMA CycleIs ==
  ASSUME db \in [Endpoints -> Rows], NEW e, NEW p
  PROVE  ParentCycle(e, p) <=> e \in Reach(Above(Parents(db)), {p})
<1>1. DOMAIN Parents(db) = Endpoints /\ \A x \in Endpoints : Parents(db)[x] = db[x].parent
  BY ParentsAre
<1>2. {l \in Endpoints \X Endpoints : db[l[1]].parent = l[2]} = Above(Parents(db))
  BY <1>1 DEF Above
<1> QED BY <1>2 DEF ParentCycle

\* A change of parent that was checked is either overtaken or as it was.
LinksStay ==
  \A u \in Tasks : tasks'[u].at = "linking" => tasks'[u].overtaken \/ tasks'[u] = tasks[u]

LEMMA LinksStep ==
  ASSUME db \in [Endpoints -> Rows], TasksInv, QueueInv, EventsInv, [GNext]_gvars,
         ~ \E t \in Tasks, e \in Endpoints : \E p \in Endpoints : CheckParent(t, e, p)
  PROVE  LinksStay
<1>1. CASE UNCHANGED tasks
  BY <1>1 DEF LinksStay
<1>2. ASSUME NEW t \in Tasks, NEW job, job.at # "linking", tasks' = [tasks EXCEPT ![t] = job]
      PROVE  LinksStay
  <2>1. DOMAIN tasks = Tasks
    BY DEF TasksInv
  <2> QED BY <1>2, <2>1 DEF LinksStay
<1>3. ASSUME NEW t \in Tasks, NEW job \in GoodJobs, job.at # "linking",
             tasks' = [Overtaking(t) EXCEPT ![t] = job]
      PROVE  LinksStay
  <2>1. /\ tasks'[t] = job
        /\ \A u \in Tasks \ {t} : /\ tasks'[u].at = tasks[u].at
                                  /\ tasks[u].at = "linking" => tasks'[u].overtaken
    BY <1>3, OvertakingIs
  <2> QED BY <1>3, <2>1 DEF LinksStay
<1>4. Idle.at # "linking" /\ [Idle EXCEPT !.at = "rebuild"].at # "linking" /\ Idle \in GoodJobs
      /\ [Idle EXCEPT !.at = "rebuild"] \in GoodJobs
  BY JobsAre
<1>5. ASSUME NEW t \in Tasks, Reads(t) PROVE LinksStay
  <2>1. tasks' = [tasks EXCEPT ![t] = [tasks[t] EXCEPT !.at = "building"]]
    BY <1>5 DEF Reads, Step
  <2>2. [tasks[t] EXCEPT !.at = "building"].at # "linking"
    BY TaskWas, JobWith
  <2> QED BY <1>2, <2>1, <2>2
<1>6. ASSUME NEW t \in Tasks, Builds(t) \/ StoreFails(t) PROVE LinksStay
  <2>1. tasks' = [tasks EXCEPT ![t] = Idle]
    BY <1>6 DEF Builds, StoreFails, Leave, End
  <2> QED BY <1>2, <1>4, <2>1
<1>7. ASSUME NEW t \in Tasks, SetParent(t) PROVE LinksStay
  BY <1>3, <1>4, <1>7 DEF SetParent
<1>8. ASSUME NEW t \in Tasks, NEW e \in Endpoints, NEW p, Create(t, e, p) PROVE LinksStay
  <2>1. PICK here \in BOOLEAN : tasks' = [Overtaking(t) EXCEPT ![t] =
          IF here THEN [Idle EXCEPT !.at = "tracing", !.e = e] ELSE Idle]
    BY <1>8 DEF Create
  <2>2. CASE here
    BY <1>3, <2>1, <2>2, JobsAre
  <2>3. CASE ~here
    BY <1>3, <1>4, <2>1, <2>3
  <2> QED BY <2>2, <2>3
<1>9. ASSUME NEW t \in Tasks, NEW e \in Endpoints, NEW next \in {"path", "rebuild"},
             Traced(t, e, next)
      PROVE  LinksStay
  <2>1. PICK job \in GoodJobs : job.at = "traced" /\ tasks' = [tasks EXCEPT ![t] = job]
    BY <1>9, TracedIs
  <2> QED BY <1>2, <2>1
<1>10. ASSUME NEW t \in Tasks, Trace(t) PROVE LinksStay
  <2>1. tasks[t].e \in Endpoints /\ Traced(t, tasks[t].e, "rebuild")
    BY <1>10 DEF Trace, TasksInv, Proper
  <2> QED BY <1>9, <2>1
<1>11. ASSUME NEW t \in Tasks, Store(t) PROVE LinksStay
  <2>1. tasks[t].at = "traced" /\ tasks[t] \in GoodJobs
        /\ (tasks' = [tasks EXCEPT ![t] = [tasks[t] EXCEPT !.at = tasks[t].then]]
            \/ tasks' = [tasks EXCEPT ![t] = Idle])
    BY <1>11, TaskWas DEF Store, Step, End, Afterwards
  <2>2. [tasks[t] EXCEPT !.at = tasks[t].then].at # "linking"
    BY <2>1, JobWith
  <2> QED BY <1>2, <1>4, <2>1, <2>2
<1>12. ASSUME NEW t \in Tasks, LayPath(t) PROVE LinksStay
  <2>1. tasks[t] \in GoodJobs
        /\ (tasks' = [tasks EXCEPT ![t] = [tasks[t] EXCEPT !.at = "rebuild"]]
            \/ tasks' = [tasks EXCEPT ![t] = Idle])
    BY <1>12, TaskWas DEF LayPath, Step, End, Leave
  <2>2. [tasks[t] EXCEPT !.at = "rebuild"].at # "linking"
    BY <2>1, JobWith
  <2> QED BY <1>2, <1>4, <2>1, <2>2
<1>13. ASSUME NEW t \in Tasks, AskRebuild(t) PROVE LinksStay
  <2>1. tasks' = [tasks EXCEPT ![t] = [Idle EXCEPT !.at = "rebuild"]]
    BY <1>13 DEF AskRebuild, Task
  <2> QED BY <1>2, <1>4, <2>1
<1>14. ASSUME NEW t \in Tasks, NEW e \in Endpoints, SetShown(t, e) \/ Delete(t, e) PROVE LinksStay
  <2>1. PICK job \in GoodJobs : job.at \in {"idle", "rebuild"} /\ tasks' = [tasks EXCEPT ![t] = job]
    BY <1>14, AfterwardsIs DEF SetShown, Delete
  <2> QED BY <1>2, <2>1
<1>15. ASSUME NEW t \in Tasks, NEW e \in Endpoints, AskRefresh(t, e) PROVE LinksStay
  BY <1>9, <1>15 DEF AskRefresh
<1>16. ASSUME Dequeue PROVE LinksStay
  <2>1. Consumer \in Tasks /\ Head(queue) \in Endpoints /\ Traced(Consumer, Head(queue), "path")
    BY <1>16 DEF Dequeue, QueueInv, Tasks
  <2> QED BY <1>9, <2>1
<1>17. CASE GNext
  <2>1. \/ UNCHANGED tasks
        \/ \E t \in Tasks :
             \/ Reads(t) \/ Builds(t) \/ SetParent(t) \/ Trace(t) \/ Store(t) \/ StoreFails(t)
             \/ LayPath(t) \/ AskRebuild(t)
        \/ \E t \in Tasks, e \in Endpoints :
             \/ SetShown(t, e) \/ Delete(t, e) \/ AskRefresh(t, e)
             \/ \E p \in Endpoints \cup {None} : Create(t, e, p)
        \/ Dequeue
    BY <1>17 DEF GNext, Announce, Commit, Rollback, FirstRow, Diagnose, Handle, Lose, EnqueueAll, Done,
                 gvars
  <2>2. CASE \E t \in Tasks :
             \/ Reads(t) \/ Builds(t) \/ SetParent(t) \/ Trace(t) \/ Store(t) \/ StoreFails(t)
             \/ LayPath(t) \/ AskRebuild(t)
    BY <1>5, <1>6, <1>7, <1>10, <1>11, <1>12, <1>13, <2>2
  <2>3. CASE \E t \in Tasks, e \in Endpoints :
             \/ SetShown(t, e) \/ Delete(t, e) \/ AskRefresh(t, e)
             \/ \E p \in Endpoints \cup {None} : Create(t, e, p)
    BY <1>8, <1>14, <1>15, <2>3
  <2> QED BY <1>1, <1>16, <2>1, <2>2, <2>3
<1>18. CASE UNCHANGED gvars
  BY <1>1, <1>18 DEF gvars
<1> QED BY <1>17, <1>18

\* But for SetParent and Create no step changes a parent.
LEMMA ParentKept ==
  ASSUME db \in [Endpoints -> Rows], TasksInv, [GNext]_gvars,
         ~ \E t \in Tasks : SetParent(t),
         ~ \E t \in Tasks, e \in Endpoints : \E p \in Endpoints \cup {None} : Create(t, e, p)
  PROVE  \A f \in Endpoints : db'[f].parent = db[f].parent
<1>1. \A f \in Endpoints : db[f] \in Rows
  OBVIOUS
<1>2. ASSUME NEW row \in Rows, NEW x
      PROVE  /\ [row EXCEPT !.incident = x].parent = row.parent
             /\ [row EXCEPT !.route = x].parent = row.parent
             /\ [row EXCEPT !.status = x].parent = row.parent
             /\ [row EXCEPT !.shown = x].parent = row.parent
             /\ [row EXCEPT !.up = x].parent = row.parent
  BY DEF Rows
<1>3. ASSUME NEW e \in Endpoints, NEW row, row.parent = db[e].parent, db' = [db EXCEPT ![e] = row]
      PROVE  \A f \in Endpoints : db'[f].parent = db[f].parent
  BY <1>3
<1>4. CASE UNCHANGED db
  BY <1>4
<1>5. ASSUME NEW e \in Endpoints, Diagnose(e)
      PROVE  \A f \in Endpoints : db'[f].parent = db[f].parent
  <2>1. PICK hop : db' = [db EXCEPT ![e] = [db[e] EXCEPT !.incident = hop]]
    <3>1. PICK hop \in IF db[e].up THEN {None} ELSE Failures : db' = [db EXCEPT ![e].incident = hop]
      BY <1>5 DEF Diagnose
    <3> QED BY <3>1
  <2> QED BY <1>1, <1>2, <1>3, <2>1
<1>6. ASSUME NEW e \in Endpoints, Commit(e)
      PROVE  \A f \in Endpoints : db'[f].parent = db[f].parent
  <2>1. PICK x : db' = [db EXCEPT ![e] = [db[e] EXCEPT !.up = x]]
    BY <1>6 DEF Commit
  <2> QED BY <1>1, <1>2, <1>3, <2>1
<1>7. ASSUME NEW t \in Tasks, Store(t) PROVE \A f \in Endpoints : db'[f].parent = db[f].parent
  <2> DEFINE e == tasks[t].e
             arg == tasks[t].arg
  <2>1. e \in Endpoints
    BY <1>7 DEF Store, TasksInv, Proper
  <2>2. db' = [db EXCEPT ![e] = [db[e] EXCEPT !.route = arg]]
    BY <1>7 DEF Store
  <2> HIDE DEF e, arg
  <2> QED BY <1>1, <1>2, <1>3, <2>1, <2>2
<1>8. ASSUME NEW t \in Tasks, NEW e \in Endpoints, SetShown(t, e)
      PROVE  \A f \in Endpoints : db'[f].parent = db[f].parent
  <2>1. PICK x : db' = [db EXCEPT ![e] = [db[e] EXCEPT !.shown = x]]
    BY <1>8 DEF SetShown
  <2> QED BY <1>1, <1>2, <1>3, <2>1
<1>9. ASSUME NEW t \in Tasks, NEW e \in Endpoints, Delete(t, e)
      PROVE  \A f \in Endpoints : db'[f].parent = db[f].parent
  <2>1. db' = [db EXCEPT ![e] = [db[e] EXCEPT !.status = "DELETED"]]
    BY <1>9 DEF Delete
  <2> QED BY <1>1, <1>2, <1>3, <2>1
<1>10. CASE UNCHANGED gvars
  BY <1>4, <1>10 DEF gvars
<1>11. CASE GNext
  <2>1. \/ UNCHANGED db \/ \E e \in Endpoints : Commit(e) \/ FirstRow(e) \/ Diagnose(e)
        \/ \E t \in Tasks : Store(t)
        \/ \E t \in Tasks, e \in Endpoints : SetShown(t, e) \/ Delete(t, e)
    BY <1>11 DEF GNext, Announce, Rollback, Handle, Lose, Reads, Builds, Trace, StoreFails, LayPath,
                 AskRebuild, AskRefresh, CheckParent, EnqueueAll, Dequeue, Done, gvars
  <2>2. \A e \in Endpoints : FirstRow(e) => \A f \in Endpoints : db'[f].parent = db[f].parent
    BY FirstRowIs
  <2> QED BY <1>4, <1>5, <1>6, <1>7, <1>8, <1>9, <2>1, <2>2
<1> QED BY <1>10, <1>11

\* What a rebuild has read stays until it is done.
LEMMA RowsRead ==
  ASSUME TasksInv, EventsInv, [GNext]_gvars
  PROVE  \/ rebuild' = None
         \/ rebuild # None /\ rebuild'.rows = rebuild.rows
         \/ \E t \in Tasks : Reads(t)
<1>1. CASE UNCHANGED rebuild
  BY <1>1
<1>2. ASSUME NEW e, Stray(e)
      PROVE  rebuild' = None \/ (rebuild # None /\ rebuild'.rows = rebuild.rows)
  BY <1>2, Strayed
<1>3. ASSUME NEW c \in Channels, Handle(c)
      PROVE  rebuild' = None \/ (rebuild # None /\ rebuild'.rows = rebuild.rows)
  <2>1. PICK e, up : Sets(e, up) /\ e \in Endpoints
    BY <1>3, EventIs DEF Handle
  <2> QED BY <2>1, SetsKeeps
<1>4. ASSUME NEW c \in Channels, Lose(c)
      PROVE  rebuild' = None \/ (rebuild # None /\ rebuild'.rows = rebuild.rows)
  <2>1. PICK e : Stray(e)
    BY <1>4 DEF Lose
  <2> QED BY <1>2, <2>1
<1>5. \A e \in Endpoints : Rollback(e) => Stray(e)
  BY DEF Rollback
<1>6. \A t \in Tasks : Builds(t) => rebuild' = None
  BY DEF Builds
<1>7. CASE GNext
  <2>1. \/ UNCHANGED rebuild \/ \E e \in Endpoints : Rollback(e) \/ FirstRow(e)
        \/ \E c \in Channels : Handle(c) \/ Lose(c)
        \/ \E t \in Tasks : Reads(t) \/ Builds(t)
    BY <1>7 DEF GNext, Announce, Commit, Diagnose, SetParent, Trace, Store, StoreFails, LayPath,
                AskRebuild, SetShown, Delete, AskRefresh, CheckParent, Create, EnqueueAll, Dequeue,
                Done, gvars
  <2>2. \A e \in Endpoints : FirstRow(e) => UNCHANGED rebuild \/ Stray(e)
    BY DEF FirstRow
  <2> QED BY <1>1, <1>2, <1>3, <1>4, <1>5, <1>6, <2>1, <2>2
<1>8. CASE UNCHANGED gvars
  BY <1>1, <1>8 DEF gvars
<1> QED BY <1>7, <1>8

\* The parents in the graph, and what a rebuild has read of them, stay without a cycle.
LEMMA ParentsRead ==
  ASSUME db \in [Endpoints -> Rows], TasksInv, QueueInv, EventsInv, Shaped(graph), Lit(graph),
         Loopless(Parents(db)), Loopless(graph.parent),
         rebuild # None => Loopless(Parents(rebuild.rows)), [GNext]_gvars
  PROVE  Loopless(graph'.parent) /\ (rebuild' # None => Loopless(Parents(rebuild'.rows)))
<1>1. ASSUME NEW t \in Tasks, Reads(t) PROVE Loopless(Parents(rebuild'.rows))
  <2>1. PICK seen : /\ seen = rebuild'.rows
                    /\ DOMAIN seen \subseteq Endpoints /\ \A e \in DOMAIN seen : seen[e] = db[e]
    <3>1. CASE rebuild' = [by |-> t, ok |-> FALSE, rows |-> <<>>, clean |-> {}, dirty |-> {}]
      <4>1. rebuild'.rows = <<>> /\ DOMAIN <<>> = {}
        BY <3>1
      <4> QED BY <4>1
    <3>2. CASE rebuild' = [by |-> t, ok |-> TRUE, rows |-> [e \in Live |-> db[e]],
                       clean |-> {e \in Live : coming[e] = None /\ ~OnTheWay(e)},
                       dirty |-> {e \in Live : coming[e] # None /\ ~OnTheWay(e)}]
      <4>1. rebuild'.rows = [e \in Live |-> db[e]] /\ Live \subseteq Endpoints
        BY <3>2 DEF Live
      <4> QED BY <4>1
    <3> QED BY <1>1, <3>1, <3>2 DEF Reads
  <2> DEFINE par == Parents(db)
             part == Parents(seen)
  <2>2. /\ DOMAIN par = Endpoints /\ DOMAIN part = DOMAIN seen
        /\ \A e \in DOMAIN part : part[e] = par[e]
    BY <2>1, ParentsAre
  <2>3. IsFiniteSet(DOMAIN par) /\ Loopless(par)
    BY <2>2, TopologyAssumption
  <2> HIDE DEF par, part
  <2>4. Loopless(part)
    BY <2>1, <2>2, <2>3, LooplessPart
  <2> QED BY <2>1, <2>4 DEF part
<1>2. ASSUME NEW t \in Tasks, Builds(t) PROVE Loopless(graph'.parent)
  <2>1. rebuild \in Rebuilds /\ rebuild.rows \in RowsOf
    BY <1>2, BuildsIs
  <2>2. PICK seen \in RowsOf : seen = rebuild.rows
    BY <2>1
  <2>3. PICK routes, failed : Routed(routes) /\ graph' = Build(rebuild.rows, routes, failed)
    BY <1>2, BuildsIs
  <2>4. PICK g : g = graph'
    OBVIOUS
  <2>5. g = Build(seen, routes, failed) /\ Routed(routes)
    BY <2>2, <2>3, <2>4
  <2>6. DOMAIN g.parent = Shown(seen) /\ \A e \in Shown(seen) : g.parent[e] = seen[e].parent
    BY ONLY <2>5, BuildIs, seen \in RowsOf
  <2> DEFINE par == Parents(seen)
             part == g.parent
  <2>7. DOMAIN par = DOMAIN seen /\ Shown(seen) \subseteq DOMAIN seen
        /\ \A e \in DOMAIN seen : par[e] = seen[e].parent
    BY ParentsAre DEF Shown
  <2>8. IsFiniteSet(DOMAIN par) /\ Loopless(par)
    <3>1. rebuild # None
      BY <2>1, TopologyAssumption
    <3> QED BY <2>2, <2>7, <3>1, RowsAre
  <2> HIDE DEF par
  <2>9. DOMAIN part \subseteq DOMAIN par /\ \A e \in DOMAIN part : part[e] = par[e]
    BY <2>6, <2>7
  <2> HIDE DEF part
  <2>10. Loopless(part)
    BY <2>8, <2>9, LooplessPart
  <2> QED BY <2>4, <2>10 DEF part
<1>3. Loopless(graph'.parent)
  <2>1. CASE UNCHANGED graph
    BY <2>1
  <2>2. ASSUME NEW e \in Endpoints, NEW hops \in Seq(Heard), graph' = Restitch(graph, e, hops)
        PROVE  graph'.parent = graph.parent
    BY <2>2, RestitchIs
  <2>3. ASSUME NEW c \in Channels, Handle(c) PROVE graph'.parent = graph.parent
    BY <2>3, HandleGraph DEF GraphAs
  <2> QED BY <1>2, <2>1, <2>2, <2>3, GraphSteps
<1>4. rebuild' # None => Loopless(Parents(rebuild'.rows))
  BY <1>1, RowsRead
<1> QED BY <1>3, <1>4

\* Every step keeps the parents without a cycle, or has made one with no look.
LEMMA ParentsStep ==
  ASSUME db \in [Endpoints -> Rows], db' \in [Endpoints -> Rows], TasksInv, QueueInv, EventsInv,
         Shaped(graph), Lit(graph), ParentsInv, [GNext]_gvars
  PROVE  ParentsInv'
<1>1. ~blind => Loopless(graph'.parent) /\ (rebuild' # None => Loopless(Parents(rebuild'.rows)))
  BY ParentsRead DEF ParentsInv
<1> DEFINE par == Parents(db)
           then == Parents(db')
<1>2. /\ DOMAIN par = Endpoints /\ DOMAIN then = Endpoints
      /\ \A x \in Endpoints : par[x] = db[x].parent /\ then[x] = db'[x].parent
  BY ParentsAre
<1>3. /\ \A e, p : ParentCycle(e, p) <=> e \in Reach(Above(par), {p})
      /\ {l \in Endpoints \X Endpoints : db'[l[1]].parent = l[2]} = Above(then)
  <2>1. \A e, p : ParentCycle(e, p) <=> e \in Reach(Above(par), {p})
    BY CycleIs
  <2>2. {l \in Endpoints \X Endpoints : db'[l[1]].parent = l[2]} = Above(then)
    BY <1>2 DEF Above
  <2> QED BY <2>1, <2>2
<1>4. IsFiniteSet(Endpoints)
  BY TopologyAssumption
<1>5. ~blind => Loopless(par)
  BY DEF ParentsInv
<1> DEFINE Linked == \A t \in Tasks : tasks'[t].at = "linking" /\ ~tasks'[t].overtaken
                       => tasks'[t].e \notin Reach(Above(then), {tasks'[t].arg})
<1>6. SUFFICES (~blind' => ~blind /\ Loopless(then)) /\ Linked
  BY <1>1, <1>3 DEF ParentsInv, ParentCycle
<1> HIDE DEF par, then
<1>7. ASSUME NEW e \in Endpoints, NEW p, NEW row, row.parent = p, db' = [db EXCEPT ![e] = row],
             Loopless(par), ~ParentCycle(e, p)
      PROVE  Loopless(then)
  <2>1. \A x \in Endpoints : IF x = e THEN then[x] = p ELSE then[x] = par[x]
    BY <1>2, <1>7
  <2>2. e \notin Reach(Above(par), {then[e]})
    BY <1>3, <1>7, <2>1
  <2> QED BY <1>2, <1>4, <1>7, <2>1, <2>2, LooplessLink
<1>8. ASSUME NEW t \in Tasks, NEW job \in GoodJobs, job.at # "linking",
             tasks' = [Overtaking(t) EXCEPT ![t] = job]
      PROVE  Linked
  <2>1. /\ tasks'[t] = job
        /\ \A u \in Tasks \ {t} : /\ tasks'[u].at = tasks[u].at
                                  /\ tasks[u].at = "linking" => tasks'[u].overtaken
    BY <1>8, OvertakingIs
  <2> QED BY <1>8, <2>1
<1>9. ASSUME NEW t \in Tasks, SetParent(t) PROVE (~blind' => ~blind /\ Loopless(then)) /\ Linked
  <2>1. Linked
    BY <1>8, <1>9, JobsAre DEF SetParent
  <2>2. ~blind' => ~blind /\ Loopless(then)
    <3>1. CASE UNCHANGED <<db, blind>>
      BY <1>5, <3>1 DEF par, then
    <3>2. CASE tasks[t].e \in Live
      <4>1. PICK e, p : e = tasks[t].e /\ p = tasks[t].arg
        OBVIOUS
      <4>2. /\ e \in Endpoints /\ db' = [db EXCEPT ![e] = [db[e] EXCEPT !.parent = p]]
            /\ blind' = (blind \/ (tasks[t].overtaken /\ ParentCycle(e, p)))
            /\ tasks[t].at = "linking"
        BY <1>9, <3>2, <4>1 DEF SetParent, Live
      <4>3. ~tasks[t].overtaken => ~ParentCycle(e, p)
        BY <4>1, <4>2 DEF ParentsInv
      <4>4. [db[e] EXCEPT !.parent = p].parent = p
        <5>1. db[e] \in Rows
          BY <4>2
        <5> QED BY <5>1 DEF Rows
      <4> QED BY <1>5, <1>7, <4>2, <4>3, <4>4
    <3> QED BY <1>9, <3>1, <3>2 DEF SetParent
  <2> QED BY <2>1, <2>2
<1>10. ASSUME NEW t \in Tasks, NEW e \in Endpoints, NEW p \in Endpoints \cup {None}, Create(t, e, p)
       PROVE  (~blind' => ~blind /\ Loopless(then)) /\ Linked
  <2>1. PICK here \in BOOLEAN : tasks' = [Overtaking(t) EXCEPT ![t] =
          IF here THEN [Idle EXCEPT !.at = "tracing", !.e = e] ELSE Idle]
    BY <1>10 DEF Create
  <2>2. Linked
    <3>1. CASE here
      BY <1>8, <2>1, <3>1, JobsAre
    <3>2. CASE ~here
      BY <1>8, <2>1, <3>2, JobsAre
    <3> QED BY <3>1, <3>2
  <2>3. ~blind' => ~blind /\ Loopless(then)
    <3> DEFINE one == [db[e] EXCEPT !.status = "ACTIVE"]
               two == [one EXCEPT !.shown = TRUE]
               row == [two EXCEPT !.parent = p]
    <3>1. db' = [db EXCEPT ![e] = row] /\ blind' = (blind \/ ParentCycle(e, p))
      BY <1>10 DEF Create
    <3>2. two \in Rows
      <4>1. one \in Rows
        BY RowWith
      <4> HIDE DEF one
      <4> QED BY <4>1, RowWith
    <3>3. row.parent = p
      <4> HIDE DEF two
      <4> QED BY <3>2 DEF Rows
    <3> HIDE DEF row
    <3> QED BY <1>5, <1>7, <3>1, <3>3
  <2> QED BY <2>2, <2>3
<1>11. CASE /\ ~ \E t \in Tasks : SetParent(t)
            /\ ~ \E t \in Tasks, e \in Endpoints : \E p \in Endpoints \cup {None} : Create(t, e, p)
  <2>1. \A x \in Endpoints : db'[x].parent = db[x].parent
    BY <1>11, ParentKept
  <2>2. then = par
    BY <2>1, <1>2 DEF then, par, Parents
  <2>3. UNCHANGED blind
    BY <1>11 DEF GNext, Announce, Commit, Rollback, FirstRow, Diagnose, Handle, Lose, Reads, Builds,
                 Trace, Store, StoreFails, LayPath, AskRebuild, SetShown, Delete, AskRefresh, CheckParent,
                 EnqueueAll, Dequeue, Done, gvars
  <2>4. \A e, p : ParentCycle(e, p) <=> e \in Reach(Above(then), {p})
    BY <1>3, <2>2
  <2>5. \A t \in Tasks : tasks[t].at = "linking" /\ ~tasks[t].overtaken
                           => tasks[t].e \notin Reach(Above(then), {tasks[t].arg})
    BY <2>4 DEF ParentsInv
  <2>6. Linked
    <3>1. CASE LinksStay
      BY <2>4, <2>5, <3>1 DEF LinksStay
    <3>2. ASSUME NEW t \in Tasks, NEW e \in Endpoints, NEW p \in Endpoints, CheckParent(t, e, p)
          PROVE  Linked
      <4> DEFINE job == LinkingJob(e, p)
      <4>1. job.e = e /\ job.arg = p
        BY LinkingIs
      <4>2. tasks' = [tasks EXCEPT ![t] = job] /\ ~ParentCycle(e, p)
        BY <3>2 DEF CheckParent, Task, LinkingJob
      <4> HIDE DEF job
      <4>3. \A u \in Tasks : tasks'[u] = IF u = t THEN job ELSE tasks[u]
        BY <4>2 DEF TasksInv
      <4> QED BY <2>4, <2>5, <4>1, <4>2, <4>3
    <3> QED BY <3>1, <3>2, LinksStep
  <2> QED BY <1>5, <2>2, <2>3, <2>6
<1> QED BY <1>9, <1>10, <1>11

-----------------------------------------------------------------------------
(* The graph leads to every endpoint.                                      *)

\* Of endpoints that all have a parent among them, each is below a cycle.
LEMMA KnotIs ==
  ASSUME NEW par, IsFiniteSet(DOMAIN par), NEW T \in SUBSET (DOMAIN par), NEW e \in T,
         \A x \in T : par[x] \in T
  PROVE  \E c \in Reach(Above(par), {e}) :
           par[c] \in DOMAIN par /\ c \in Reach(Above(par), {par[c]})
<1> DEFINE On(x) == Reach(Above(par), {x})
           F == {On(par[c]) : c \in On(e)}
<1>1. ASSUME NEW x \in DOMAIN par
      PROVE  /\ x \in On(x) /\ On(x) \subseteq DOMAIN par /\ ClosedUnder(Above(par), On(x))
             /\ \A C : x \in C /\ ClosedUnder(Above(par), C) => On(x) \subseteq C
  BY AboveIs
<1> HIDE DEF On
<1>2. ClosedUnder(Above(par), T)
  BY AboveClosed
<1>3. On(e) \subseteq T /\ e \in On(e)
  BY <1>1, <1>2
<1>4. \A c \in On(e) : c \in DOMAIN par /\ par[c] \in DOMAIN par /\ par[c] \in On(e)
  BY <1>1, <1>3, AboveClosed
<1>5. F \subseteq SUBSET (DOMAIN par) /\ F # {}
  BY <1>1, <1>3, <1>4
<1>6. PICK s \in F : \A t \in F : t \subseteq s => t = s
  <2> HIDE DEF F
  <2> QED BY <1>5, MinimalSubset
<1>7. PICK c \in On(e) : s = On(par[c])
  BY <1>6
<1> DEFINE d == par[c]
<1>8. /\ d \in On(e) /\ d \in DOMAIN par /\ d \in On(d) /\ ClosedUnder(Above(par), On(d))
      /\ par[d] \in DOMAIN par
  BY <1>1, <1>4, <1>7
<1> HIDE DEF d
<1>9. par[d] \in On(d)
  BY <1>8, AboveClosed
<1>10. On(par[d]) \subseteq On(d)
  BY <1>1, <1>8, <1>9
<1>11. On(par[d]) \in F
  BY <1>8
<1>12. On(par[d]) = On(d)
  BY <1>6, <1>7, <1>10, <1>11 DEF d
<1> QED BY <1>8, <1>12 DEF On

\* The nodes on the path of an endpoint.
LEMMA PathToIs ==
  ASSUME NEW g, Routed(g.routes), NEW e
  PROVE  LET P == PathTo(g, e)
             W == Way(e, WayTo(g, e), Known(g))
         IN  /\ Len(P) = Len(W) + 2 /\ Len(W) \in Nat /\ Len(W) = Len(WayTo(g, e))
             /\ P[1] = Root /\ P[Len(P)] = Monitored(e)
             /\ \A j \in 1..Len(P) : j = 1 \/ j = Len(P) \/ (j - 1 \in 1..Len(W) /\ P[j] = W[j - 1])
             /\ \A j \in 1..Len(W) : Between(W[j], Known(g))
<1> DEFINE way == WayTo(g, e)
           known == Known(g)
           W == Way(e, way, known)
           T == {HopNode(e, way, i, known) : i \in 1..Len(way)}
<1>1. way \in Seq(Heard)
  <2>1. <<>> \in Seq(Heard)
    OBVIOUS
  <2>2. CASE e \in DOMAIN g.routes
    BY <2>2, CleanIs DEF Routed, WayTo
  <2>3. CASE e \notin DOMAIN g.routes
    BY <2>1, <2>3 DEF WayTo
  <2> QED BY <2>2, <2>3
<1> HIDE DEF way, known
<1>2. /\ W \in Seq(T) /\ Len(W) = Len(way) /\ Len(way) \in Nat
      /\ \A i \in 1..Len(way) : Between(W[i], known)
  BY <1>1, WayIs
<1> HIDE DEF W, T
<1>3. LET P == <<Root>> \o W \o <<Monitored(e)>>
      IN  /\ Len(P) = Len(W) + 2 /\ Len(W) \in Nat
          /\ P[1] = Root /\ P[Len(W) + 2] = Monitored(e)
          /\ \A j \in 1..Len(P) : j = 1 \/ j = Len(P) \/ (j - 1 \in 1..Len(W) /\ P[j] = W[j - 1])
  BY <1>2, PathIs
<1>4. PathTo(g, e) = <<Root>> \o W \o <<Monitored(e)>>
  BY DEF PathTo, W, way, known
<1> QED BY <1>2, <1>3, <1>4 DEF W, way, known

\* Two endpoints right below the root move below the hub, and nothing else moves.
LEMMA ClusterJoins ==
  ASSUME NEW g, NEW edges, NEW known, g.edges = Cluster(edges, known),
         NEW n, NEW m, <<n, m>> \in edges
  PROVE  Joined(g, n, m) /\ (n # Root => <<n, m>> \in g.edges)
<1> DEFINE direct == {Monitored(e) : e \in known} \cap {l[2] : l \in {x \in edges : x[1] = Root}}
<1>1. g.edges = IF Cardinality(direct) >= 2
                  THEN (edges \ ({Root} \X direct)) \cup {<<Root, Hub>>} \cup ({Hub} \X direct)
                  ELSE edges
  BY DEF Cluster
<1> HIDE DEF direct
<1>2. CASE Cardinality(direct) >= 2 /\ n = Root /\ m \in direct
  <2>1. <<Root, Hub>> \in g.edges /\ <<Hub, m>> \in g.edges
    BY <1>1, <1>2
  <2> QED BY <1>2, <2>1 DEF Joined
<1>3. CASE ~(Cardinality(direct) >= 2 /\ n = Root /\ m \in direct)
  <2>1. <<n, m>> \in g.edges
    BY <1>1, <1>3
  <2> QED BY <2>1 DEF Joined
<1> QED BY <1>2, <1>3

\* The graph leads to an endpoint all of whose path is laid.
LEMMA ByWholePath ==
  ASSUME NEW g, Routed(g.routes), NEW e, NEW S,
         \A n, m : <<n, m>> \in PathLinks(e, WayTo(g, e), Known(g)) => Joined(g, n, m)
  PROVE  ByPath(g, e, S)
<1> DEFINE P == PathTo(g, e)
           n == Len(P)
<1>1. n \in Nat /\ n >= 2
  BY PathToIs
<1>2. PathLinks(e, WayTo(g, e), Known(g)) = Links(P)
  BY DEF PathLinks, PathTo
<1> HIDE DEF P
<1>3. \A i \in 1..n - 1 : P[i] = P[i + 1] \/ <<P[i], P[i + 1]>> \in Links(P)
  <2>1. \A k \in Nat : k = Len(P) =>
          \A i \in 1..k - 1 : P[i] = P[i + 1] \/ <<P[i], P[i + 1]>> \in Links(P)
    BY LinksAre
  <2> QED BY <1>1, <2>1
<1>4. AllJoined(g, P, 1)
  <2>1. \A i \in 1..n - 1 : Joined(g, P[i], P[i + 1])
    BY <1>2, <1>3 DEF Joined
  <2> QED BY <2>1 DEF AllJoined
<1> QED BY <1>1, <1>4 DEF ByPath, P

LEMMA BuildGrows ==
  ASSUME NEW seen \in RowsOf, NEW routes, Routed(routes), NEW failed, NEW g,
         g = Build(seen, routes, failed)
  PROVE  Grows(g)
<1> DEFINE known == Shown(seen)
           steps == StepsOf(seen, routes)
<1>1. /\ Shaped(g) /\ Known(g) = known /\ g.edges = Cluster(steps, known)
      /\ g.routes = routes /\ DOMAIN g.parent = known
      /\ \A e \in known : g.parent[e] = seen[e].parent
  BY BuildIs
<1>2. IsFiniteSet(known)
  <2>1. known \subseteq DOMAIN seen /\ IsFiniteSet(DOMAIN seen)
    BY RowsAre DEF Shown
  <2> HIDE DEF known
  <2> QED BY <2>1, FS_Subset
<1>3. \A e \in known : StepLinks(e, seen, routes, known) \subseteq steps
  BY DEF StepsOf
<1> HIDE DEF known, steps
<1>4. \A n, m : <<n, m>> \in steps => Joined(g, n, m) /\ (n # Root => <<n, m>> \in g.edges)
  BY <1>1, ClusterJoins
<1> SUFFICES ASSUME NEW S \in SUBSET known, NEW e \in known \ S, e \notin KnottedIn(g),
                    \A f \in known \ S : ~ByParent(g, f, S) /\ ~ByPath(g, f, S)
             PROVE  FALSE
  BY <1>1 DEF Grows
<1>5. ASSUME NEW f \in known \ S PROVE g.parent[f] \in known \ S
  <2>1. CASE seen[f].parent \in known
    <3> DEFINE p == seen[f].parent
               l == <<Monitored(p), Monitored(f)>>
    <3>1. StepLinks(f, seen, routes, known) = {l}
      BY <2>1 DEF StepLinks
    <3>2. l \in steps
      BY <1>3, <3>1
    <3>3. l \in g.edges
      BY <1>4, <3>2, NodesAre
    <3>4. p \notin S
      BY <1>1, <3>3 DEF ByParent
    <3> QED BY <1>1, <2>1, <3>4
  <2>2. CASE seen[f].parent \notin known
    <3>1. StepLinks(f, seen, routes, known) = PathLinks(f, WayTo(g, f), Known(g))
      BY <1>1, <2>2 DEF StepLinks, WayTo
    <3>2. \A n, m : <<n, m>> \in PathLinks(f, WayTo(g, f), Known(g)) => Joined(g, n, m)
      BY <1>3, <1>4, <3>1
    <3>3. Routed(g.routes)
      BY <1>1
    <3>4. ByPath(g, f, S)
      BY <3>2, <3>3, ByWholePath
    <3> QED BY <3>4
  <2> QED BY <2>1, <2>2
<1> DEFINE par == g.parent
           T == known \ S
<1>6. \E c \in Reach(Above(par), {e}) : par[c] \in DOMAIN par /\ c \in Reach(Above(par), {par[c]})
  <2>1. IsFiniteSet(DOMAIN par) /\ T \in SUBSET (DOMAIN par) /\ e \in T /\ \A x \in T : par[x] \in T
    BY <1>1, <1>2, <1>5
  <2> HIDE DEF par, T
  <2> QED BY <2>1, KnotIs
<1> QED BY <1>1, <1>6 DEF KnottedIn

\* What Grows looks at.
LEMMA GrowsSame ==
  ASSUME NEW g, NEW h, Grows(g), Known(h) = Known(g), h.edges = g.edges, h.routes = g.routes,
         h.parent = g.parent
  PROVE  Grows(h)
<1>1. KnottedIn(h) = KnottedIn(g)
  BY DEF KnottedIn
<1>2. \A e, S : ByParent(h, e, S) <=> ByParent(g, e, S)
  BY DEF ByParent
<1>3. \A e : PathTo(h, e) = PathTo(g, e)
  BY DEF PathTo, WayTo
<1>4. \A P, i : AllJoined(h, P, i) <=> AllJoined(g, P, i)
  BY DEF AllJoined, Joined
<1>5. \A e, S : ByPath(h, e, S) <=> ByPath(g, e, S)
  BY <1>3, <1>4 DEF ByPath
<1> QED BY <1>1, <1>2, <1>5 DEF Grows

\* No node on the path of an endpoint goes when another's path is laid.
LEMMA PathStays ==
  ASSUME NEW g, NEW h, Routed(h.routes), NEW f, NEW j \in 1..Len(PathTo(h, f))
  PROVE  ~Ghost(PathTo(h, f)[j], h.routes, Known(h))
<1> DEFINE P == PathTo(h, f)
           W == Way(f, WayTo(h, f), Known(h))
<1>1. /\ Len(P) = Len(W) + 2 /\ Len(W) \in Nat /\ Len(W) = Len(WayTo(h, f))
      /\ P[1] = Root /\ P[Len(P)] = Monitored(f)
      /\ \A i \in 1..Len(P) : i = 1 \/ i = Len(P) \/ (i - 1 \in 1..Len(W) /\ P[i] = W[i - 1])
  BY PathToIs
<1>2. ~Ghost(Root, h.routes, Known(h)) /\ ~Ghost(Monitored(f), h.routes, Known(h))
  BY NodesAre DEF Ghost
<1>3. ASSUME NEW i \in 1..Len(W) PROVE W[i] \in Active(h.routes, Known(h))
  <2>1. f \in DOMAIN h.routes /\ WayTo(h, f) = Clean(h.routes[f])
    <3>1. CASE f \notin DOMAIN h.routes
      <4>1. WayTo(h, f) = <<>>
        BY <3>1 DEF WayTo
      <4>2. Len(W) = 0
        BY <1>1, <4>1
      <4> QED BY <1>3, <4>2
    <3> QED BY <3>1 DEF WayTo
  <2>2. WayTo(h, f) \in Seq(Heard)
    BY <2>1, CleanIs DEF Routed
  <2>3. DOMAIN W = 1..Len(W)
    <3>1. DOMAIN WayTo(h, f) = 1..Len(WayTo(h, f))
      BY <2>2
    <3>2. DOMAIN W = DOMAIN WayTo(h, f)
      BY DEF Way
    <3> QED BY <1>1, <3>1, <3>2
  <2>4. W[i] \in ToSet(W)
    BY <2>3 DEF ToSet
  <2>5. W = Way(f, Clean(h.routes[f]), Known(h))
    BY <2>1
  <2> HIDE DEF W
  <2> QED BY <2>1, <2>4, <2>5 DEF Active
<1> HIDE DEF P, W
<1>4. j = 1 \/ j = Len(P) \/ (j - 1 \in 1..Len(W) /\ P[j] = W[j - 1])
  BY <1>1 DEF P
<1>5. ~Ghost(P[j], h.routes, Known(h))
  <2>1. CASE j = 1 \/ j = Len(P)
    BY <1>1, <1>2, <2>1
  <2>2. CASE j - 1 \in 1..Len(W) /\ P[j] = W[j - 1]
    BY <1>3, <2>2 DEF Ghost
  <2> QED BY <1>4, <2>1, <2>2
<1> QED BY <1>5 DEF P

\* What is joined on a path stays so, but for what leads to m.
Stays(g, h, P, m) ==
  \A j \in 1..Len(P) - 1 :
    P[j + 1] # m /\ Joined(g, P[j], P[j + 1]) => Joined(h, P[j], P[j + 1])

\* A path that led on from some place does so still, from there or from the last m.
LEMMA LeadsOn ==
  ASSUME NEW g, NEW h, NEW P, Len(P) \in Nat, NEW i \in 1..Len(P), AllJoined(g, P, i), NEW m,
         Stays(g, h, P, m)
  PROVE  AllJoined(h, P, i) \/ \E k \in 1..Len(P) : P[k] = m /\ AllJoined(h, P, k)
<1> DEFINE n == Len(P)
           K == {k \in i..n : P[k] = m}
<1>0. n \in Nat /\ \A j \in 1..n - 1 : P[j + 1] # m /\ Joined(g, P[j], P[j + 1])
                                         => Joined(h, P[j], P[j + 1])
  BY DEF Stays
<1>1. \A j \in i..n - 1 : j \in 1..n - 1 /\ j + 1 \in i..n /\ Joined(g, P[j], P[j + 1])
  BY <1>0 DEF AllJoined
<1> HIDE DEF n
<1>2. CASE K = {}
  <2>1. \A j \in i..n - 1 : P[j + 1] # m
    BY <1>1, <1>2
  <2>2. \A j \in i..n - 1 : Joined(h, P[j], P[j + 1])
    BY <1>0, <1>1, <2>1
  <2> QED BY <2>2 DEF AllJoined, n
<1>3. CASE K # {}
  <2>1. IsFiniteSet(K) /\ K \subseteq Int
    <3>1. i \in Int /\ n \in Int /\ K \subseteq i..n
      BY <1>0 DEF n
    <3>2. IsFiniteSet(i..n)
      <4> HIDE DEF K
      <4> QED BY <3>1, FS_Interval
    <3> HIDE DEF K
    <3>3. K \subseteq Int
      BY <3>1
    <3> QED BY <3>1, <3>2, <3>3, FS_Subset
  <2>2. PICK k \in K : \A y \in K : k >= y
    <3> HIDE DEF K
    <3> QED BY <1>3, <2>1, MaxIs
  <2>3. k \in 1..n /\ P[k] = m
    BY <1>0, <2>2 DEF n
  <2>4. \A j \in k..n - 1 : j \in i..n - 1 /\ P[j + 1] # m
    <3> SUFFICES ASSUME NEW j \in k..n - 1 PROVE j \in i..n - 1 /\ P[j + 1] # m
      OBVIOUS
    <3>1. j \in i..n - 1 /\ j + 1 \in i..n /\ ~(k >= j + 1)
      BY <1>0, <2>2 DEF n
    <3>2. j + 1 \notin K
      BY <2>2, <3>1
    <3> QED BY <3>1, <3>2
  <2>5. \A j \in k..n - 1 : Joined(h, P[j], P[j + 1])
    BY <1>0, <1>1, <2>4
  <2>6. AllJoined(h, P, k)
    BY <2>5 DEF AllJoined, n
  <2> QED BY <2>3, <2>6 DEF n
<1> QED BY <1>2, <1>3

LEMMA RestitchGrows ==
  ASSUME NEW g, Shaped(g), Grows(g), NEW e, NEW hops \in Seq(Heard), NEW h,
         h = Restitch(g, e, hops)
  PROVE  Grows(h)
<1> DEFINE known == Known(g)
           way == Clean(hops)
           laid == LaidFor(g, e, way)
<1>1. /\ Shaped(h) /\ Known(h) = known /\ h.edges = EdgesWith(g, e, way)
      /\ h.routes = RoutesWith(g, e, way) /\ h.parent = g.parent
  BY RestitchIs
<1>2. way \in Seq(Heard) /\ Clean(way) = way
  <2>1. way \in Seq(Heard) /\ NoPairs(way) /\ ~EndsSilent(way)
    BY CleanIs
  <2> HIDE DEF way
  <2> QED BY <2>1, CleanTwice
<1> HIDE DEF way
<1>3. Routed(g.routes) /\ Routed(h.routes)
  BY <1>1 DEF Shaped, Routed, Heard
<1>4. DOMAIN h.routes = {e} \cup DOMAIN g.routes
      /\ \A f \in DOMAIN h.routes : h.routes[f] = IF f = e THEN way ELSE g.routes[f]
  BY <1>1 DEF RoutesWith
<1>5. WayTo(h, e) = way /\ \A f : f # e => WayTo(h, f) = WayTo(g, f)
  <2>1. e \in DOMAIN h.routes /\ h.routes[e] = way
    BY <1>4
  <2>2. \A f : f # e => (f \in DOMAIN h.routes <=> f \in DOMAIN g.routes)
    BY <1>4
  <2>3. \A f \in DOMAIN h.routes : f # e => h.routes[f] = g.routes[f]
    BY <1>4
  <2> QED BY <1>2, <2>1, <2>2, <2>3 DEF WayTo
<1>6. \A f : f # e => PathTo(h, f) = PathTo(g, f)
  BY <1>1, <1>5 DEF PathTo
<1> DEFINE Gone(n) == Ghost(n, h.routes, known)
<1>7. \A f : \A j \in 1..Len(PathTo(h, f)) : ~Gone(PathTo(h, f)[j])
  BY <1>1, <1>3, PathStays
<1>8. \A l \in g.edges : l[1] \in DOMAIN g.state /\ l[2] \in DOMAIN g.state
  BY DEF Shaped, EndsOf
<1>9. \A l \in laid : l[1] \in EndsOf(laid) /\ l[2] \in EndsOf(laid)
  BY DEF EndsOf
<1> HIDE DEF laid, known
<1>10. \A n \in DOMAIN g.state \cup EndsOf(laid) : ~Gone(n) => n \in NodesWith(g, e, way)
  BY <1>1 DEF NodesWith, laid, known
<1>11. \A n, m : <<n, m>> \in laid /\ ~Gone(n) /\ ~Gone(m) => <<n, m>> \in h.edges
  BY <1>1, <1>9, <1>10 DEF EdgesWith, laid
<1>12. \A n, m : <<n, m>> \in g.edges /\ m # Monitored(e) /\ ~Gone(n) /\ ~Gone(m)
                   => <<n, m>> \in h.edges
  BY <1>1, <1>8, <1>10 DEF EdgesWith, laid
<1>13. ~Gone(Hub) /\ ~Gone(Root) /\ Hub # Monitored(e) /\ \A f : ~Gone(Monitored(f))
  BY NodesAre DEF Ghost
<1> HIDE DEF Gone
<1>14. \A n, m : Joined(g, n, m) /\ m # Monitored(e) /\ ~Gone(n) /\ ~Gone(m) => Joined(h, n, m)
  BY <1>12, <1>13 DEF Joined
<1>15. KnottedIn(h) = KnottedIn(g)
  BY <1>1 DEF KnottedIn, known
<1> SUFFICES ASSUME NEW S \in SUBSET known, \E f \in known \ S : f \notin KnottedIn(g)
             PROVE  \E f \in known \ S : ByParent(h, f, S) \/ ByPath(h, f, S)
  BY <1>1, <1>15 DEF Grows
<1>16. CASE e \in known \ S
  <2> DEFINE P == PathTo(h, e)
             n == Len(P)
  <2>1. n \in Nat /\ n >= 2
    BY <1>3, PathToIs
  <2>2. laid = Links(P)
    BY <1>1, <1>5, <1>16 DEF laid, LaidFor, PathLinks, PathTo, known
  <2>3. \A j \in 1..n : ~Gone(P[j])
    BY <1>7
  <2> HIDE DEF P
  <2>4. \A k \in Nat : k = Len(P) =>
          \A i \in 1..k - 1 : P[i] = P[i + 1] \/ <<P[i], P[i + 1]>> \in Links(P)
    BY LinksAre
  <2>5. \A i \in 1..n - 1 : i \in 1..n /\ i + 1 \in 1..n
                            /\ (P[i] = P[i + 1] \/ <<P[i], P[i + 1]>> \in laid)
    BY <2>1, <2>2, <2>4
  <2>6. \A i \in 1..n - 1 : Joined(h, P[i], P[i + 1])
    BY <1>11, <2>3, <2>5 DEF Joined
  <2>7. AllJoined(h, P, 1) /\ 1 \in 1..n
    BY <2>1, <2>6 DEF AllJoined
  <2> QED BY <1>16, <2>7 DEF ByPath, P
<1>17. CASE e \notin known \ S
  <2>1. PICK f \in known \ S : ByParent(g, f, S) \/ ByPath(g, f, S)
    BY DEF Grows, known
  <2>2. f # e
    BY <1>17
  <2>3. CASE ByParent(g, f, S)
    <3>1. Monitored(f) # Monitored(e)
      BY <2>2, NodesAre
    <3> QED BY <1>1, <1>12, <1>13, <2>3, <3>1 DEF ByParent
  <2>4. CASE ByPath(g, f, S)
    <3> DEFINE P == PathTo(g, f)
               n == Len(P)
    <3>1. n \in Nat /\ P[1] = Root /\ P = PathTo(h, f) /\ n >= 2
      BY <1>3, <1>6, <2>2, PathToIs
    <3>2. PICK i \in 1..n : (i = 1 \/ \E x \in S : P[i] = Monitored(x)) /\ AllJoined(g, P, i)
      BY <2>4 DEF ByPath
    <3>3. \A j \in 1..n : ~Gone(P[j])
      BY <1>7, <3>1
    <3> HIDE DEF P
    <3>4. \A j \in 1..n - 1 : P[j + 1] # Monitored(e) /\ Joined(g, P[j], P[j + 1])
                                => Joined(h, P[j], P[j + 1])
      <4>1. \A j \in 1..n - 1 : j \in 1..n /\ j + 1 \in 1..n
        BY <3>1
      <4> QED BY <1>14, <3>3, <4>1
    <3>5. AllJoined(h, P, i) \/ \E k \in 1..n : P[k] = Monitored(e) /\ AllJoined(h, P, k)
      <4>1. Stays(g, h, P, Monitored(e))
        BY <3>4 DEF Stays
      <4> QED BY <3>1, <3>2, <4>1, LeadsOn
    <3>6. CASE AllJoined(h, P, i)
      <4>1. ByPath(h, f, S)
        BY <3>1, <3>2, <3>6 DEF ByPath
      <4> QED BY <4>1
    <3>7. ASSUME NEW k \in 1..n, P[k] = Monitored(e), AllJoined(h, P, k)
          PROVE  ByPath(h, f, S)
      <4>1. k # 1
        BY <3>1, <3>7, NodesAre
      <4>2. k = n => Monitored(e) = Monitored(f)
        BY <1>3, <3>7, PathToIs DEF P
      <4>3. e \in known
        <5>1. k # n
          BY <2>2, <4>2, NodesAre
        <5>2. Between(P[k], known)
          BY <1>3, <4>1, <5>1, PathToIs DEF P, known
        <5>3. ~Passing(Monitored(e))
          BY NodesAre DEF Passing
        <5> QED BY <3>7, <5>2, <5>3, NodesAre DEF Between
      <4> QED BY <1>17, <3>1, <3>7, <4>3 DEF ByPath
    <3> QED BY <3>5, <3>6, <3>7
  <2> QED BY <2>1, <2>3, <2>4
<1> QED BY <1>16, <1>17

\* What a path leads to is reached from where it begins.
LEMMA LeadsTo ==
  ASSUME NEW g, NEW P, Len(P) \in Nat, NEW i \in 1..Len(P), AllJoined(g, P, i), NEW R,
         ClosedUnder(g.edges, R), P[i] \in R
  PROVE  P[Len(P)] \in R
<1> DEFINE n == Len(P)
           K == {k \in i..n : P[k] \in R}
<1>1. n \in Nat /\ i \in 1..n
  OBVIOUS
<1>2. \A j \in i..n - 1 : Joined(g, P[j], P[j + 1])
  BY DEF AllJoined
<1> HIDE DEF n
<1>3. \A a, b : Joined(g, a, b) /\ a \in R => b \in R
  <2> SUFFICES ASSUME NEW a, NEW b, Joined(g, a, b), a \in R PROVE b \in R
    OBVIOUS
  <2>1. \A x, y : <<x, y>> \in g.edges /\ x \in R => y \in R
    <3> SUFFICES ASSUME NEW x, NEW y, <<x, y>> \in g.edges, x \in R PROVE y \in R
      OBVIOUS
    <3>1. PICK l : l = <<x, y>> /\ l[1] = x /\ l[2] = y
      OBVIOUS
    <3> QED BY <3>1 DEF ClosedUnder
  <2> QED BY <2>1 DEF Joined
<1>4. i \in K
  BY <1>1
<1>5. IsFiniteSet(K) /\ K \subseteq Int
  <2>1. i \in Int /\ n \in Int /\ K \subseteq i..n
    BY <1>1
  <2>2. IsFiniteSet(i..n)
    <3> HIDE DEF K
    <3> QED BY <2>1, FS_Interval
  <2> HIDE DEF K
  <2>3. K \subseteq Int
    BY <2>1
  <2> QED BY <2>1, <2>2, <2>3, FS_Subset
<1>6. PICK k \in K : \A y \in K : k >= y
  <2> HIDE DEF K
  <2> QED BY <1>4, <1>5, MaxIs
<1>7. CASE k = n
  BY <1>6, <1>7 DEF n
<1>8. CASE k # n
  <2>1. k \in i..n - 1 /\ k + 1 \in i..n /\ ~(k >= k + 1)
    BY <1>1, <1>6, <1>8
  <2>2. P[k + 1] \in R
    BY <1>2, <1>3, <1>6, <2>1
  <2>3. k + 1 \in K
    BY <2>1, <2>2
  <2> QED BY <1>6, <2>1, <2>3
<1> QED BY <1>7, <1>8

\* With no cycle no endpoint is below one.
LEMMA NoKnots ==
  ASSUME NEW g, Loopless(g.parent), DOMAIN g.parent = Known(g), IsFiniteSet(Known(g))
  PROVE  KnottedIn(g) = {}
<1> SUFFICES ASSUME NEW e \in Known(g), NEW c \in Reach(Above(g.parent), {e}),
                    g.parent[c] \in Known(g), c \in Reach(Above(g.parent), {g.parent[c]})
             PROVE  FALSE
  BY DEF KnottedIn
<1> DEFINE par == g.parent
<1>1. IsFiniteSet(DOMAIN par) /\ e \in DOMAIN par /\ {e} \in SUBSET (DOMAIN par)
  OBVIOUS
<1> HIDE DEF par
<1>2. Reach(Above(par), {e}) \subseteq DOMAIN par
  BY <1>1, AboveIs
<1> QED BY <1>2 DEF Loopless, par

\* The endpoints that Connected takes to be below a cycle.
LEMMA KnottedAre ==
  ASSUME Shaped(graph), IsFiniteSet(Known(graph))
  PROVE  Knotted = KnottedIn(graph)
<1> DEFINE par == graph.parent
           known == Known(graph)
           up(f) == IF par[f] \in known THEN {par[f]} ELSE {}
           edges == {l \in known \X known : l[2] \in up(l[1])}
<1>1. DOMAIN par = known /\ IsFiniteSet(known)
  BY DEF Shaped
<1>2. edges = Above(par)
  <2>1. \A l \in known \X known : l[2] \in up(l[1]) <=> par[l[1]] = l[2]
    OBVIOUS
  <2> QED BY <1>1, <2>1 DEF Above
<1>3. Knotted = {e \in known : \E c \in Reach(edges, {e}) : c \in Reach(edges, up(c))}
  BY DEF Knotted
<1>4. \A c : c \in Reach(Above(par), up(c))
              <=> par[c] \in known /\ c \in Reach(Above(par), {par[c]})
  <2>1. Reach(Above(par), {}) = {}
    <3>1. {} \in SUBSET (DOMAIN par) /\ ClosedUnder(Above(par), {}) /\ IsFiniteSet(DOMAIN par)
      BY <1>1 DEF ClosedUnder
    <3> HIDE DEF par
    <3> QED BY <3>1, AboveIs
  <2> HIDE DEF par, known
  <2> QED BY <2>1
<1> QED BY <1>2, <1>3, <1>4 DEF KnottedIn

LEMMA ConnectedIs ==
  ASSUME Shaped(graph), Grows(graph), ParentsInv
  PROVE  Connected
<1> DEFINE below == Reach(graph.edges, {Root})
           known == Known(graph)
           S == {e \in known : Monitored(e) \in below}
<1>1. IsFiniteSet(known)
  <2>1. known \subseteq Endpoints /\ IsFiniteSet(Endpoints)
    BY TopologyAssumption DEF Known
  <2> HIDE DEF known
  <2> QED BY <2>1, FS_Subset
<1>2. Root \in below /\ ClosedUnder(graph.edges, below)
  <2>1. IsFiniteSet(DOMAIN graph.state) /\ {Root} \subseteq DOMAIN graph.state
        /\ EndsOf(graph.edges) \subseteq DOMAIN graph.state
    BY DEF Shaped
  <2>2. PICK edges : edges = graph.edges
    OBVIOUS
  <2>3. PICK X : X = DOMAIN graph.state
    OBVIOUS
  <2>4. {Root} \subseteq Reach(edges, {Root}) /\ ClosedUnder(edges, Reach(edges, {Root}))
    BY <2>1, <2>2, <2>3, ReachIs
  <2> QED BY <2>2, <2>4
<1>3. Routed(graph.routes) /\ DOMAIN graph.parent = known
  BY DEF Shaped, Routed, Heard
<1> HIDE DEF below
<1>4. ASSUME NEW e \in known, ByParent(graph, e, S) PROVE e \in S
  <2>1. PICK l \in graph.edges : l[1] = Monitored(graph.parent[e]) /\ l[2] = Monitored(e)
    BY <1>4 DEF ByParent
  <2> QED BY <1>2, <1>4, <2>1 DEF ByParent, ClosedUnder
<1>5. ASSUME NEW e \in known, ByPath(graph, e, S) PROVE e \in S
  <2>1. PICK g : g = graph
    OBVIOUS
  <2> DEFINE P == PathTo(g, e)
  <2>2. Len(P) \in Nat /\ P[1] = Root /\ P[Len(P)] = Monitored(e)
    BY <1>3, <2>1, PathToIs
  <2>3. PICK i \in 1..Len(P) : (i = 1 \/ \E f \in S : P[i] = Monitored(f)) /\ AllJoined(g, P, i)
    BY <1>5, <2>1 DEF ByPath
  <2> HIDE DEF P
  <2>4. P[i] \in below /\ ClosedUnder(g.edges, below)
    BY <1>2, <2>1, <2>2, <2>3
  <2>5. PICK R : R = below
    OBVIOUS
  <2>6. P[Len(P)] \in R
    BY <2>2, <2>3, <2>4, <2>5, LeadsTo
  <2> QED BY <2>2, <2>5, <2>6
<1>6. known \ S \subseteq KnottedIn(graph)
  BY <1>4, <1>5 DEF Grows
<1>7. KnottedIn(graph) # {} => blind
  <2>1. PICK g : g = graph
    OBVIOUS
  <2>2. Loopless(g.parent) => KnottedIn(g) = {}
    BY <1>1, <1>3, <2>1, NoKnots
  <2> QED BY <2>1, <2>2 DEF ParentsInv
<1>8. Knotted = KnottedIn(graph)
  BY <1>1, KnottedAre
<1> QED BY <1>6, <1>7, <1>8 DEF Connected, below

LEMMA GrowsStep ==
  ASSUME db \in [Endpoints -> Rows], TasksInv, EventsInv, Shaped(graph), Lit(graph), Grows(graph),
         [GNext]_gvars
  PROVE  Grows(graph')
<1>1. PICK g, h : g = graph /\ h = graph'
  OBVIOUS
<1>2. Shaped(g) /\ Grows(g)
  BY <1>1
<1>3. CASE UNCHANGED graph
  BY <1>3
<1>4. ASSUME NEW e \in Endpoints, NEW hops \in Seq(Heard), graph' = Restitch(graph, e, hops)
      PROVE  Grows(h)
  <2>1. h = Restitch(g, e, hops)
    BY <1>1, <1>4
  <2> QED BY <1>2, <2>1, RestitchGrows
<1>5. ASSUME NEW c \in Channels, Handle(c) PROVE Grows(h)
  <2>1. /\ Known(h) = Known(g) /\ h.edges = g.edges /\ h.routes = g.routes /\ h.parent = g.parent
    BY <1>1, <1>5, HandleGraph DEF GraphAs
  <2> QED BY <1>2, <2>1, GrowsSame
<1>6. ASSUME NEW t \in Tasks, Builds(t) PROVE Grows(h)
  <2>1. PICK seen \in RowsOf : seen = rebuild.rows
    BY <1>6, BuildsIs
  <2>2. PICK routes, failed : Routed(routes) /\ graph' = Build(rebuild.rows, routes, failed)
    BY <1>6, BuildsIs
  <2>3. h = Build(seen, routes, failed) /\ Routed(routes)
    BY <1>1, <2>1, <2>2
  <2> QED BY ONLY <2>3, BuildGrows, seen \in RowsOf
<1> QED BY <1>1, <1>3, <1>4, <1>5, <1>6, GraphSteps

LinkedInv == CoreInv /\ ParentsInv /\ Grows(graph)

LEMMA LinkedInit == ASSUME GInit PROVE LinkedInv
<1>1. CoreInv
  BY CoreInit
<1>2. PICK seen \in RowsOf : /\ \A e \in DOMAIN seen : e \in Endpoints /\ seen[e] = db[e]
                            /\ \E routes, failed : Routed(routes)
                                                    /\ graph = Build(seen, routes, failed)
  BY InitRows
<1>3. PICK routes, failed : Routed(routes) /\ graph = Build(seen, routes, failed)
  BY <1>2
<1>4. PICK g : g = graph
  OBVIOUS
<1>5. g = Build(seen, routes, failed) /\ Routed(routes)
  BY <1>3, <1>4
<1>6. Grows(g)
  BY ONLY <1>5, BuildGrows, seen \in RowsOf
<1>7. \A e \in Endpoints : db[e].parent = None
  BY DEF GInit
<1>8. ASSUME NEW par, DOMAIN par \subseteq Endpoints, \A e \in DOMAIN par : par[e] = None
      PROVE  Loopless(par)
  <2>1. None \notin Endpoints
    BY TopologyAssumption DEF Hops
  <2> QED BY <1>8, <2>1 DEF Loopless
<1>9. Loopless(Parents(db))
  <2>1. DOMAIN Parents(db) = Endpoints /\ \A e \in Endpoints : Parents(db)[e] = None
    BY <1>1, <1>7, ParentsAre DEF CoreInv
  <2>2. PICK par : par = Parents(db)
    OBVIOUS
  <2> QED BY <1>8, <2>1, <2>2
<1>10. Loopless(graph.parent)
  <2>1. DOMAIN g.parent = Shown(seen) /\ \A e \in Shown(seen) : g.parent[e] = seen[e].parent
    BY ONLY <1>5, BuildIs, seen \in RowsOf
  <2>2. Shown(seen) \subseteq DOMAIN seen
    BY DEF Shown
  <2>3. DOMAIN g.parent \subseteq Endpoints /\ \A e \in DOMAIN g.parent : g.parent[e] = None
    BY <1>2, <1>7, <2>1, <2>2
  <2>4. PICK par : par = g.parent
    OBVIOUS
  <2> QED BY <1>4, <1>8, <2>3, <2>4
<1>11. \A t \in Tasks : tasks[t].at # "linking"
  BY JobsAre DEF GInit
<1>12. rebuild = None
  BY DEF GInit
<1> QED BY <1>1, <1>4, <1>6, <1>9, <1>10, <1>11, <1>12 DEF LinkedInv, ParentsInv

LEMMA LinkedStep == ASSUME LinkedInv, [GNext]_gvars PROVE LinkedInv'
<1>1. CoreInv'
  BY CoreStep DEF LinkedInv
<1>2. db' \in [Endpoints -> Rows]
  BY <1>1 DEF CoreInv
<1>3. ParentsInv'
  BY <1>2, ParentsStep DEF LinkedInv, CoreInv
<1>4. Grows(graph')
  BY GrowsStep DEF LinkedInv, CoreInv
<1> QED BY <1>1, <1>3, <1>4 DEF LinkedInv

\* Whatever edges and routers a path laid anew prunes, whatever endpoints are
\* hidden, deleted, restored or given another parent meanwhile, the root reaches
\* every endpoint in the graph, but those below a cycle of manual parents, and there
\* is none unless one was made with no look, or an old one, at the others' parents
\* (full_rebuild, update_endpoint_path, detect_parent_cycle).
THEOREM TopologyConnected == GSpec => []Connected
<1>1. LinkedInv => Connected
  BY ConnectedIs DEF LinkedInv, CoreInv
<1> QED BY <1>1, LinkedInit, LinkedStep, PTL DEF GSpec
=============================================================================
