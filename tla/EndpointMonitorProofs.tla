------------------------ MODULE EndpointMonitorProofs ------------------------
(***************************************************************************)
(* Proofs about EndpointMonitor, for every set of classes, threshold and   *)
(* bound.                                                                  *)
(***************************************************************************)
EXTENDS EndpointMonitor, SequenceTheorems, TLAPS

-----------------------------------------------------------------------------
(* Operators on the rows.                                                  *)

\* Rewriting rows one by one keeps a sequence of rows of the same length.
LEMMA SameShape ==
  ASSUME NEW evs \in Seq(Event), NEW f \in [DOMAIN evs -> Event]
  PROVE  f \in Seq(Event) /\ Len(f) = Len(evs) /\ DOMAIN f = DOMAIN evs
<1>1. DOMAIN evs = 1..Len(evs) /\ Len(evs) \in Nat
  BY LenProperties
<1>2. f \in Seq(Event)
  BY <1>1, SeqDef
<1>3. DOMAIN f = 1..Len(f) /\ Len(f) \in Nat
  BY <1>2, LenProperties
<1> QED BY <1>1, <1>2, <1>3

\* An endpoint without rows is one whose rows number zero.
LEMMA NoRows ==
  ASSUME NEW evs \in Seq(Event)
  PROVE  (evs = <<>> <=> Len(evs) = 0) /\ Len(evs) \in Nat
BY EmptySeq, LenProperties

\* An inserted row is the latest, open and of the given state; the others stay.
LEMMA InsertRows ==
  ASSUME NEW evs \in Seq(Event), NEW d \in Classes
  PROVE  /\ Insert(evs, d) \in Seq(Event)
         /\ Len(Insert(evs, d)) = Len(evs) + 1
         /\ DOMAIN Insert(evs, d) = 1..(Len(evs) + 1)
         /\ Insert(evs, d)[Len(evs) + 1] = [det |-> d, open |-> TRUE, age |-> 0]
         /\ \A i \in DOMAIN evs : Insert(evs, d)[i] = evs[i]
<1> DEFINE row == [det |-> d, open |-> TRUE, age |-> 0]
<1>1. row \in Event
  BY DEF Event
<1>2. Insert(evs, d) = Append(evs, row)
  BY DEF Insert
<1> HIDE DEF row
<1>3. /\ Append(evs, row) \in Seq(Event)
      /\ Len(Append(evs, row)) = Len(evs) + 1
      /\ \A i \in 1..Len(evs) : Append(evs, row)[i] = evs[i]
      /\ Append(evs, row)[Len(evs) + 1] = row
  BY <1>1, AppendProperties
<1>4. DOMAIN evs = 1..Len(evs) /\ DOMAIN Append(evs, row) = 1..(Len(evs) + 1)
  BY <1>3, LenProperties
<1> QED BY <1>2, <1>3, <1>4 DEF row

\* Closing rows changes no state, opens nothing and closes what it names.
LEMMA CloseRows ==
  ASSUME NEW evs \in Seq(Event)
  PROVE  /\ CloseAll(evs) \in Seq(Event)
         /\ Len(CloseAll(evs)) = Len(evs) /\ DOMAIN CloseAll(evs) = DOMAIN evs
         /\ \A i \in DOMAIN evs : /\ ~CloseAll(evs)[i].open
                                  /\ CloseAll(evs)[i].det = evs[i].det
<1>1. \A i \in DOMAIN evs : evs[i] \in Event
  BY LenProperties
<1>2. CloseAll(evs) \in [DOMAIN evs -> Event]
  BY <1>1 DEF CloseAll, Event
<1> QED BY <1>1, <1>2, SameShape DEF CloseAll, Event

\* The roll-over closes the active row and leaves the others as they are.
LEMMA CloseOneRow ==
  ASSUME NEW evs \in Seq(Event), NEW id \in DOMAIN evs
  PROVE  /\ Close(evs, id) \in Seq(Event)
         /\ Len(Close(evs, id)) = Len(evs) /\ DOMAIN Close(evs, id) = DOMAIN evs
         /\ \A i \in DOMAIN evs : /\ Close(evs, id)[i].open <=> i # id /\ evs[i].open
                                  /\ Close(evs, id)[i].det = evs[i].det
<1>1. \A i \in DOMAIN evs : evs[i] \in Event
  BY LenProperties
<1>2. Close(evs, id) \in [DOMAIN evs -> Event]
  BY <1>1 DEF Close, Event
<1> QED BY <1>1, <1>2, SameShape DEF Close, Event

\* The cleanup of resolve_startup_state may close rows, and opens none.
LEMMA CloseRecentRows ==
  ASSUME NEW evs \in Seq(Event)
  PROVE  /\ CloseRecent(evs) \in Seq(Event)
         /\ Len(CloseRecent(evs)) = Len(evs) /\ DOMAIN CloseRecent(evs) = DOMAIN evs
         /\ \A i \in DOMAIN evs : /\ CloseRecent(evs)[i].open => evs[i].open
                                  /\ CloseRecent(evs)[i].det = evs[i].det
<1>1. \A i \in DOMAIN evs : evs[i] \in Event
  BY LenProperties
<1>2. CloseRecent(evs) \in [DOMAIN evs -> Event]
  BY <1>1 DEF CloseRecent, Event
<1> QED BY <1>1, <1>2, SameShape DEF CloseRecent, Event

\* One more of the rows crosses an age boundary.
LEMMA AgeRows ==
  ASSUME NEW evs \in Seq(Event), NEW k \in DOMAIN evs
  PROVE  LET aged == [i \in DOMAIN evs |->
                       IF i <= k /\ evs[i].open /\ evs[i].age < 2
                       THEN [evs[i] EXCEPT !.age = @ + 1] ELSE evs[i]]
         IN  /\ aged \in Seq(Event)
             /\ Len(aged) = Len(evs) /\ DOMAIN aged = DOMAIN evs
             /\ \A i \in DOMAIN evs : /\ aged[i].open = evs[i].open
                                      /\ aged[i].det = evs[i].det
<1> DEFINE aged == [i \in DOMAIN evs |->
                     IF i <= k /\ evs[i].open /\ evs[i].age < 2
                     THEN [evs[i] EXCEPT !.age = @ + 1] ELSE evs[i]]
<1>1. \A i \in DOMAIN evs : evs[i] \in Event
  BY LenProperties
<1>2. aged \in [DOMAIN evs -> Event]
  BY <1>1 DEF Event
<1>3. \A i \in DOMAIN evs : aged[i].open = evs[i].open /\ aged[i].det = evs[i].det
  BY <1>1 DEF Event
<1> HIDE DEF aged
<1>4. aged \in Seq(Event) /\ Len(aged) = Len(evs) /\ DOMAIN aged = DOMAIN evs
  BY <1>2, SameShape
<1> QED BY <1>3, <1>4 DEF aged

-----------------------------------------------------------------------------
(* What a cycle computes.                                                  *)

\* The confirmation logic leaves the active row to the caller, and never has
\* the confirmed state pending.
LEMMA ConfirmResult ==
  ASSUME NEW st \in State, st.conf # None, NEW c \in Classes
  PROVE  /\ Confirm(st, c) \in State
         /\ Confirm(st, c).active = st.active
         /\ Confirm(st, c).conf \in {st.conf, c}
BY NoneAssumption DEF Confirm, ClearPending, State, StateOf, Waiting

\* What RowsAfter returns is st's rows, with st's active row open, or has one
\* more row: the open one of the new state, st's active row being closed.
OneMoreRow(evs, rows, st, d) ==
  /\ Len(rows) = Len(evs) + 1 /\ DOMAIN rows = 1..(Len(evs) + 1)
  /\ rows[Len(rows)].det = d
  /\ \A i \in DOMAIN evs : rows[i].open => evs[i].open /\ i # st.active

\* A row inserted after st's active row was closed gives one more row.
LEMMA InsertedAfter ==
  ASSUME NEW evs \in Seq(Event), NEW base \in Seq(Event), NEW st \in State,
         NEW d \in Classes, Len(base) = Len(evs),
         \A i \in DOMAIN evs : base[i].open => evs[i].open /\ i # st.active
  PROVE  Insert(base, d) \in Seq(Event) /\ OneMoreRow(evs, Insert(base, d), st, d)
<1>1. DOMAIN evs = 1..Len(evs) /\ DOMAIN base = DOMAIN evs /\ Len(evs) \in Nat
  BY LenProperties
<1>2. /\ Insert(base, d) \in Seq(Event)
      /\ Len(Insert(base, d)) = Len(base) + 1
      /\ DOMAIN Insert(base, d) = 1..(Len(base) + 1)
      /\ Insert(base, d)[Len(base) + 1] = [det |-> d, open |-> TRUE, age |-> 0]
      /\ \A i \in DOMAIN base : Insert(base, d)[i] = base[i]
  BY InsertRows
<1>3. Insert(base, d)[Len(base) + 1].det = d
  BY <1>2
<1> QED BY <1>1, <1>2, <1>3 DEF OneMoreRow

\* process_cycle keeps the rows (the active one being open), or adds one row.
LEMMA RowsResult ==
  ASSUME NEW evs \in Seq(Event), NEW st \in State, NEW nst \in State,
         nst.conf # None
  PROVE  /\ RowsAfter(st, nst, evs) \in Seq(Event)
         /\ \/ /\ RowsAfter(st, nst, evs) = evs
               /\ nst.conf = st.conf /\ IsOpen(evs, st.active)
            \/ OneMoreRow(evs, RowsAfter(st, nst, evs), st, nst.conf)
<1>1. nst.conf \in Classes
  BY DEF State
<1>2. CASE st.conf # nst.conf
  <2>1. RowsAfter(st, nst, evs) = Insert(CloseAll(evs), nst.conf)
    BY <1>2 DEF RowsAfter
  <2>2. /\ CloseAll(evs) \in Seq(Event) /\ Len(CloseAll(evs)) = Len(evs)
        /\ \A i \in DOMAIN evs : ~CloseAll(evs)[i].open
    BY CloseRows
  <2> QED BY <1>1, <2>1, <2>2, InsertedAfter
<1>3. CASE st.conf = nst.conf /\ ~IsOpen(evs, st.active)
  <2>1. RowsAfter(st, nst, evs) = Insert(evs, nst.conf)
    BY <1>3 DEF RowsAfter
  <2>2. \A i \in DOMAIN evs : evs[i].open => i # st.active
    BY <1>3 DEF IsOpen
  <2> QED BY <1>1, <2>1, <2>2, InsertedAfter
<1>4. CASE st.conf = nst.conf /\ IsOpen(evs, st.active) /\ evs[st.active].age >= 1
  <2>1. RowsAfter(st, nst, evs) = Insert(Close(evs, st.active), nst.conf)
    BY <1>4 DEF RowsAfter
  <2>2. /\ Close(evs, st.active) \in Seq(Event)
        /\ Len(Close(evs, st.active)) = Len(evs)
        /\ \A i \in DOMAIN evs :
             Close(evs, st.active)[i].open => evs[i].open /\ i # st.active
    BY <1>4, CloseOneRow DEF IsOpen
  <2> QED BY <1>1, <2>1, <2>2, InsertedAfter
<1>5. CASE st.conf = nst.conf /\ IsOpen(evs, st.active) /\ ~(evs[st.active].age >= 1)
  BY <1>5 DEF RowsAfter
<1> QED BY <1>2, <1>3, <1>4, <1>5

\* The state of the initial event, or what process_cycle makes of the entry.
LEMMA DecidedResult ==
  ASSUME TypeOK
  PROVE  /\ Decided \in State /\ Decided.conf # None
         /\ entry.conf # None => Decided = Confirm(entry, link)
                                 /\ Decided.active = entry.active
         /\ entry.conf = None => Decided.conf = link /\ Decided.pending = None
<1>1. link \in Classes /\ entry \in State
  BY DEF TypeOK
<1>2. CASE entry.conf = None
  <2>1. Decided = [active |-> 0, conf |-> link, pending |-> None, count |-> 0]
    BY <1>2 DEF Decided, StateOf
  <2> QED BY <1>1, <1>2, <2>1, NoneAssumption DEF State
<1>3. CASE entry.conf # None
  <2>1. Decided = Confirm(entry, link)
    BY <1>3 DEF Decided
  <2> QED BY <1>1, <1>3, <2>1, ConfirmResult, NoneAssumption
<1> QED BY <1>2, <1>3

\* The id of an inserted row is all that is taken over from what was written.
LEMMA ActiveResult ==
  ASSUME NEW nst \in State, NEW evs \in Seq(Event), NEW rows \in Seq(Event)
  PROVE  /\ WithActive(nst, evs, rows) \in State
         /\ WithActive(nst, evs, rows).conf = nst.conf
         /\ WithActive(nst, evs, rows).pending = nst.pending
         /\ WithActive(nst, evs, rows).count = nst.count
         /\ WithActive(nst, evs, rows).active =
              IF Len(rows) = Len(evs) THEN nst.active ELSE Len(rows)
<1>1. Len(rows) \in Nat
  BY LenProperties
<1>2. CASE Len(rows) = Len(evs)
  BY <1>2 DEF WithActive
<1>3. CASE Len(rows) # Len(evs)
  <2>1. WithActive(nst, evs, rows) = [nst EXCEPT !.active = Len(rows)]
    BY <1>3, Zenon DEF WithActive
  <2> QED BY <1>1, <1>3, <2>1 DEF State
<1> QED BY <1>2, <1>3

\* What a decided cycle writes are rows again.
LEMMA WrittenType ==
  ASSUME TypeOK, fresh.conf # None
  PROVE  Written \in Seq(Event)
<1>1. entry \in State /\ fresh \in State /\ fresh.conf \in Classes /\ events \in Seq(Event)
  BY DEF TypeOK, State
<1>2. CASE entry.conf = None
  BY <1>1, <1>2, InsertRows DEF Written
<1>3. CASE entry.conf # None
  BY <1>1, <1>3, RowsResult DEF Written
<1> QED BY <1>2, <1>3

\* A cycle extends the run of committed cycles by its own class.
LEMMA ExtendResult ==
  ASSUME NEW r \in [det : Classes \cup {None}, len : Nat], NEW c \in Classes
  PROVE  Extend(r, c) \in [det : Classes \cup {None}, len : Nat] /\ Extend(r, c).det = c
BY ThresholdAssumption DEF Extend

\* Spending a bound keeps the record of what is spent a count per kind.
LEMMA SpendType ==
  ASSUME spent \in [Kinds -> Nat], NEW k \in Kinds, Spend(k)
  PROVE  spent' \in [Kinds -> Nat]
BY DEF Spend

\* The missing entry is an EndpointState with nothing confirmed or pending.
LEMMA NoStateType == NoState \in State /\ NoState.conf = None /\ NoState.pending = None
BY DEF NoState, State

\* initialize_endpoint resumes from the latest row, or from nothing.
LEMMA LoadedType ==
  ASSUME NEW evs \in Seq(Event)
  PROVE  /\ Loaded(evs) \in State /\ Loaded(evs).pending = None
         /\ evs # <<>> => /\ Len(evs) \in DOMAIN evs
                          /\ Loaded(evs).active = Len(evs)
                          /\ Loaded(evs).conf = evs[Len(evs)].det
                          /\ Loaded(evs).conf \in Classes
         /\ evs = <<>> => Loaded(evs) = NoState
<1>1. CASE evs = <<>>
  BY <1>1, NoStateType DEF Loaded
<1>2. CASE evs # <<>>
  <2>1. Len(evs) \in Nat \ {0} /\ DOMAIN evs = 1..Len(evs)
    BY <1>2, EmptySeq, LenProperties
  <2>2. evs[Len(evs)] \in Event
    BY <2>1, ElementOfSeq
  <2>3. Loaded(evs) = [active |-> Len(evs), conf |-> evs[Len(evs)].det,
                       pending |-> None, count |-> 0]
    BY <1>2 DEF Loaded, StateOf
  <2> QED BY <1>2, <2>1, <2>2, <2>3 DEF State, Event
<1> QED BY <1>1, <1>2

-----------------------------------------------------------------------------
(* Types.                                                                  *)

\* A cycle that has been decided has a state to record and a class it measured.
Underway == pc = "write" => fresh.conf # None /\ seen # None

\* The variables have their types, and a cycle under way has its decision.
LEMMA TypesHoldUnderway == Spec => [](TypeOK /\ Underway)
<1>1. Init => TypeOK /\ Underway
  <2> SUFFICES ASSUME Init PROVE TypeOK /\ Underway
    OBVIOUS
  <2>1. spent \in [Kinds -> Nat]
    BY DEF Init
  <2>2. events \in Seq(Event)
    BY EmptySeq DEF Init
  <2> QED BY <2>1, <2>2, NoStateType DEF Init, TypeOK, NoRun, Underway
<1>2. TypeOK /\ Underway /\ [Next]_vars => TypeOK' /\ Underway'
  <2> SUFFICES ASSUME TypeOK, Underway, [Next]_vars PROVE TypeOK' /\ Underway'
    OBVIOUS
  <2> USE DEF TypeOK, Underway
  <2>1. CASE Startup \/ Spawn
    BY <2>1, CloseRecentRows DEF Startup, Spawn
  <2>2. CASE Remove
    BY <2>2, NoStateType DEF Remove, NoRun
  <2>3. CASE Initialize
    BY <2>3, LoadedType DEF Initialize, NoRun
  <2>4. CASE Cycle
    <3>1. events' \in Seq(Event)
      BY <2>4, WrittenType DEF Cycle
    <3>2. fresh' \in State
      BY <2>4, WrittenType, ActiveResult DEF Cycle
    <3>3. run' \in [det : Classes \cup {None}, len : Nat]
      BY <2>4, ExtendResult DEF Cycle
    <3> QED BY <2>4, <3>1, <3>2, <3>3 DEF Cycle
  <2>15. CASE Decide
    <3>1. fresh' \in State /\ fresh'.conf # None
      BY <2>15, DecidedResult DEF Decide
    <3>2. told' \in Classes \cup {None}
      BY <2>15, DecidedResult DEF Decide, Publish, State
    <3> QED BY <2>15, <3>1, <3>2, NoneAssumption DEF Decide
  <2>5. CASE Store
    BY <2>5, NoStateType DEF Store
  <2>6. CASE InitializeFails
    BY <2>6, SpendType DEF InitializeFails, Kinds
  <2>7. CASE CycleFails
    <3>1. spent' \in [Kinds -> Nat]
      BY <2>7, SpendType DEF CycleFails, Kinds
    <3> QED BY <2>7, <3>1, NoStateType DEF CycleFails
  <2>8. CASE CycleUnacknowledged
    <3>1. events' \in Seq(Event)
      BY <2>8, WrittenType DEF CycleUnacknowledged
    <3>2. spent' \in [Kinds -> Nat]
      BY <2>8, SpendType DEF CycleUnacknowledged, Kinds
    <3> QED BY <2>8, <3>1, <3>2, NoStateType DEF CycleUnacknowledged
  <2>9. CASE Crash
    <3>1. spent' \in [Kinds -> Nat]
      BY <2>9, SpendType DEF Crash, Kinds
    <3> QED BY <2>9, <3>1, NoStateType DEF Crash, NoRun
  <2>10. CASE ForeignStartup
    <3>1. spent' \in [Kinds -> Nat]
      BY <2>10, SpendType DEF ForeignStartup, Kinds
    <3> QED BY <2>10, <3>1, CloseRecentRows DEF ForeignStartup
  <2>11. CASE LinkChanges
    <3>1. spent' \in [Kinds -> Nat]
      BY <2>11, SpendType DEF LinkChanges, Kinds
    <3> QED BY <2>11, <3>1 DEF LinkChanges
  <2>12. CASE ToggleActive
    <3>1. spent' \in [Kinds -> Nat]
      BY <2>12, SpendType DEF ToggleActive, Kinds
    <3> QED BY <2>12, <3>1 DEF ToggleActive
  <2>13. CASE DayPasses
    <3>1. spent' \in [Kinds -> Nat]
      BY <2>13, SpendType DEF DayPasses, Kinds
    <3>2. events' \in Seq(Event)
      BY <2>13, AgeRows DEF DayPasses
    <3> QED BY <2>13, <3>1, <3>2 DEF DayPasses
  <2>14. CASE UNCHANGED vars
    BY <2>14 DEF vars
  <2> QED
    BY <2>1, <2>2, <2>3, <2>4, <2>5, <2>6, <2>7, <2>8, <2>9, <2>10, <2>11, <2>12,
       <2>13, <2>14, <2>15 DEF Next, TaskStep, Faulty
<1> QED BY <1>1, <1>2, PTL DEF Spec

\* The variables always have their types: in particular no interleaving of the
\* task with crashes and cleanups leaves a half-built EndpointState.
THEOREM TypesHold == Spec => []TypeOK
BY TypesHoldUnderway, PTL

-----------------------------------------------------------------------------
(* Rows, when every COMMIT is answered.                                    *)

\* What a sequence of rows and the EndpointState that goes with it satisfy.
Tracks(evs, st) ==
  /\ evs \in Seq(Event) /\ evs # <<>>
  /\ \A i \in DOMAIN evs : evs[i].open => i = Len(evs)
  /\ st.active = Len(evs) /\ st.conf = evs[Len(evs)].det

\* What a cycle commits keeps the state on the latest row, the only open one.
LEMMA CycleTracks ==
  ASSUME TypeOK, Underway, RowsInv, pc = "write"
  PROVE  /\ Tracks(Written, WithActive(fresh, events, Written))
         /\ WithActive(fresh, events, Written).conf = fresh.conf
<1>1. /\ fresh \in State /\ fresh.conf \in Classes /\ entry \in State
      /\ events \in Seq(Event) /\ Len(events) \in Nat /\ DOMAIN events = 1..Len(events)
  BY LenProperties DEF TypeOK, Underway, State
<1>2. Written \in Seq(Event) /\ Len(Written) \in Nat
  BY WrittenType, LenProperties DEF Underway
<1> DEFINE st == WithActive(fresh, events, Written)
<1>3. /\ st.conf = fresh.conf
      /\ st.active = IF Len(Written) = Len(events) THEN fresh.active ELSE Len(Written)
  BY <1>1, <1>2, ActiveResult
<1> HIDE DEF st
<1>4. CASE entry.conf = None
  <2>1. Written = Insert(events, fresh.conf)
    BY <1>4 DEF Written
  <2>2. Len(events) = 0
    BY <1>1, <1>4, NoRows DEF RowsInv
  <2>3. /\ Len(Written) = 1 /\ DOMAIN Written = 1..1 /\ Written[1].det = fresh.conf
    <3>1. /\ Len(Written) = Len(events) + 1
          /\ DOMAIN Written = 1..(Len(events) + 1)
          /\ Written[Len(events) + 1] = [det |-> fresh.conf, open |-> TRUE, age |-> 0]
      BY <1>1, <2>1, InsertRows
    <3> QED BY <2>2, <3>1
  <2>4. Written # <<>> /\ st.active = 1
    <3>1. Len(Written) # Len(events)
      BY <2>2, <2>3
    <3>2. st.active = Len(Written)
      BY <1>3, <3>1
    <3>3. Written # <<>>
      BY <1>2, <2>3, NoRows
    <3> QED BY <2>3, <3>2, <3>3
  <2>5. \A i \in DOMAIN Written : i = Len(Written)
    BY <2>3
  <2> QED BY <1>2, <1>3, <2>3, <2>4, <2>5 DEF Tracks, st
<1>5. CASE entry.conf # None
  <2>1. Written = RowsAfter(entry, fresh, events)
    BY <1>5 DEF Written
  <2>2. /\ events # <<>> /\ entry.active = Len(events)
        /\ entry.conf = events[Len(events)].det /\ fresh.active = entry.active
        /\ \A i \in DOMAIN events : events[i].open => i = Len(events)
    BY <1>5 DEF RowsInv, LatestDet
  <2>3. \/ Written = events /\ fresh.conf = entry.conf
        \/ OneMoreRow(events, Written, entry, fresh.conf)
    BY <1>1, <2>1, RowsResult, NoneAssumption
  <2>4. CASE Written = events /\ fresh.conf = entry.conf
    BY <1>1, <1>3, <2>2, <2>4 DEF Tracks, st
  <2>5. CASE OneMoreRow(events, Written, entry, fresh.conf)
    <3>1. /\ Len(Written) = Len(events) + 1 /\ DOMAIN Written = 1..(Len(events) + 1)
          /\ Written[Len(Written)].det = fresh.conf
          /\ \A i \in DOMAIN events : ~Written[i].open
      BY <2>2, <2>5 DEF OneMoreRow
    <3>2. st.active = Len(Written)
      <4>1. Len(Written) = Len(events) + 1 /\ Len(events) \in Nat
        BY <1>1, <3>1
      <4>2. Len(Written) # Len(events)
        BY <4>1
      <4> QED BY <1>3, <4>2
    <3>3. \A i \in DOMAIN Written : Written[i].open => i = Len(Written)
      BY <1>1, <3>1
    <3>4. Written # <<>>
      BY <1>1, <1>2, <3>1, NoRows
    <3> QED BY <1>2, <1>3, <3>1, <3>2, <3>3, <3>4 DEF Tracks, st
  <2> QED BY <2>3, <2>4, <2>5
<1> QED BY <1>3, <1>4, <1>5 DEF st

\* A cleanup or the passing of time rewrites rows without opening any.
LEMMA RewriteKeepsRows ==
  ASSUME TypeOK, RowsInv, events' \in Seq(Event), Len(events') = Len(events),
         \A i \in DOMAIN events :
           (events'[i].open => events[i].open) /\ events'[i].det = events[i].det
  PROVE  /\ \A i \in DOMAIN events' : events'[i].open => i = Len(events')
         /\ LatestDet' = LatestDet /\ (events' = <<>> <=> events = <<>>)
<1>1. /\ Len(events) \in Nat /\ DOMAIN events = 1..Len(events)
      /\ DOMAIN events' = 1..Len(events)
  BY LenProperties DEF TypeOK
<1>2. /\ events = <<>> <=> Len(events) = 0
      /\ events' = <<>> <=> Len(events') = 0
  BY NoRows DEF TypeOK
<1> QED BY <1>1, <1>2 DEF RowsInv, LatestDet

\* Every step of the engine and its environment preserves RowsInv.
LEMMA RowsInductive ==
  ASSUME TypeOK, Underway, RowsInv, ~LostAcks, [Next]_vars
  PROVE  RowsInv'
<1>1. events \in Seq(Event)
  BY DEF TypeOK
<1>2. CASE Startup \/ ForeignStartup
  <2>1. events' = CloseRecent(events) /\ entry' = entry /\ fresh' = fresh /\ pc' = pc
    BY <1>2 DEF Startup, ForeignStartup
  <2>2. /\ \A i \in DOMAIN events' : events'[i].open => i = Len(events')
        /\ LatestDet' = LatestDet /\ (events' = <<>> <=> events = <<>>)
        /\ Len(events') = Len(events)
    BY <1>1, <2>1, CloseRecentRows, RewriteKeepsRows
  <2> QED BY <2>1, <2>2 DEF RowsInv
<1>3. CASE DayPasses
  <2>1. events' \in Seq(Event) /\ Len(events') = Len(events)
        /\ \A i \in DOMAIN events :
             events'[i].open = events[i].open /\ events'[i].det = events[i].det
    <3>1. PICK k \in DOMAIN events :
            events' = [i \in DOMAIN events |->
                        IF i <= k /\ events[i].open /\ events[i].age < 2
                        THEN [events[i] EXCEPT !.age = @ + 1] ELSE events[i]]
      BY <1>3 DEF DayPasses
    <3> QED BY <1>1, <3>1, AgeRows
  <2>2. /\ \A i \in DOMAIN events' : events'[i].open => i = Len(events')
        /\ LatestDet' = LatestDet /\ (events' = <<>> <=> events = <<>>)
    BY <2>1, RewriteKeepsRows
  <2> QED BY <1>3, <2>1, <2>2 DEF RowsInv, DayPasses
<1>4. CASE Spawn \/ Remove \/ Crash \/ InitializeFails
  BY <1>4 DEF RowsInv, Spawn, Remove, Crash, InitializeFails, LatestDet
<1>5. CASE Initialize
  <2>1. /\ events # <<>> => /\ entry'.active = Len(events)
                           /\ entry'.conf = events[Len(events)].det
                           /\ entry'.conf # None
        /\ events = <<>> => entry' = NoState
        /\ events' = events
    BY <1>1, <1>5, LoadedType, NoneAssumption DEF Initialize
  <2> QED BY <1>5, <2>1 DEF RowsInv, Initialize, LatestDet
<1>6. CASE Cycle
  <2>1. Tracks(events', fresh')
    BY <1>6, CycleTracks DEF Cycle
  <2> QED BY <1>6, <2>1 DEF RowsInv, Cycle, Tracks, LatestDet
<1>11. CASE Decide
  <2>1. entry.conf # None => fresh'.active = entry.active
    BY <1>11, DecidedResult DEF Decide
  <2>2. entry.conf # None => pc = "cycle"
    BY <1>11, NoStateType DEF RowsInv, Decide
  <2> QED BY <1>11, <2>1, <2>2 DEF RowsInv, Decide, LatestDet
<1>7. CASE Store
  <2>1. events # <<>> => LatestDet # None
    BY <1>1, LoadedType, NoneAssumption DEF LatestDet
  <2> QED BY <1>7, <2>1 DEF RowsInv, Store, LatestDet
<1>8. CASE CycleFails
  BY <1>8, NoStateType DEF RowsInv, CycleFails, LatestDet
<1>9. CASE CycleUnacknowledged
  BY <1>9 DEF CycleUnacknowledged
<1>10. CASE LinkChanges \/ ToggleActive \/ UNCHANGED vars
  BY <1>10 DEF RowsInv, LinkChanges, ToggleActive, vars, LatestDet
<1> QED
  BY <1>2, <1>3, <1>4, <1>5, <1>6, <1>7, <1>8, <1>9, <1>10,
     <1>11 DEF Next, TaskStep, Faulty

\* RowsInv holds of every reachable state.
LEMMA RowsInvHolds ==
  ASSUME ~LostAcks
  PROVE  Spec => [](TypeOK /\ Underway /\ RowsInv)
<1>1. Init => RowsInv
  BY DEF Init, RowsInv
<1>2. TypeOK /\ Underway /\ RowsInv /\ [Next]_vars => RowsInv'
  BY RowsInductive
<1> QED BY <1>1, <1>2, TypesHoldUnderway, PTL DEF Spec

\* While every COMMIT is answered, the engine never has two open rows for the
\* endpoint, so that no time is counted twice.
THEOREM RowsHold ==
  ASSUME ~LostAcks
  PROVE  Spec => []OneOpenRow
<1>1. RowsInv => OneOpenRow
  BY DEF RowsInv, OneOpenRow
<1> QED BY <1>1, RowsInvHolds, PTL

\* Nor does the task's entry ever part from the latest row between two cycles,
\* whichever rows roll-overs, replacements and other workers' cleanups leave.
THEOREM EntryHoldsTheLatestRow ==
  ASSUME ~LostAcks
  PROVE  Spec => []EntryIsLatestRow
<1>1. RowsInv => EntryIsLatestRow
  BY DEF RowsInv, EntryIsLatestRow, LatestDet
<1> QED BY <1>1, RowsInvHolds, PTL

\* Ageing leaves the recorded state alone, and so do the cleanups.
LEMMA RecordedStays ==
  ASSUME TypeOK, RowsInv, DayPasses \/ Startup \/ ForeignStartup
  PROVE  LatestDet' = LatestDet /\ told' = told
<1>1. CASE DayPasses
  <2>1. PICK k \in DOMAIN events :
          events' = [i \in DOMAIN events |->
                      IF i <= k /\ events[i].open /\ events[i].age < 2
                      THEN [events[i] EXCEPT !.age = @ + 1] ELSE events[i]]
    BY <1>1 DEF DayPasses
  <2>2. /\ events' \in Seq(Event) /\ Len(events') = Len(events)
        /\ \A i \in DOMAIN events :
             events'[i].open = events[i].open /\ events'[i].det = events[i].det
    BY <2>1, AgeRows DEF TypeOK
  <2> QED BY <1>1, <2>2, RewriteKeepsRows DEF DayPasses
<1>2. CASE Startup \/ ForeignStartup
  BY <1>2, CloseRecentRows, RewriteKeepsRows DEF TypeOK, Startup, ForeignStartup
<1> QED BY <1>1, <1>2

\* Every step of the engine and its environment preserves ToldInv.
LEMMA ToldInductive ==
  ASSUME TypeOK, RowsInv, ToldInv, [Next]_vars
  PROVE  ToldInv'
<1>1. CASE Decide
  BY <1>1 DEF ToldInv, Decide, Publish
<1>2. CASE Spawn \/ Remove \/ Initialize \/ InitializeFails \/ Cycle \/ Store
           \/ CycleFails \/ CycleUnacknowledged \/ Crash
  BY <1>2 DEF ToldInv, Spawn, Remove, Initialize, InitializeFails, Cycle, Store,
              CycleFails, CycleUnacknowledged, Crash
<1>3. CASE Startup \/ ForeignStartup \/ LinkChanges \/ ToggleActive \/ DayPasses
           \/ UNCHANGED vars
  BY <1>3 DEF ToldInv, Startup, ForeignStartup, LinkChanges, ToggleActive, DayPasses, vars
<1> QED BY <1>1, <1>2, <1>3 DEF Next, TaskStep, Faulty

\* What a step that records does to the record and to what subscribers know.
LEMMA CycleRecords ==
  ASSUME TypeOK, Underway, RowsInv, ToldInv, Cycle
  PROVE  /\ LatestDet' = fresh.conf /\ told' = told
         /\ LatestDet = entry.conf
         /\ LatestDet \notin {None, LatestDet'} => told' = LatestDet'
<1>1. pc = "write" /\ told' = told
  BY DEF Cycle
<1>2. LatestDet' = fresh.conf
  BY <1>1, CycleTracks DEF Cycle, Tracks, LatestDet
<1>3. LatestDet = entry.conf
  BY <1>1 DEF RowsInv, LatestDet
<1> QED BY <1>1, <1>2, <1>3 DEF ToldInv

\* Subscribers know what is recorded or about to be, until a cycle that has told them
\* of a transition ends without its commit: no other step, and no order of them, parts
\* the two.  And a transition is never recorded behind their back.
THEOREM SubscribersFollowTheRecord ==
  ASSUME ~LostAcks
  PROVE  Spec => ToldIsRecorded
<1> DEFINE Parts == pc = "write" /\ told # LatestDet /\ (CycleFails \/ Crash \/ Remove)
           Heard == LatestDet \notin {None, LatestDet'} => told' = LatestDet'
<1>1. TypeOK /\ Underway /\ RowsInv /\ ToldInv /\ [Next]_vars
        => [(Informed /\ ~Informed' => Parts) /\ Heard]_vars
  <2> SUFFICES ASSUME TypeOK, Underway, RowsInv, ToldInv, Next
               PROVE  (Informed /\ ~Informed' => Parts) /\ Heard
    OBVIOUS
  <2>1. CASE Cycle
    <3>1. pc = "write"
      BY <2>1 DEF Cycle
    <3> QED BY <2>1, <3>1, CycleRecords DEF Informed, ToldInv
  <2>2. CASE DayPasses \/ Startup \/ ForeignStartup
    <3>1. LatestDet' = LatestDet /\ told' = told /\ pc' = pc /\ fresh' = fresh
      BY <2>2, RecordedStays DEF DayPasses, Startup, ForeignStartup
    <3> QED BY <3>1 DEF Informed
  <2>3. CASE Decide
    <3>1. /\ fresh' = Decided /\ pc' = "write" /\ LatestDet' = LatestDet /\ pc # "write"
          /\ told' = IF entry.conf # None /\ Decided.conf # entry.conf
                     THEN Decided.conf ELSE told
      BY <2>3 DEF Decide, Publish, LatestDet
    <3> QED BY <3>1 DEF Informed
  <2>4. CASE CycleFails \/ Crash \/ Remove
    <3>1. LatestDet' = LatestDet /\ told' = told
      BY <2>4 DEF CycleFails, Crash, Remove, LatestDet
    <3> QED BY <2>4, <3>1 DEF Informed
  <2>5. CASE Spawn \/ Initialize \/ InitializeFails \/ Store
    <3>1. LatestDet' = LatestDet /\ told' = told /\ pc # "write"
      BY <2>5 DEF Spawn, Initialize, InitializeFails, Store, LatestDet
    <3> QED BY <3>1 DEF Informed
  <2>6. CASE LinkChanges \/ ToggleActive
    <3>1. LatestDet' = LatestDet /\ told' = told /\ pc' = pc /\ fresh' = fresh
      BY <2>6 DEF LinkChanges, ToggleActive, LatestDet
    <3> QED BY <3>1 DEF Informed
  <2>7. ~CycleUnacknowledged
    BY DEF CycleUnacknowledged
  <2> QED BY <2>1, <2>2, <2>3, <2>4, <2>5, <2>6, <2>7 DEF Next, TaskStep, Faulty
<1>2. Init => ToldInv
  BY DEF Init, ToldInv
<1>3. TypeOK /\ RowsInv /\ ToldInv /\ [Next]_vars => ToldInv'
  BY ToldInductive
<1> QED BY <1>1, <1>2, <1>3, RowsInvHolds, PTL DEF Spec, ToldIsRecorded

-----------------------------------------------------------------------------
(* The pending counter, whatever fails.                                    *)

\* One more cycle keeps the counter equal to the run, and confirms a change
\* exactly when the run reaches the threshold.
LEMMA ConfirmCounts ==
  ASSUME NEW st \in State, st.conf # None, NEW c \in Classes,
         NEW r \in [det : Classes \cup {None}, len : Nat], Counts(st, r),
         r.det = None => r.len = 0
  PROVE  /\ Counts(Confirm(st, c), Extend(r, c))
         /\ Confirm(st, c).conf # st.conf =>
              Extend(r, c) = [det |-> c, len |-> Threshold] /\ Confirm(st, c).conf = c
<1> USE ThresholdAssumption, NoneAssumption
<1>1. CASE c = st.conf
  BY <1>1 DEF Counts, Confirm, ClearPending, StateOf, Extend, State
<1>2. CASE c # st.conf /\ c # st.pending
  <2>1. Confirm(st, c) = [active |-> st.active, conf |-> st.conf, pending |-> c, count |-> 1]
    BY <1>2 DEF Confirm, Waiting
  <2>2. r.det # c
    BY <1>2 DEF Counts
  <2>3. Extend(r, c) = [det |-> c, len |-> 1]
    BY <2>2 DEF Extend
  <2> QED BY <1>2, <2>1, <2>3 DEF Counts
<1>3. CASE c # st.conf /\ c = st.pending
  <2>1. r = [det |-> c, len |-> st.count] /\ st.count \in 1..(Threshold - 1)
    BY <1>3 DEF Counts
  <2>2. Extend(r, c) = [det |-> c, len |-> st.count + 1]
    BY <2>1 DEF Extend
  <2>3. CASE st.count + 1 < Threshold
    <3>1. Confirm(st, c) = [active |-> st.active, conf |-> st.conf,
                            pending |-> c, count |-> st.count + 1]
      BY <1>3, <2>1, <2>3 DEF Confirm, Waiting, Reached
    <3> QED BY <1>3, <2>1, <2>2, <2>3, <3>1 DEF Counts
  <2>4. CASE ~(st.count + 1 < Threshold)
    <3>1. Confirm(st, c) = [active |-> st.active, conf |-> c, pending |-> None, count |-> 0]
      BY <1>3, <2>1, <2>4 DEF Confirm, StateOf, Reached
    <3>2. st.count + 1 = Threshold
      BY <2>1, <2>4
    <3> QED BY <2>2, <3>1, <3>2 DEF Counts
  <2> QED BY <2>3, <2>4
<1> QED BY <1>1, <1>2, <1>3

\* The same for what the task decides, the initial event included.
LEMMA DecideCounts ==
  ASSUME TypeOK, CountInv, pc \in {"baseline", "cycle"}
  PROVE  /\ Counts(Decided, Extend(run, link))
         /\ entry.conf \notin {None, Decided.conf} =>
              Extend(run, link) = [det |-> Decided.conf, len |-> Threshold]
<1>1. /\ link \in Classes /\ entry \in State
      /\ run \in [det : Classes \cup {None}, len : Nat]
  BY DEF TypeOK
<1>2. CASE entry.conf = None
  <2>1. Extend(run, link).det = link
    BY <1>1, ExtendResult
  <2> QED BY <1>2, <2>1, DecidedResult DEF Counts
<1>3. CASE entry.conf # None
  <2>1. Decided = Confirm(entry, link)
    BY <1>3 DEF Decided
  <2>2. Counts(entry, run)
    BY DEF CountInv, Current, Counts
  <2>3. run.det = None => run.len = 0
    BY DEF CountInv
  <2> QED BY <1>1, <1>3, <2>1, <2>2, <2>3, ConfirmCounts
<1> QED BY <1>2, <1>3

\* Every step of the engine and its environment preserves CountInv.
LEMMA CountInductive ==
  ASSUME TypeOK, Underway, CountInv, [Next]_vars
  PROVE  CountInv'
<1>1. CASE Startup \/ Spawn \/ ForeignStartup \/ InitializeFails \/ LinkChanges
           \/ ToggleActive \/ DayPasses \/ UNCHANGED vars
  BY <1>1 DEF CountInv, Current, Startup, Spawn, ForeignStartup, InitializeFails,
              LinkChanges, ToggleActive, DayPasses, vars
<1>2. CASE Remove \/ Crash
  BY <1>2 DEF CountInv, Current, Remove, Crash, NoRun
<1>3. CASE Initialize
  <2>1. entry'.pending = None /\ (events = <<>> => entry' = NoState)
    BY <1>3, LoadedType DEF Initialize, TypeOK
  <2>2. /\ pc' = IF events = <<>> THEN "baseline" ELSE "cycle"
        /\ run' = [det |-> None, len |-> 0]
    BY <1>3 DEF Initialize, NoRun
  <2>3. Counts(entry', run')
    BY <2>1, <2>2 DEF Counts
  <2> QED BY <2>1, <2>2, <2>3 DEF CountInv, Current
<1>7. CASE Decide
  <2>1. pc \in {"baseline", "cycle"} /\ fresh' = Decided /\ seen' = link /\ run' = run
        /\ entry' = entry /\ pc' = "write" /\ link \in Classes
    BY <1>7 DEF Decide, TypeOK
  <2>2. Counts(entry, run)
    BY <2>1 DEF CountInv, Current, Counts
  <2> DEFINE longer == Extend(run, link)
  <2>3. /\ Counts(Decided, longer)
        /\ entry.conf \notin {None, Decided.conf} =>
             longer = [det |-> Decided.conf, len |-> Threshold]
    BY <2>1, DecideCounts
  <2>4. Extend(run', seen') = longer
    BY <2>1
  <2>5. /\ Decided.conf # None
        /\ entry.conf = None => Decided.pending = None /\ Decided.conf = link
    BY DecidedResult
  <2>6. run.det = None => run.len = 0
    BY DEF CountInv
  <2> HIDE DEF longer
  <2> QED BY <2>1, <2>2, <2>3, <2>4, <2>5, <2>6, NoneAssumption DEF CountInv, Current, Counts
<1>4. CASE Cycle
  <2>1. /\ pc = "write" /\ pc' = "store" /\ entry' = entry /\ run' = Extend(run, seen)
        /\ fresh' = WithActive(fresh, events, Written)
    BY <1>4 DEF Cycle
  <2>2. /\ fresh'.conf = fresh.conf /\ fresh'.pending = fresh.pending
        /\ fresh'.count = fresh.count
    BY <2>1, WrittenType, ActiveResult DEF TypeOK, Underway
  <2>3. /\ Counts(fresh, run') /\ fresh.conf # None
        /\ entry.conf \notin {None, fresh.conf} =>
             run' = [det |-> fresh.conf, len |-> Threshold]
    BY <2>1 DEF CountInv
  <2>4. Counts(fresh', run')
    BY <2>2, <2>3 DEF Counts
  <2>5. run'.det # None
    BY <2>1, ExtendResult, NoneAssumption DEF Underway, TypeOK
  <2>6. entry.conf \notin {None, fresh.conf} =>
          run'.len >= Threshold /\ run'.det = fresh.conf
    BY <2>3, ThresholdAssumption
  <2> QED BY <2>1, <2>2, <2>3, <2>4, <2>5, <2>6 DEF CountInv, Current
<1>5. CASE Store
  BY <1>5 DEF CountInv, Current, Store
<1>6. CASE CycleFails \/ CycleUnacknowledged
  BY <1>6 DEF CountInv, Current, CycleFails, CycleUnacknowledged
<1> QED
  BY <1>1, <1>2, <1>3, <1>4, <1>5, <1>6, <1>7 DEF Next, TaskStep, Faulty

\* The pending counter of every reachable state counts committed cycles.
LEMMA CountHolds == Spec => [](TypeOK /\ Underway /\ CountInv)
<1>1. Init => CountInv
  BY NoStateType DEF Init, CountInv, Current, NoRun
<1> QED BY <1>1, CountInductive, TypesHoldUnderway, PTL DEF Spec

\* No failed transaction, crash or lost answer makes the engine miss a change
\* that Threshold committed cycles in a row have shown.
THEOREM ChangesAreNotMissed == Spec => []NoMissedChange
<1>1. TypeOK /\ CountInv => NoMissedChange
  <2> SUFFICES ASSUME TypeOK, CountInv, pc = "cycle", run.len >= Threshold
               PROVE  entry.conf = run.det
    BY DEF NoMissedChange
  <2>1. \/ entry.pending = None /\ run.det \in {None, entry.conf}
        \/ run.len \in 1..(Threshold - 1)
    BY DEF CountInv, Current, Counts
  <2>2. run.det # None
    BY ThresholdAssumption DEF CountInv
  <2> QED BY <2>1, <2>2, ThresholdAssumption
<1> QED BY <1>1, CountHolds, PTL

\* Nor does any of them let the confirmed state change before Threshold
\* committed cycles in a row agree on the new one.
THEOREM ChangesAreSustained == Spec => SustainedChange
<1> DEFINE Changes == entry.conf # None /\ entry'.conf \notin {None, entry.conf}
                        => run.len >= Threshold /\ run.det = entry'.conf
<1>1. TypeOK /\ CountInv /\ [Next]_vars => [Changes]_vars
  <2> SUFFICES ASSUME TypeOK, CountInv, Next, entry.conf # None,
                      entry'.conf \notin {None, entry.conf}
               PROVE  run.len >= Threshold /\ run.det = entry'.conf
    BY DEF vars
  <2>1. CASE Store
    BY <2>1 DEF Store, CountInv
  <2>2. CASE Initialize
    BY <2>2, NoStateType DEF Initialize, CountInv
  <2>3. CASE Remove \/ Crash
    BY <2>3, NoStateType DEF Remove, Crash
  <2>4. CASE ~(Store \/ Initialize \/ Remove \/ Crash)
    BY <2>4 DEF Next, TaskStep, Faulty, Startup, Spawn, Decide, Cycle, InitializeFails,
                CycleFails, CycleUnacknowledged, ForeignStartup, LinkChanges,
                ToggleActive, DayPasses
  <2> QED BY <2>1, <2>2, <2>3, <2>4
<1> QED BY <1>1, CountHolds, PTL DEF Spec, SustainedChange
-----------------------------------------------------------------------------
(* The rule of ConfirmedState, when every COMMIT is answered.              *)

\* A commit moves the recorded state as ConfirmedState observes what was measured.
LEMMA CycleObserves ==
  ASSUME TypeOK, Underway, RowsInv, CountInv, Cycle
  PROVE  Abstract!Observe(seen)
<1>1. /\ pc = "write" /\ seen \in Classes /\ seen # None
      /\ run \in [det : Classes \cup {None}, len : Nat]
  BY NoneAssumption DEF TypeOK, Underway, Cycle
<1>2. run' = Extend(run, seen) /\ run'.det = seen /\ Extend(run, seen) = Abstract!Longer(seen)
  BY <1>1, ExtendResult DEF Cycle, Extend, Abstract!Longer
<1>3. LatestDet' = fresh.conf /\ LatestDet = entry.conf
  <2>1. LatestDet' = fresh.conf
    BY <1>1, CycleTracks DEF Cycle, Tracks, LatestDet
  <2> QED BY <1>1, <2>1 DEF RowsInv, LatestDet
<1>4. Counts(fresh, run')
  BY <1>1, <1>2 DEF CountInv
<1>5. CASE entry.conf = None
  <2>1. fresh.conf = seen
    BY <1>1, <1>5 DEF CountInv
  <2> QED BY <1>2, <1>3, <1>5, <2>1 DEF Abstract!Observe
<1>6. CASE entry.conf # None /\ fresh.conf # entry.conf
  <2>1. run' = [det |-> fresh.conf, len |-> Threshold]
    BY <1>1, <1>2, <1>6 DEF CountInv
  <2>2. run'.len >= Threshold /\ seen = fresh.conf
    BY <1>2, <2>1, ThresholdAssumption
  <2> QED BY <1>2, <1>3, <2>2 DEF Abstract!Observe
<1>7. CASE entry.conf # None /\ fresh.conf = entry.conf
  <2>1. seen = entry.conf \/ run'.len \in 1..(Threshold - 1)
    BY <1>1, <1>2, <1>4, <1>7 DEF Counts
  <2>2. seen = entry.conf \/ ~(run'.len >= Threshold)
    BY <2>1, ThresholdAssumption
  <2> QED BY <1>2, <1>3, <1>7, <2>2 DEF Abstract!Observe
<1> QED BY <1>5, <1>6, <1>7

\* Whatever the rows, tasks and cleanups do, the recorded state of the endpoint
\* follows the N-in-a-row rule: the engine implements ConfirmedState.
THEOREM TheRuleIsFollowed ==
  ASSUME ~LostAcks
  PROVE  Spec => FollowsTheRule
<1>1. Init => Abstract!Init
  BY DEF Init, LatestDet, NoRun, Abstract!Init, Abstract!Unobserved
<1>2. Init => RowsInv
  BY DEF Init, RowsInv
<1>3. TypeOK /\ Underway /\ RowsInv /\ [Next]_vars => RowsInv'
  BY RowsInductive
<1>4. TypeOK /\ Underway /\ RowsInv /\ CountInv /\ [Next]_vars
        => [Abstract!Next]_<<LatestDet, run>>
  <2> SUFFICES ASSUME TypeOK, Underway, RowsInv, CountInv, [Next]_vars
               PROVE  [Abstract!Next]_<<LatestDet, run>>
    OBVIOUS
  <2>1. CASE Cycle
    <3>1. seen \in Classes
      BY <2>1 DEF Cycle, Underway, TypeOK
    <3> QED BY <2>1, <3>1, CycleObserves DEF Abstract!Next
  <2>2. CASE Remove \/ Crash \/ Initialize
    BY <2>2 DEF Remove, Crash, Initialize, LatestDet, NoRun,
                Abstract!Next, Abstract!Forget, Abstract!Unobserved
  <2>3. CASE Startup \/ ForeignStartup \/ DayPasses
    BY <2>3, RecordedStays DEF Startup, ForeignStartup, DayPasses
  <2>4. CASE Spawn \/ InitializeFails \/ CycleFails \/ Store \/ LinkChanges
             \/ Decide \/ ToggleActive \/ UNCHANGED vars
    BY <2>4 DEF Decide, Spawn, InitializeFails, CycleFails, Store, LinkChanges,
                ToggleActive, vars, LatestDet
  <2>5. ~CycleUnacknowledged
    BY DEF CycleUnacknowledged
  <2> QED BY <2>1, <2>2, <2>3, <2>4, <2>5 DEF Next, TaskStep, Faulty
<1> QED BY <1>1, <1>2, <1>3, <1>4, CountHolds, PTL
        DEF Spec, FollowsTheRule, Abstract!Spec
=============================================================================
