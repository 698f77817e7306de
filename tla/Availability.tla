---------------------------- MODULE Availability ----------------------------
(***************************************************************************)
(* What the availability reports say of an endpoint, computed from its rows *)
(* of endpoint_events as the engine leaves them: through state changes,     *)
(* roll-overs, engine stops, crashes and start-ups (its own or another      *)
(* worker's).  EndpointMonitor decides which state is confirmed when; here  *)
(* a cycle either confirms a state or keeps the confirmed one, and the rows *)
(* have start and end times.  The engine and the API process meet only in   *)
(* the rows: a report may be asked for at any time, of any window.          *)
(*                                                                         *)
(* Time is counted in ticks, Second of them to a second: rows begin and end *)
(* at any tick, and each report makes whole seconds of them in its own way. *)
(* Of a tick's cycles at most one commits.                                  *)
(***************************************************************************)
EXTENDS Integers, Sequences, FiniteSetsExt

CONSTANTS
  Null,      \* SQL's NULL
  Second,    \* the ticks of a second
  Day,       \* the seconds after which an open row is rolled over
  Created,   \* endpoints.created_at
  MaxTime,   \* the last cycle considered
  MaxRows,   \* the rows considered
  MaxStops,  \* how often the engine stops, or another worker starts
  MaxGaps    \* how many gaps are entered into monitoring_service_events

ASSUME BoundsAssumption ==
  /\ Null \notin Nat
  /\ {Second, Day} \subseteq Nat \ {0} /\ Created \in Nat
  /\ MaxTime \in Nat /\ Created <= MaxTime /\ MaxRows \in Nat /\ MaxStops \in Nat /\ MaxGaps \in Nat

VARIABLES
  now,      \* the clock
  rows,     \* the endpoint's rows, ordered by start_time
  gaps,     \* monitoring_service_events
  engine,   \* "off", "started" (no cycle yet) or "running"
  stops,    \* how much of MaxStops is used
  done,     \* has a cycle committed at this time?
  past,     \* history: past[t], what the rows said of the time t when it passed
  outages   \* history: outages[i], the number of the outage rows[i] belongs to, or 0

vars == <<now, rows, gaps, engine, stops, done, past, outages>>

-----------------------------------------------------------------------------
(* The rows.                                                               *)

Ops == {"UP", "DOWN"}

Times == 0..MaxTime

\* endpoint_events: the operational state, start_time, end_time.
Row == [op : Ops, start : Times, end : Times \cup {Null}]

IsOpen(r) == r.end = Null

Closed(r) == IF IsOpen(r) THEN [r EXCEPT !.end = now] ELSE r

CloseAll == [i \in DOMAIN rows |-> Closed(rows[i])]

NewRow(op) == [op |-> op, start |-> now, end |-> Null]

Latest == rows[Len(rows)]

\* PostgreSQL's conversion of seconds to ::BIGINT or ::integer.
Rounded(ticks) == (2 * ticks + Second) \div (2 * Second)

\* Python's int() of seconds.
Truncated(ticks) == ticks \div Second

\* The number of the latest outage.
LastOutage == Max({outages[i] : i \in DOMAIN outages} \cup {0})

-----------------------------------------------------------------------------
(* The engine.                                                             *)

Init ==
  /\ now = Created
  /\ rows = <<>>
  /\ gaps = {}
  /\ engine = "off"
  /\ stops = 0
  /\ done = FALSE
  /\ past = [t \in 0..(Created - 1) |-> "none"]
  /\ outages = <<>>

\* resolve_startup_state: open rows end when the engine starts.  (No program
\* code opens a gap, so none is open; rows over seven days old are left to
\* EndpointMonitor.)
Start ==
  /\ engine = "off"
  /\ engine' = "started"
  /\ rows' = CloseAll
  /\ UNCHANGED <<now, gaps, stops, done, past, outages>>

\* The engine is stopped, or dies: nothing is written.
Stop ==
  /\ engine # "off" /\ stops < MaxStops
  /\ engine' = "off"
  /\ stops' = stops + 1
  /\ UNCHANGED <<now, rows, gaps, done, past, outages>>

\* Another worker's start-up cleanup.
ForeignStartup ==
  /\ engine = "running" /\ stops < MaxStops
  /\ stops' = stops + 1
  /\ rows' = CloseAll
  /\ UNCHANGED <<now, gaps, engine, done, past, outages>>

\* A new row: of the same outage as the row before it, if both are DOWN.
AddRow(kept, op) ==
  /\ Len(rows) < MaxRows
  /\ rows' = Append(kept, NewRow(op))
  /\ outages' = Append(outages,
       IF op = "UP" THEN 0
       ELSE IF rows # <<>> /\ Latest.op = "DOWN" THEN LastOutage
       ELSE LastOutage + 1)

\* One committed cycle of the endpoint's sweep task.
Cycle ==
  /\ engine # "off" /\ ~done
  /\ engine' = "running"
  /\ done' = TRUE
  /\ UNCHANGED <<now, gaps, stops, past>>

\* create_initial_event.
FirstCycle ==
  /\ Cycle
  /\ rows = <<>>
  /\ \E op \in Ops : AddRow(rows, op)

\* A change of the detailed state is confirmed, with or without a change of the
\* operational state.  A start-up is never followed by one at once.
ChangeCycle ==
  /\ Cycle
  /\ rows # <<>> /\ engine = "running"
  /\ \E op \in Ops : AddRow(CloseAll, op)

\* The confirmed state is kept: the row is rolled over, replaced when it has
\* been closed, or updated.
SameCycle ==
  /\ Cycle
  /\ rows # <<>>
  /\ IF IsOpen(Latest) /\ Rounded(now - Latest.start) < Day
     THEN UNCHANGED <<rows, outages>>
     ELSE AddRow(CloseAll, Latest.op)

\* Somebody enters a past interval during which there was no monitoring.
EnterGap ==
  /\ Cardinality(gaps) < MaxGaps
  /\ \E s, e \in 0..now :
       /\ s < e
       /\ \A g \in gaps : e <= g.start \/ g.end <= s
       /\ gaps' = gaps \cup {[start |-> s, end |-> e]}
  /\ UNCHANGED <<now, rows, engine, stops, done, past, outages>>

Tick ==
  /\ now < MaxTime
  /\ now' = now + 1
  /\ done' = FALSE
  /\ past' = [t \in 0..now |->
                IF t < now THEN past[t]
                ELSE IF rows # <<>> /\ IsOpen(Latest) THEN Latest.op ELSE "none"]
  /\ UNCHANGED <<rows, gaps, engine, stops, outages>>

Next ==
  \/ Start \/ Stop \/ ForeignStartup
  \/ FirstCycle \/ ChangeCycle \/ SameCycle
  \/ EnterGap \/ Tick

Spec == Init /\ [][Next]_vars

-----------------------------------------------------------------------------
(* The reports, for a window from s to e, which may lie in the future.     *)

Least(x, y) == IF x <= y THEN x ELSE y

Most(x, y) == IF x >= y THEN x ELSE y

Windows == {w \in Times \X Times : w[1] < w[2]}

EndOf(r) == IF IsOpen(r) THEN now ELSE r.end

\* Faulty: only rows that lie in the window count.
Within(s, e) == {i \in DOMAIN rows : rows[i].start >= s /\ EndOf(rows[i]) <= e}

\* The condition on rows of every report's query.
Overlapping(s, e) ==
  {i \in DOMAIN rows : rows[i].start <= e /\ (IsOpen(rows[i]) \/ rows[i].end >= s)}

\* Faulty: the part of a row before the window counts.
Unclamped(r, s, e) == Most(0, Least(e, EndOf(r)) - r.start)

\* The time that a row lasts in the window.
Clamped(r, s, e) == Most(0, Least(e, EndOf(r)) - Most(s, r.start))

Of(op, s, e) == {i \in Overlapping(s, e) : rows[i].op = op}

\* get_fleet_summary, up_seconds and down_seconds: each row is rounded.
FleetSeconds(op, s, e) ==
  SumFunction([i \in Of(op, s, e) |-> Rounded(Clamped(rows[i], s, e))])

\* get_uptime_report: the rows since the endpoint's creation, each truncated; not UP
\* is DOWN.
ReportSeconds(op, s, e) ==
  SumFunction([i \in {j \in Overlapping(Most(s, Created), e) : (rows[j].op = "UP") = (op = "UP")} |->
    Truncated(Clamped(rows[i], s, e))])

\* list_with_stats and get_detail_with_stats, UP since s, until now: the sum is truncated.
ListedSeconds(s) ==
  Truncated(SumFunction([i \in {j \in DOMAIN rows : /\ rows[j].op = "UP" /\ rows[j].start < now
                                                     /\ (IsOpen(rows[j]) \/ rows[j].end > s)} |->
    Clamped(rows[i], s, now)]))

\* compile_availability_report_data: a row of which no whole second lies in the window
\* counts with its duration_seconds, in an open row that of its last cycle, kept.
Compiled(r, s, e, kept) ==
  LET seconds == Truncated(Clamped(r, s, e))
  IN  IF seconds # 0 THEN seconds ELSE IF IsOpen(r) THEN kept ELSE Rounded(r.end - r.start)

CompiledSeconds(op, s, e, kept) ==
  SumFunction([i \in Of(op, s, e) |-> Compiled(rows[i], s, e, kept)])

\* get_service_gap_intervals: the gaps that overlap the window, cut to it.
ServiceGaps(s, e) ==
  {[start |-> Most(g.start, s), end |-> Least(g.end, e)] :
     g \in {h \in gaps : h.start < e /\ h.end > s}}

\* calculate_device_gap_seconds.
GapSeconds(s, e, intervals) ==
  SumFunction([g \in intervals |-> Truncated(Most(0, Least(g.end, e) - Most(g.start, s)))])

\* The denominator of calculate_uptime_denominator_and_percentage.
Denominator(s, e) ==
  LET from == Most(s, Created)
      to   == Least(e, now)
  IN  Truncated(Most(0, to - from)) - GapSeconds(from, to, ServiceGaps(s, e))

\* In hundredths of a percent, to which it is rounded.
Percentage(up, s, e) ==
  LET whole == Denominator(s, e)
  IN  IF whole <= 0 THEN 10000
      ELSE Most(0, Least(10000, (20000 * up + whole) \div (2 * whole)))

\* Faulty: every DOWN row is an incident.
EveryRow(I, i) == TRUE

\* LAG: the row before i in the window I is not DOWN, or there is none.
Leads(I, i) == i - 1 \notin I \/ rows[i - 1].op # "DOWN"

Incidents(I) == {i \in I : rows[i].op = "DOWN" /\ Leads(I, i)}

\* incident_count of get_fleet_summary and of get_uptime_report.
IncidentCount(s, e) == Cardinality(Incidents(Overlapping(s, e)))

\* get_incidents: only rows that start in the window, grouped.
Started(s, e) == {i \in DOMAIN rows : rows[i].start \in s..e}

Group(I, i) == {j \in I : j >= i /\ \A k \in i..j : rows[k].op = "DOWN"}

IncidentLog(s, e) ==
  LET I == Started(s, e)
  IN  {[start |-> rows[i].start, rows |-> Cardinality(Group(I, i))] : i \in Incidents(I)}

-----------------------------------------------------------------------------
(* Properties.                                                             *)

\* No moment lies in two rows, and none in the future: a row ends before the next
\* one begins, and only the latest may be open.  (What makes sums over rows mean
\* anything; proved in ViewProofs.)
RowsAreDisjoint ==
  \A i \in DOMAIN rows :
    /\ Created <= rows[i].start
    /\ rows[i].start <= EndOf(rows[i]) /\ EndOf(rows[i]) <= now
    /\ \A j \in DOMAIN rows :
         i < j => ~IsOpen(rows[i]) /\ rows[i].end <= rows[j].start

\* The times of the window that have passed.
Elapsed(s, e) == s..(Least(e, now) - 1)

\* How long the rows said op, of the part of the window that has passed; and how long
\* the endpoint was there outside gaps.
Lasted(op, s, e) == Cardinality({t \in Elapsed(s, e) : past[t] = op})

Lifetime(s, e) ==
  Cardinality({t \in Elapsed(s, e) :
     t >= Created /\ \A g \in gaps : t \notin g.start..(g.end - 1)})

\* The fleet summary, of any window and at any time, counts what the rows said when
\* each moment passed, but for half a second per row, and the denominator is the
\* endpoint's lifetime without the gaps, but for a second, and one per gap.  So 100 %
\* is shown only if what was not UP is at most a 20000th of the denominator, with
\* half a second for each UP row and one for the window.  Roll-overs, cleanups and
\* rows across a window's ends neither lose nor repeat more.
EverySecondOnce ==
  \A w \in Windows :
    LET s == w[1]  e == w[2]
        Rows(op) == Cardinality(Of(op, s, e))
    IN  /\ \A op \in Ops :
             /\ 2 * Second * FleetSeconds(op, s, e) <= 2 * Lasted(op, s, e) + Second * Rows(op)
             /\ 2 * Second * FleetSeconds(op, s, e) >= 2 * Lasted(op, s, e) - Second * Rows(op)
        /\ Second * Denominator(s, e) > Lifetime(s, e) - Second
        /\ Second * Denominator(s, e) <=
             Lifetime(s, e) + (Second - 1) * Cardinality(ServiceGaps(s, e))
        /\ /\ gaps = {} /\ Denominator(s, e) > 0
           /\ Percentage(FleetSeconds("UP", s, e), s, e) = 10000
           => 20000 * (Lifetime(s, e) - Lasted("UP", s, e)) <=
                Second * Denominator(s, e) + 10000 * Second * (Rows("UP") + 2)

\* Of the same window the fleet summary has the seconds of the uptime report, and at
\* most one more for each row; the endpoint list lies between the uptime report and one
\* second more for each row, and is exact but for the part of a second.  Where no
\* row crosses an end of the window the compiled report differs from the fleet
\* summary by at most a second for each row.
ReportsAgree ==
  \A w \in Windows :
    LET s == w[1]  e == w[2]
        Inside(r) == r.start >= s /\ EndOf(r) <= e
    IN  \A op \in Ops :
          LET fleet == FleetSeconds(op, s, e)
              report == ReportSeconds(op, s, e)
              n == Cardinality(Of(op, s, e))
          IN  /\ report <= fleet /\ fleet <= report + n
              /\ op = "UP" /\ e = now =>
                   /\ ListedSeconds(s) = Truncated(Lasted(op, s, e))
                   /\ report <= ListedSeconds(s) /\ ListedSeconds(s) <= report + n
              /\ (\A i \in Of(op, s, e) : Inside(rows[i])) =>
                   \A kept \in 0..(IF rows = <<>> THEN 0 ELSE Rounded(now - Latest.start)) :
                     LET compiled == CompiledSeconds(op, s, e, kept)
                     IN  compiled <= fleet + n /\ fleet <= compiled + n

\* An outage is one incident, however many rows roll-overs, changes of detail,
\* restarts and other workers' cleanups split it into: the reports count the
\* outages that the window overlaps, and the incident log has one entry for
\* each outage of which a row starts in the window.
OutagesCountedOnce ==
  \A w \in Windows :
    LET s == w[1]  e == w[2]
        OutagesOf(I) == {outages[i] : i \in I} \ {0}
    IN  /\ IncidentCount(s, e) = Cardinality(OutagesOf(Overlapping(s, e)))
        /\ Cardinality(IncidentLog(s, e)) = Cardinality(OutagesOf(Started(s, e)))
=============================================================================
