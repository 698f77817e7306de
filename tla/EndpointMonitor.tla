--------------------------- MODULE EndpointMonitor ---------------------------
(***************************************************************************)
(* One endpoint under the monitoring engine: its sweep task                *)
(* (monitoring/engine.py, monitor_endpoint), the N-cycle confirmation of   *)
(* monitoring/state_machine.py, the endpoint's rows of endpoint_events and *)
(* the entry endpoint_states[endpoint].  The endpoints of a deployment are *)
(* independent of each other but for the start-up cleanup, which any       *)
(* engine worker runs over the rows of every worker's endpoints.           *)
(*                                                                         *)
(* A cycle is three steps, because the code awaits between them: it is     *)
(* decided, and subscribers are told; its transaction commits;             *)
(* endpoint_states is updated.                                             *)
(***************************************************************************)
EXTENDS Naturals, Sequences

CONSTANTS
  Classes,     \* the detailed states classify_ping_result may return
  None,        \* Python's None
  Threshold,   \* StateMachine.confirmation_threshold
  LostAcks,    \* may a COMMIT succeed and its answer be lost?
  MaxChanges,  \* how often the measured condition of the endpoint changes
  MaxFaults,   \* how many crashes, failed transactions and foreign cleanups
  MaxToggles,  \* how often an operator (de)activates the endpoint
  MaxDays      \* how often a day (then a week) passes over the open events

\* With a threshold of 1 the code still waits for a second cycle (the first
\* only sets the pending state), so it means what it says from 2 on; the
\* engine uses 3.
ASSUME ThresholdAssumption == Threshold \in Nat /\ Threshold >= 2
ASSUME NoneAssumption == None \notin Classes
ASSUME BoundsAssumption ==
  /\ LostAcks \in BOOLEAN
  /\ MaxChanges \in Nat /\ MaxFaults \in Nat /\ MaxToggles \in Nat /\ MaxDays \in Nat

VARIABLES
  events,   \* endpoint_events of the endpoint, ordered by start_time
  entry,    \* endpoint_states[endpoint]
  fresh,    \* the task's local next_state, from the decision to states_lock
  seen,     \* the detailed state the cycle under way was classified as
  pc,       \* where the sweep task is
  up,       \* is the engine process past start-up?
  active,   \* endpoint_status = ACTIVE and monitoring_enabled
  told,     \* the state last published as STATE_TRANSITION
  link,     \* what a ping cycle run now would be classified as
  run,      \* history: the latest class of the committed cycles and how often in a row
  spent     \* how much of each bound is used

vars == <<events, entry, fresh, seen, pc, up, active, told, link, run, spent>>

-----------------------------------------------------------------------------
(* Rows and in-memory state.  A row keeps what the code decides on: its     *)
(* detailed state, whether end_time is NULL, and its age: 0 for less than  *)
(* 24 hours, 1 for up to the 7 days of the start-up window, 2 beyond.      *)

Event == [det : Classes, open : BOOLEAN, age : 0..2]

State == [active : Nat, conf : Classes \cup {None},
          pending : Classes \cup {None}, count : Nat]

\* endpoint_states has no value for the endpoint.
NoState == [active |-> 0, conf |-> None, pending |-> None, count |-> 0]

NoRun == [det |-> None, len |-> 0]

StateOf(id, d) == [active |-> id, conf |-> d, pending |-> None, count |-> 0]

\* Faulty: the row is looked up without end_time IS NULL.
IsThere(evs, id) == id \in DOMAIN evs

IsOpen(evs, id) == id \in DOMAIN evs /\ evs[id].open

Insert(evs, d) == Append(evs, [det |-> d, open |-> TRUE, age |-> 0])

Close(evs, id) == [evs EXCEPT ![id].open = FALSE]

\* Faulty: a state change closes no row.
CloseNone(evs) == evs

CloseAll(evs) == [i \in DOMAIN evs |-> [evs[i] EXCEPT !.open = FALSE]]

\* The start-up cleanup only reaches events of the last seven days.
CloseRecent(evs) ==
  [i \in DOMAIN evs |-> IF evs[i].age < 2 THEN [evs[i] EXCEPT !.open = FALSE]
                                          ELSE evs[i]]

-----------------------------------------------------------------------------
(* StateMachine.process_cycle, in two parts: the confirmation logic, and   *)
(* what is then written to endpoint_events.                                *)

Waiting(st, c, n) == [active |-> st.active, conf |-> st.conf, pending |-> c, count |-> n]

\* Faulty: a cycle that agrees with the confirmed state leaves the count alone.
KeepPending(st) == st

ClearPending(st) == StateOf(st.active, st.conf)

\* Faulty: one cycle too many.
Exceeded(n) == n > Threshold

Reached(n) == n >= Threshold

\* Case A, sub-cases B2 and B1 (still pending, or confirmed).
Confirm(st, c) ==
  IF c = st.conf THEN ClearPending(st)
  ELSE IF c # st.pending THEN Waiting(st, c, 1)
  ELSE IF ~Reached(st.count + 1) THEN Waiting(st, c, st.count + 1)
  ELSE StateOf(st.active, c)

\* The confirmed state is unchanged: the active row is rolled over after 24
\* hours, updated in place when it is open, and replaced when it is not.
\* Otherwise all the endpoint's open rows are closed and a new one opened.
RowsAfter(st, nst, evs) ==
  IF st.conf # nst.conf
  THEN Insert(CloseAll(evs), nst.conf)
  ELSE IF ~IsOpen(evs, st.active)
  THEN Insert(evs, nst.conf)
  ELSE IF evs[st.active].age >= 1
  THEN Insert(Close(evs, st.active), nst.conf)
  ELSE evs

\* Faulty: a new row's id is not taken over; or None is, when there is none.
KeepActive(nst, evs, evs2) == nst

ScalarOrNone(nst, evs, evs2) ==
  [nst EXCEPT !.active = IF Len(evs2) = Len(evs) THEN None ELSE Len(evs2)]

\* next_state.active_event_id: the row inserted by this cycle, if one was.
WithActive(nst, evs, evs2) ==
  IF Len(evs2) = Len(evs) THEN nst ELSE [nst EXCEPT !.active = Len(evs2)]

\* Faulty: only an open row counts as the endpoint's latest.
LoadedIfOpen(evs) ==
  IF ~IsOpen(evs, Len(evs)) THEN NoState ELSE StateOf(Len(evs), evs[Len(evs)].det)

\* initialize_endpoint: the latest row by start_time, open or not.
Loaded(evs) == IF evs = <<>> THEN NoState ELSE StateOf(Len(evs), evs[Len(evs)].det)

\* Counting stops at Threshold: no property tells longer runs apart.
Extend(r, c) ==
  IF r.det # c THEN [det |-> c, len |-> 1]
  ELSE IF r.len < Threshold THEN [r EXCEPT !.len = @ + 1] ELSE r

-----------------------------------------------------------------------------
Kinds == {"change", "fault", "toggle", "day"}

Limit == [change |-> MaxChanges, fault |-> MaxFaults,
          toggle |-> MaxToggles, day |-> MaxDays]

Spend(k) == spent[k] < Limit[k] /\ spent' = [spent EXCEPT ![k] = @ + 1]

Init ==
  /\ events = <<>>
  /\ entry = NoState
  /\ fresh = NoState
  /\ seen = None
  /\ pc = "off"
  /\ up = FALSE
  /\ active = TRUE
  /\ told = None
  /\ link \in Classes
  /\ run = NoRun
  /\ spent = [k \in Kinds |-> 0]

-----------------------------------------------------------------------------
(* The engine process.                                                     *)

\* main: resolve_startup_state, before any sweep task exists.
Startup ==
  /\ ~up
  /\ up' = TRUE
  /\ events' = CloseRecent(events)
  /\ UNCHANGED <<entry, fresh, seen, pc, active, told, link, run, spent>>

\* main's loop: add_endpoint spawns the sweep task of an active endpoint.
Spawn ==
  /\ up /\ active /\ pc = "off"
  /\ pc' = "init"
  /\ UNCHANGED <<events, entry, fresh, seen, up, active, told, link, run, spent>>

\* main's loop: remove_endpoint cancels the task wherever it awaits, and the
\* endpoint's entry is dropped.
Remove ==
  /\ up /\ ~active /\ pc # "off"
  /\ pc' = "off"
  /\ entry' = NoState
  /\ fresh' = NoState
  /\ seen' = None
  /\ run' = NoRun
  /\ UNCHANGED <<events, up, active, told, link, spent>>

\* The process dies: an uncommitted transaction is rolled back, memory is lost.
Crash ==
  /\ up
  /\ Spend("fault")
  /\ up' = FALSE
  /\ pc' = "off"
  /\ entry' = NoState
  /\ fresh' = NoState
  /\ seen' = None
  /\ run' = NoRun
  /\ UNCHANGED <<events, active, told, link>>

\* Another engine worker (NETMON_ENGINE_NUM_WORKERS > 1) starts: its
\* resolve_startup_state closes the open rows of this worker's endpoint too.
ForeignStartup ==
  /\ up
  /\ Spend("fault")
  /\ events' = CloseRecent(events)
  /\ UNCHANGED <<entry, fresh, seen, pc, up, active, told, link, run>>

-----------------------------------------------------------------------------
(* The sweep task.                                                         *)

Initialize ==
  /\ pc = "init"
  /\ entry' = Loaded(events)
  /\ run' = NoRun
  /\ pc' = IF events = <<>> THEN "baseline" ELSE "cycle"
  /\ UNCHANGED <<events, fresh, seen, up, active, told, link, spent>>

\* The database is unreachable while the task initializes: nothing catches
\* it, the task ends and main spawns another one.
InitializeFails ==
  /\ pc = "init"
  /\ Spend("fault")
  /\ pc' = "off"
  /\ UNCHANGED <<events, entry, fresh, seen, up, active, told, link, run>>

\* What a cycle classified as link makes of the entry: with none, the state of
\* the initial event (in the baseline ping and in the loop).
Decided == IF entry.conf = None THEN StateOf(0, link) ELSE Confirm(entry, link)

\* Faulty: a change that is not confirmed yet is announced.
Premature == told' = IF Decided.pending # None THEN Decided.pending ELSE told

\* Subscribers are told of a transition before anything is written, and of an
\* initial event never.
Publish ==
  told' = IF entry.conf # None /\ Decided.conf # entry.conf THEN Decided.conf ELSE told

\* The cycle is classified and decided; the tasks that publish run at the next await.
Decide ==
  /\ pc \in {"baseline", "cycle"}
  /\ seen' = link
  /\ fresh' = Decided
  /\ Publish
  /\ pc' = "write"
  /\ UNCHANGED <<events, entry, up, active, link, run, spent>>

\* What the cycle writes: the initial event, or what process_cycle makes of the rows.
Written == IF entry.conf = None THEN Insert(events, fresh.conf)
           ELSE RowsAfter(entry, fresh, events)

\* The cycle's transaction commits.
Cycle ==
  /\ pc = "write"
  /\ events' = Written
  /\ fresh' = WithActive(fresh, events, Written)
  /\ run' = Extend(run, seen)
  /\ pc' = "store"
  /\ UNCHANGED <<entry, seen, up, active, told, link, spent>>

\* Ping, statements or COMMIT fail: the transaction is rolled back, the
\* exception is logged and the entry keeps its value until the next minute.
CycleFails ==
  /\ pc \in {"baseline", "cycle", "write"}
  /\ Spend("fault")
  /\ fresh' = NoState
  /\ seen' = None
  /\ pc' = "cycle"
  /\ UNCHANGED <<events, entry, up, active, told, link, run>>

\* COMMIT takes effect but the connection breaks before its answer: the code
\* takes the same path as for a rolled-back cycle.
CycleUnacknowledged ==
  /\ LostAcks
  /\ pc = "write"
  /\ Spend("fault")
  /\ events' = Written
  /\ fresh' = NoState
  /\ seen' = None
  /\ pc' = "cycle"
  /\ UNCHANGED <<entry, up, active, told, link, run>>

\* async with states_lock: endpoint_states[endpoint] = new_state.
Store ==
  /\ pc = "store"
  /\ entry' = fresh
  /\ fresh' = NoState
  /\ seen' = None
  /\ pc' = "cycle"
  /\ UNCHANGED <<events, up, active, told, link, run, spent>>

-----------------------------------------------------------------------------
(* The environment.                                                        *)

LinkChanges ==
  /\ Spend("change")
  /\ link' \in Classes \ {link}
  /\ UNCHANGED <<events, entry, fresh, seen, pc, up, active, told, run>>

ToggleActive ==
  /\ Spend("toggle")
  /\ active' = ~active
  /\ UNCHANGED <<events, entry, fresh, seen, pc, up, told, link, run>>

\* Open rows cross the 24-hour, then the 7-day boundary, the older ones first.
DayPasses ==
  /\ Spend("day")
  /\ \E k \in DOMAIN events :
       /\ events[k].open /\ events[k].age < 2
       /\ events' = [i \in DOMAIN events |->
                       IF i <= k /\ events[i].open /\ events[i].age < 2
                       THEN [events[i] EXCEPT !.age = @ + 1] ELSE events[i]]
  /\ UNCHANGED <<entry, fresh, seen, pc, up, active, told, link, run>>

-----------------------------------------------------------------------------
TaskStep == Initialize \/ Decide \/ Cycle \/ Store

Faulty == InitializeFails \/ CycleFails \/ CycleUnacknowledged \/ Crash \/ ForeignStartup

Next ==
  \/ Startup \/ Spawn \/ Remove
  \/ TaskStep
  \/ Faulty
  \/ LinkChanges \/ ToggleActive \/ DayPasses

Spec == Init /\ [][Next]_vars

\* systemd restarts the engine, main's loop runs every 30 seconds, and the
\* task's loop runs every minute; faults and the environment owe nothing.
Fairness == WF_vars(Startup) /\ WF_vars(Spawn) /\ WF_vars(Remove) /\ WF_vars(TaskStep)

FairSpec == Spec /\ Fairness

-----------------------------------------------------------------------------
(* Properties.                                                             *)

\* Every variable has the type its comment gives.
TypeOK ==
  /\ events \in Seq(Event)
  /\ entry \in State /\ fresh \in State /\ seen \in Classes \cup {None}
  /\ pc \in {"off", "init", "baseline", "cycle", "write", "store"}
  /\ up \in BOOLEAN /\ active \in BOOLEAN
  /\ told \in Classes \cup {None}
  /\ link \in Classes
  /\ run \in [det : Classes \cup {None}, len : Nat]
  /\ spent \in [Kinds -> Nat]

\* At most one row of the endpoint has end_time NULL: the roll-over, the
\* replacement of a row closed by another worker, the cleanup at start-up and
\* the close-all of a state change never leave two, whatever they interleave
\* with (uptime and downtime are summed over rows, so a second open row is
\* counted twice).
OneOpenRow ==
  \A i, j \in DOMAIN events : events[i].open /\ events[j].open => i = j

\* The recorded state: that of the latest row.
LatestDet == IF events = <<>> THEN None ELSE events[Len(events)].det

\* Between two cycles the task's entry is the latest row: same row, same state.
\* A restart, which reloads the latest row, therefore resumes from the state
\* that was confirmed, even when a cleanup has closed that row meanwhile.
EntryIsLatestRow ==
  pc \in {"cycle", "write"} /\ entry.conf # None =>
    /\ entry.active = Len(events)
    /\ entry.conf = events[entry.active].det

\* Once Threshold committed cycles in a row had the same class, that class is
\* the confirmed state: no reset of the pending counter loses a change.
NoMissedChange ==
  pc = "cycle" /\ run.len >= Threshold => entry.conf = run.det

\* The confirmed state of a monitored endpoint changes only to a class that the
\* last Threshold committed cycles all had.
SustainedChange ==
  [][entry.conf # None /\ entry'.conf \notin {None, entry.conf}
       => run.len >= Threshold /\ run.det = entry'.conf]_vars

\* Subscribers know what is recorded, or what the cycle under way is about to record.
Informed == told \in {None, LatestDet} \/ (pc = "write" /\ told = fresh.conf)

\* Subscribers and the record part only when the cycle that has told them of a
\* transition fails, is cancelled or dies with its process before it commits: no
\* roll-over, deactivation, restart or cleanup parts them.  And no change is
\* recorded without them: a transition that commits always leaves the two agreed,
\* whatever parted them before.
ToldIsRecorded ==
  [][/\ Informed /\ ~Informed' =>
          pc = "write" /\ told # LatestDet /\ (CycleFails \/ Crash \/ Remove)
     /\ LatestDet \notin {None, LatestDet'} => told' = LatestDet']_vars

\* When the environment settles, the engine settles on it: an active endpoint
\* ends up with the measured condition confirmed, and recorded in an open row,
\* after any crash, failed transaction, lost answer or foreign cleanup.
SettlesOnLink ==
  <>[](active => /\ entry.conf = link
                 /\ \E i \in DOMAIN events :
                      i = entry.active /\ events[i].open /\ events[i].det = link)

-----------------------------------------------------------------------------
(* The inductive strengthenings of the properties above.                   *)

\* Without lost answers: only the latest row may be open, and whoever holds an
\* EndpointState (the entry, or the task after its commit) holds the latest row.
RowsInv ==
  /\ \A i \in DOMAIN events : events[i].open => i = Len(events)
  /\ pc \in {"off", "init", "baseline"} => entry = NoState
  /\ pc \in {"baseline", "cycle", "write"} /\ entry.conf = None => events = <<>>
  /\ pc \in {"cycle", "write"} /\ entry.conf # None =>
       events # <<>> /\ entry.active = Len(events) /\ entry.conf = LatestDet
  /\ pc = "write" /\ entry.conf # None => fresh.active = entry.active
  /\ pc = "store" =>
       events # <<>> /\ fresh.active = Len(events) /\ fresh.conf = LatestDet

\* A transition is recorded when subscribers have been told of it.
ToldInv == pc = "write" /\ entry.conf \notin {None, fresh.conf} => told = fresh.conf

\* The state the next cycle starts from.
Current == IF pc = "store" THEN fresh ELSE entry

\* What an EndpointState and the run of committed cycles behind it satisfy.
Counts(st, r) ==
  \/ st.pending = None /\ r.det \in {None, st.conf}
  \/ /\ st.pending \notin {None, st.conf}
     /\ r = [det |-> st.pending, len |-> st.count]
     /\ st.count \in 1..(Threshold - 1)

\* The pending counter counts the cycles in a row that had the pending class.
CountInv ==
  /\ pc \in {"off", "init", "baseline"} => entry = NoState
  /\ pc \in {"write", "store"} => fresh.conf # None
  /\ run.det = None => run.len = 0
  /\ pc \in {"baseline", "cycle", "write", "store"} => Counts(Current, run)
  /\ pc = "write" => /\ seen # None /\ Counts(fresh, Extend(run, seen))
                     /\ entry.conf = None => fresh.pending = None /\ fresh.conf = seen
  /\ pc = "write" /\ entry.conf \notin {None, fresh.conf} =>
       Extend(run, seen) = [det |-> fresh.conf, len |-> Threshold]
  /\ pc = "store" /\ entry.conf \notin {None, fresh.conf} =>
       run.len >= Threshold /\ run.det = fresh.conf

-----------------------------------------------------------------------------
(* What the endpoint's confirmed state is, apart from rows and tasks.      *)

Abstract == INSTANCE ConfirmedState WITH conf <- LatestDet

\* The recorded state follows the N-in-a-row rule of ConfirmedState: committed
\* cycles are its observations, a (re)initialization forgets the pending count
\* and never the state, and every other step leaves it alone.
FollowsTheRule == Abstract!Spec
=============================================================================
