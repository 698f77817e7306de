--------------------------- MODULE AlertDispatcher ---------------------------
(***************************************************************************)
(* From a change of an endpoint's state to the alerts about it: the        *)
(* background tasks of services/rca_engine.py, which record an incident    *)
(* when an endpoint goes down and resolve it when it comes back, the two   *)
(* channels on which the engine publishes, and what the leading worker of  *)
(* services/alert_dispatcher.py (see AlertElection) does with an event:    *)
(* suppression of symptoms, flapping, filters, rate limit, delivery with   *)
(* retries, and the delivery log.                                          *)
(*                                                                         *)
(* A cycle that changes a state publishes the event and starts the task    *)
(* before its transaction commits, and may still fail.  Events of a        *)
(* channel arrive in the order of their publication; the two channels are  *)
(* not ordered, and the tasks that dispatch events interleave at every     *)
(* await.  Each change of state has a number, which also names its event,  *)
(* its incident and its tasks.  _active_rca_incidents is left out: nothing *)
(* reads it.                                                               *)
(***************************************************************************)
EXTENDS Integers, Sequences, FiniteSets

CONSTANTS
  Endpoints,
  Parent,      \* manual_parent_id of the endpoints that have one
  RcaEnabled,  \* endpoints with enable_rca
  Channels,    \* the channels there may be
  Wanted,      \* the (endpoint, state) pairs each channel's filters let pass
  RateWindow, FlapWindow, FlapLimit, Ttl, Keep,
               \* 5 min, 10 min, 4 changes, 30 min and 1 hour
  Slots,       \* events dispatched at a time
  Attempts,    \* how often a delivery is tried
  Upsets,      \* the kinds of fault and administration that may happen
  MaxChanges, MaxTime, MaxUpsets  \* bounds on the changes, the time, the upsets

States == {"UP", "DOWN"}

UpsetKinds == {"rollback", "lost event", "rca fails", "toggle", "no channels", "no log",
               "rejected", "error", "timeout", "switch on", "switch off", "delete"}

ASSUME DispatcherAssumption ==
  /\ DOMAIN Parent \subseteq Endpoints /\ \A e \in DOMAIN Parent : Parent[e] \in Endpoints
  /\ RcaEnabled \subseteq Endpoints
  /\ Wanted \in [Channels -> SUBSET (Endpoints \X States)]
  /\ Upsets \subseteq UpsetKinds
  /\ {RateWindow, FlapWindow, FlapLimit, Ttl, Keep, Slots, Attempts} \subseteq Nat \ {0}
  /\ {MaxChanges, MaxTime, MaxUpsets} \subseteq Nat
  /\ RateWindow <= Keep

VARIABLES
  now,
  link,        \* the state of each endpoint the engine has confirmed
  told,        \* the change of each endpoint that is published and not committed, or 0
  changes,     \* how many changes of state there were
  causes,      \* the engine's run_differential_rca and handle_endpoint_recovery tasks
  incidents,   \* unresolved rows of endpoint_rca_incidents: [inc, root]
  events,      \* STATE_TRANSITION: changes published and not handled
  notices,     \* RCA_INCIDENT: notices published and not handled
  enabled,     \* the master toggle
  row,         \* of each channel in alert_channels: on, off or none
  suppressed,  \* _suppressed_children: [parent, inc, expires] of each endpoint
  flaps,       \* _flapping_tracker: the times of each endpoint's latest events
  provider,    \* what becomes of a delivery now: ok, error or timeout
  limits,      \* _rate_limits: when an alert of each kind was sent, or -1
  tasks,       \* _dispatch_tasks past their semaphore: [n, ep, state, ts, pc]
  sends,       \* the deliveries of those going on
  entries,     \* the entries about suppressed events still to be written: <<change, channel>>
  log,         \* alert_delivery_logs: the statuses of each event and channel
  copies,      \* history: how often a provider accepted each of these
  born,        \* history: of the events whose dispatch began, the endpoint, the state, the
               \* time and the channels that were not on
  raced,       \* history: the kinds of alert that were in delivery twice at a time, or
               \* after the limit on them may have been forgotten
  cut,         \* history: the entries that were given up when one could not be written
  strays,      \* history: the changes that were rolled back, or whose incident came late
  upsets,      \* how many upsets have happened
  seen         \* history: the kinds of those

engine == <<link, told, changes, causes, incidents, strays>>
caches == <<suppressed, flaps, limits>>
outside == <<enabled, row, provider>>
muted == <<entries, cut>>
faults == <<upsets, seen>>
audit == <<log, copies, born, raced>>
vars == <<now, engine, events, notices, outside, caches, tasks, sends, muted, audit, faults>>

Ns == 1..MaxChanges

NoOne == [parent |-> {}, inc |-> 0, expires |-> 0]

Upset(kind) ==
  /\ kind \in Upsets /\ upsets < MaxUpsets
  /\ upsets' = upsets + 1
  /\ seen' = seen \cup {kind}

Init ==
  /\ now = 0
  /\ link = [e \in Endpoints |-> "UP"] /\ told = [e \in Endpoints |-> 0] /\ changes = 0
  /\ causes = {} /\ incidents = {} /\ strays = {}
  /\ events = <<>> /\ notices = <<>> /\ enabled = TRUE /\ provider = "ok"
  /\ row = [ch \in Channels |-> "on"]
  /\ suppressed = [e \in Endpoints |-> NoOne]
  /\ flaps = [e \in Endpoints |-> <<>>]
  /\ limits = [k \in Channels \X Endpoints \X States |-> -1]
  /\ tasks = {} /\ sends = {} /\ entries = {} /\ cut = {}
  /\ log = [k \in Ns \X Channels |-> <<>>] /\ copies = [k \in Ns \X Channels |-> 0]
  /\ born = [n \in Ns |-> <<>>] /\ raced = {} /\ upsets = 0 /\ seen = {}

Tick ==
  /\ now < MaxTime
  /\ now' = now + 1
  /\ UNCHANGED <<engine, events, notices, outside, caches, tasks, sends, muted, audit, faults>>

-----------------------------------------------------------------------------
(* The engine.                                                             *)

Opposite(s) == IF s = "UP" THEN "DOWN" ELSE "UP"

\* A cycle changes an endpoint's state: the change is published, and a task looks for
\* the cause of an outage or closes what a recovery ends ...
Announce(e) ==
  /\ changes < MaxChanges /\ told[e] = 0
  /\ LET n == changes + 1
         s == Opposite(link[e])
     IN  /\ changes' = n
         /\ told' = [told EXCEPT ![e] = n]
         /\ events' = Append(events, [n |-> n, ep |-> e, state |-> s])
         /\ causes' = IF s = "DOWN" /\ e \notin RcaEnabled THEN causes
                      ELSE causes \cup {[n |-> n, ep |-> e, state |-> s,
                                         pc |-> "begun", rows |-> {}]}
  /\ UNCHANGED <<now, link, incidents, strays, notices, outside, caches, tasks, sends, muted,
                 audit, faults>>

\* ... then the cycle's transaction commits ...
Commit(e) ==
  /\ told[e] # 0
  /\ link' = [link EXCEPT ![e] = Opposite(@)]
  /\ told' = [told EXCEPT ![e] = 0]
  /\ UNCHANGED <<now, changes, causes, incidents, strays, events, notices, outside, caches,
                 tasks, sends, muted, audit, faults>>

\* ... or fails, perhaps before the task was started: the endpoint keeps its state.
Rollback(e) ==
  /\ told[e] # 0 /\ Upset("rollback")
  /\ told' = [told EXCEPT ![e] = 0]
  /\ causes' \in {causes, {c \in causes : c.n # told[e] \/ c.pc # "begun"}}
  /\ strays' = strays \cup {told[e]}
  /\ UNCHANGED <<now, link, changes, incidents, events, notices, outside, caches, tasks, sends,
                 muted, audit>>

Symptoms(e) == {c \in DOMAIN Parent : Parent[c] = e}

\* A resolution names its endpoint and no incident.
Resolution(e) == [n |-> 0, root |-> e, resolved |-> TRUE]

\* The recoveries of an endpoint that have still to reach a step.
Recoveries(e, pcs) == {c \in causes : c.ep = e /\ c.state = "UP" /\ c.pc \in pcs}

\* History: an incident is late when its endpoint has recovered, or is about to, and no
\* recovery is left to end it.
Mark(c, pcs) ==
  strays' = IF /\ told[c.ep] # c.n /\ (link[c.ep] = "UP" \/ told[c.ep] # 0)
               /\ Recoveries(c.ep, pcs) = {}
            THEN strays \cup {c.n} ELSE strays

\* run_differential_rca after its trace: the row is inserted and the incident
\* published with the endpoint's symptoms ...
RcaPublish(c) ==
  /\ c.state = "DOWN" /\ c.pc = "begun"
  /\ notices' = Append(notices, [n |-> c.n, root |-> c.ep, resolved |-> FALSE])
  /\ causes' = (causes \ {c}) \cup {[c EXCEPT !.pc = "published"]}
  /\ Mark(c, {"begun", "updated"})
  /\ UNCHANGED <<now, link, told, changes, incidents, events, outside, caches, tasks, sends,
                 muted, audit, faults>>

\* ... before the transaction commits.
RcaCommit(c) ==
  /\ c.state = "DOWN" /\ c.pc = "published"
  /\ incidents' = incidents \cup {[inc |-> c.n, root |-> c.ep]}
  /\ causes' = causes \ {c}
  /\ Mark(c, {"begun"})
  /\ UNCHANGED <<now, link, told, changes, events, notices, outside, caches, tasks, sends, muted,
                 audit, faults>>

\* handle_endpoint_recovery resolves the rows it sees ...
RecoveryUpdate(c) ==
  /\ c.state = "UP" /\ c.pc = "begun"
  /\ causes' = (causes \ {c}) \cup
       {[c EXCEPT !.pc = "updated", !.rows = {i \in incidents : i.root = c.ep}]}
  /\ UNCHANGED <<now, link, told, changes, incidents, strays, events, notices, outside, caches,
                 tasks, sends, muted, audit, faults>>

\* ... traces the route anew, publishes the resolution and commits.
RecoveryCommit(c) ==
  /\ c.state = "UP" /\ c.pc = "updated"
  /\ notices' = Append(notices, Resolution(c.ep))
  /\ incidents' = incidents \ c.rows
  /\ causes' = causes \ {c}
  /\ UNCHANGED <<now, link, told, changes, strays, events, outside, caches, tasks, sends, muted,
                 audit, faults>>

\* Any step of these tasks fails: the transaction rolls back and nobody retries.
CauseFails(c) ==
  /\ Upset("rca fails")
  /\ causes' = causes \ {c}
  /\ notices' \in {notices} \cup
       (IF c.pc = "updated" THEN {Append(notices, Resolution(c.ep))} ELSE {})
  /\ UNCHANGED <<now, link, told, changes, incidents, strays, events, outside, caches, tasks,
                 sends, muted, audit>>

-----------------------------------------------------------------------------
(* The leader's memory.                                                    *)

Live(s) == s.expires >= now

\* _prune_memory_caches, whenever an event leaves the queue.
Pruned ==
  [suppressed |-> [e \in Endpoints |-> IF Live(suppressed[e]) THEN suppressed[e] ELSE NoOne],
   flaps      |-> [e \in Endpoints |-> SelectSeq(flaps[e], LAMBDA t : t >= now - FlapWindow)],
   limits     |-> [k \in DOMAIN limits |-> IF limits[k] < now - Keep THEN -1 ELSE limits[k]]]

Prune(s) == /\ flaps' = Pruned.flaps /\ limits' = Pruned.limits
            /\ suppressed' = s

\* The event is lost with the leader's subscription.
Lose ==
  /\ Upset("lost event")
  /\ \/ /\ events # <<>> /\ events' = Tail(events) /\ UNCHANGED notices
     \/ /\ notices # <<>> /\ notices' = Tail(notices) /\ UNCHANGED events
  /\ UNCHANGED <<now, engine, outside, caches, tasks, sends, muted, audit>>

\* Faulty: a resolution frees what its incident, which it does not name, holds.
ByIncident(i) ==
  [e \in Endpoints |->
     IF i.resolved
     THEN IF Pruned.suppressed[e].inc = i.n THEN NoOne ELSE Pruned.suppressed[e]
     ELSE IF e \in Symptoms(i.root)
          THEN [parent |-> {i.root}, inc |-> i.n, expires |-> now + Ttl]
          ELSE Pruned.suppressed[e]]

\* _dispatch_event of an incident, without an await: its symptoms are suppressed
\* for half an hour; a resolution frees the children of its root.
Suppressions(i) ==
  [e \in Endpoints |->
     IF i.resolved
     THEN IF Pruned.suppressed[e].parent = {i.root} THEN NoOne ELSE Pruned.suppressed[e]
     ELSE IF e \in Symptoms(i.root)
          THEN [parent |-> {i.root}, inc |-> i.n, expires |-> now + Ttl]
          ELSE Pruned.suppressed[e]]

Notice ==
  /\ notices # <<>>
  /\ Prune(Suppressions(Head(notices)))
  /\ notices' = Tail(notices)
  /\ UNCHANGED <<now, engine, events, outside, tasks, sends, muted, audit, faults>>

\* A change gets a dispatching task, which awaits the toggle and the names.
Receive ==
  /\ events # <<>> /\ Cardinality(tasks) < Slots
  /\ Prune(Pruned.suppressed)
  /\ LET v == Head(events)
     IN  /\ tasks' = tasks \cup
              {[n |-> v.n, ep |-> v.ep, state |-> v.state, ts |-> now, pc |-> "toggle"]}
         /\ born' = [born EXCEPT ![v.n] =
                       <<v.ep, v.state, now, {ch \in Channels : row[ch] # "on"}>>]
  /\ events' = Tail(events)
  /\ UNCHANGED <<now, engine, notices, outside, sends, muted, log, copies, raced, faults>>

\* The administrator turns alerting off or on.
Toggle ==
  /\ Upset("toggle")
  /\ enabled' = ~enabled
  /\ UNCHANGED <<now, engine, events, notices, row, provider, caches, tasks, sends, muted, audit>>

-----------------------------------------------------------------------------
(* The administration of channels, served by any worker.                   *)

Put(ch, to) ==
  /\ row' = [row EXCEPT ![ch] = to]
  /\ UNCHANGED <<now, engine, events, notices, enabled, provider, caches, tasks, sends, muted,
                 copies, born, raced>>

\* A PUT that changes is_enabled.
Update(ch) ==
  /\ row[ch] # "none"
  /\ \/ row[ch] = "on" /\ Upset("switch off") /\ Put(ch, "off")
     \/ row[ch] = "off" /\ Upset("switch on") /\ Put(ch, "on")
  /\ UNCHANGED log

\* The channel's entries in the log are deleted with it.
Delete(ch) ==
  /\ row[ch] # "none" /\ Upset("delete") /\ Put(ch, "none")
  /\ log' = [k \in DOMAIN log |-> IF k[2] = ch THEN <<>> ELSE log[k]]

-----------------------------------------------------------------------------
(* One event.                                                              *)

Step(t, pc) == tasks' = (tasks \ {t}) \cup {[t EXCEPT !.pc = pc]}

\* Alerting is off: the event is dropped.
Off(t) ==
  /\ t.pc = "toggle" /\ ~enabled
  /\ tasks' = tasks \ {t}
  /\ UNCHANGED <<now, engine, events, notices, outside, caches, sends, muted, audit, faults>>

\* What a recovered parent had suppressed is freed.
Freed(t) ==
  [e \in Endpoints |-> IF t.state = "UP" /\ suppressed[e].parent = {t.ep} THEN NoOne
                       ELSE suppressed[e]]

\* An entry of the log is written for those of the channels that still have a row.
Logged(t, chs, status) ==
  log' = [k \in DOMAIN log |-> IF k[1] = t.n /\ k[2] \in chs /\ row[k[2]] # "none"
                               THEN Append(log[k], status) ELSE log[k]]

\* The channels that are loaded.
InUse == {ch \in Channels : row[ch] = "on"}

\* The endpoint is suppressed: its event is only logged.
Throttle(t) ==
  /\ t.pc = "toggle" /\ enabled
  /\ suppressed' = Freed(t)
  /\ suppressed'[t.ep] # NoOne /\ t.ts <= suppressed'[t.ep].expires
  /\ Step(t, "muted")
  /\ UNCHANGED <<now, engine, events, notices, outside, flaps, limits, sends, muted, audit, faults>>

EntriesOf(t) == {k \in entries : k[1] = t.n}

\* For every channel, filters or not, that is loaded ...
Load(t) ==
  /\ t.pc = "muted"
  /\ entries' = entries \cup ({t.n} \X InUse)
  /\ IF InUse = {} THEN tasks' = tasks \ {t} ELSE Step(t, "logging")
  /\ UNCHANGED <<now, engine, events, notices, outside, caches, sends, cut, audit, faults>>

\* ... an entry is written, each with a commit of its own.
Enter(t, ch) ==
  /\ t.pc = "logging" /\ <<t.n, ch>> \in entries /\ row[ch] # "none"
  /\ Logged(t, {ch}, "THROTTLED")
  /\ entries' = entries \ {<<t.n, ch>>}
  /\ tasks' = IF EntriesOf(t) = {<<t.n, ch>>} THEN tasks \ {t} ELSE tasks
  /\ UNCHANGED <<now, engine, events, notices, outside, caches, sends, cut, copies, born, raced, faults>>

\* One fails: the session they share is not rolled back, and takes no other.
Cut(t, ch) ==
  /\ t.pc = "logging" /\ <<t.n, ch>> \in entries
  /\ \/ row[ch] = "none" /\ UNCHANGED faults
     \/ Upset("no log")
  /\ entries' = entries \ EntriesOf(t)
  /\ cut' = cut \cup EntriesOf(t)
  /\ tasks' = tasks \ {t}
  /\ UNCHANGED <<now, engine, events, notices, outside, caches, sends, audit>>

\* Any other event counts for flapping; the channels are loaded.
Evaluate(t) ==
  /\ t.pc = "toggle" /\ enabled
  /\ suppressed' = [Freed(t) EXCEPT ![t.ep] = IF t.ts > @.expires THEN NoOne ELSE @]
  /\ suppressed'[t.ep] = NoOne
  /\ LET times == SelectSeq(Append(flaps[t.ep], t.ts), LAMBDA u : u >= t.ts - FlapWindow)
     IN  /\ flaps' = [flaps EXCEPT ![t.ep] = times]
         /\ Step(t, IF Len(times) >= FlapLimit THEN "flapping" ELSE "steady")
  /\ UNCHANGED <<now, engine, events, notices, outside, limits, sends, muted, audit, faults>>

\* The channels cannot be loaded: the event is gone.
NoChannels(t) ==
  /\ t.pc \in {"muted", "flapping", "steady"}
  /\ Upset("no channels")
  /\ tasks' = tasks \ {t}
  /\ UNCHANGED <<now, engine, events, notices, outside, caches, sends, muted, audit>>

Takers(t) == {ch \in InUse : <<t.ep, t.state>> \in Wanted[ch]}

\* The channels an alert of the kind was sent to less than five minutes ago.
Limited(t) ==
  {ch \in Takers(t) : LET last == limits[<<ch, t.ep, t.state>>]
                      IN  last # -1 /\ t.ts - last < RateWindow}

Send(t, ch) == [n |-> t.n, ch |-> ch, ep |-> t.ep, state |-> t.state, ts |-> t.ts, tries |-> 0]

Kind(s) == <<s.ch, s.ep, s.state>>

\* The event was held up so long that what was sent within its window, before or
\* after it, may be forgotten.
Overdue(t) == now - t.ts > Keep - RateWindow

\* _evaluate_and_send_channel of each channel, up to its first await: filters,
\* flapping and rate limit are checked, and deliveries begin.
Fan(t) ==
  /\ t.pc \in {"flapping", "steady"}
  /\ LET held == IF t.pc = "flapping" THEN Takers(t) ELSE Limited(t)
         new == {Send(t, ch) : ch \in Takers(t) \ held}
     IN  /\ Logged(t, held, "THROTTLED")
         /\ sends' = sends \cup new
         /\ raced' = raced \cup
              {Kind(s) : s \in {o \in new : Overdue(t) \/ \E u \in sends : Kind(u) = Kind(o)}}
         /\ IF new = {} THEN tasks' = tasks \ {t} ELSE Step(t, "sending")
  /\ UNCHANGED <<now, engine, events, notices, outside, caches, muted, copies, born, faults>>

\* A delivery ends with an entry in the log; a task with its last delivery.
Finish(s, status) ==
  /\ sends' = sends \ {s}
  /\ Logged(s, {s.ch}, status)
  /\ tasks' = IF \E o \in sends' : o.n = s.n THEN tasks ELSE {t \in tasks : t.n # s.n}

Accepted(s) == copies' = [copies EXCEPT ![<<s.n, s.ch>>] = @ + 1]

\* Faulty: the time of the delivery is not kept.
Forgotten(s) == limits

\* The limit is set to when the event's dispatch began, after the delivery.
Noted(s) == [limits EXCEPT ![Kind(s)] = s.ts]

\* The provider has an outage, which may end again.
Outage(kind) ==
  /\ provider = "ok" /\ Upset(kind)
  /\ provider' = kind
  /\ UNCHANGED <<now, engine, events, notices, enabled, row, caches, tasks, sends, muted, audit>>

Restored ==
  /\ provider # "ok" /\ provider' = "ok"
  /\ UNCHANGED <<now, engine, events, notices, enabled, row, caches, tasks, sends, muted, audit,
                 faults>>

\* The provider answers 2xx.
Deliver(s) ==
  /\ provider = "ok"
  /\ Accepted(s) /\ Finish(s, "DELIVERED")
  /\ limits' = Noted(s)
  /\ UNCHANGED <<now, engine, events, notices, outside, suppressed, flaps, muted, born, raced,
                 faults>>

\* It answers 4xx, or the channel's configuration is of no use: no retry.
Reject(s) ==
  /\ provider = "ok" /\ Upset("rejected")
  /\ Finish(s, "FAILED")
  /\ UNCHANGED <<now, engine, events, notices, outside, caches, muted, copies, born, raced>>

\* Faulty: the last answer passes for a delivery.
Optimist(s) ==
  IF s.tries + 1 < Attempts
  THEN /\ sends' = (sends \ {s}) \cup {[s EXCEPT !.tries = @ + 1]}
       /\ UNCHANGED <<tasks, log>>
  ELSE Finish(s, "DELIVERED")

\* Faulty: the last failure is not logged.
Abandon(s) ==
  /\ sends' = IF s.tries + 1 < Attempts THEN (sends \ {s}) \cup {[s EXCEPT !.tries = @ + 1]}
              ELSE sends \ {s}
  /\ tasks' = IF \E o \in sends' : o.n = s.n THEN tasks ELSE {t \in tasks : t.n # s.n}
  /\ UNCHANGED log

\* It answers 5xx or not at all: tried again after a pause, three times in all.
Retry(s) ==
  IF s.tries + 1 < Attempts
  THEN /\ sends' = (sends \ {s}) \cup {[s EXCEPT !.tries = @ + 1]}
       /\ UNCHANGED <<tasks, log>>
  ELSE Finish(s, "FAILED")

Error(s) ==
  /\ provider = "error"
  /\ Retry(s)
  /\ UNCHANGED <<now, engine, events, notices, outside, caches, muted, copies, born, raced, faults>>

\* The provider has accepted the alert when the answer times out.
Timeout(s) ==
  /\ provider = "timeout"
  /\ Retry(s) /\ Accepted(s)
  /\ UNCHANGED <<now, engine, events, notices, outside, caches, muted, born, raced, faults>>

\* A delivery's log entry cannot be written: _record_delivery_log swallows that.
LogFails(s) ==
  /\ provider = "ok" /\ Upset("no log")
  /\ Accepted(s)
  /\ sends' = sends \ {s}
  /\ tasks' = IF \E o \in sends' : o.n = s.n THEN tasks ELSE {t \in tasks : t.n # s.n}
  /\ limits' = Noted(s)
  /\ UNCHANGED <<now, engine, events, notices, outside, suppressed, flaps, muted, log, born, raced>>

-----------------------------------------------------------------------------
CauseStep(c) ==
  RcaPublish(c) \/ RcaCommit(c) \/ RecoveryUpdate(c) \/ RecoveryCommit(c)

TaskStep(t) ==
  \/ Off(t) \/ Throttle(t) \/ Evaluate(t) \/ Fan(t) \/ Load(t)
  \/ \E ch \in Channels : Enter(t, ch) \/ Cut(t, ch)

\* Nothing is under way.
Quiet ==
  /\ \A e \in Endpoints : told[e] = 0
  /\ causes = {} /\ events = <<>> /\ notices = <<>> /\ tasks = {}

\* Every behaviour may go on until here.
Done == Quiet /\ changes = MaxChanges /\ now = MaxTime /\ UNCHANGED vars

Next ==
  \/ Tick \/ (\E e \in Endpoints : Announce(e) \/ Commit(e) \/ Rollback(e))
  \/ (\E c \in causes : CauseStep(c) \/ CauseFails(c))
  \/ Notice \/ Receive \/ Lose \/ Toggle
  \/ (\E ch \in Channels : Update(ch) \/ Delete(ch))
  \/ Outage("error") \/ Outage("timeout") \/ Restored
  \/ (\E t \in tasks : TaskStep(t) \/ NoChannels(t))
  \/ (\E s \in sends : Deliver(s) \/ Reject(s) \/ Error(s) \/ Timeout(s) \/ LogFails(s))
  \/ Done

Spec == Init /\ [][Next]_vars

-----------------------------------------------------------------------------
(* Properties.                                                             *)

\* An endpoint is muted as a symptom only while its parent is down, or while the
\* news of the parent's recovery is under way, and when no background task is, an
\* endpoint with an unresolved incident is down, or about to be: unless a task failed
\* or an event was lost, and but for the incidents of changes that were rolled back or
\* that were recorded after the recovery that should have ended them.
MutedForACause ==
  "rca fails" \notin seen =>
    /\ Quiet /\ "lost event" \notin seen =>
         \A e \in Endpoints : \A p \in suppressed[e].parent :
           Live(suppressed[e]) => link[p] = "DOWN" \/ suppressed[e].inc \in strays
    /\ causes = {} => \A i \in incidents :
         link[i.root] = "DOWN" \/ told[i.root] = i.inc \/ i.inc \in strays

\* No channel is sent two alerts of a kind about events less than the rate window
\* apart, unless two such alerts were in delivery at the same time, or one was about
\* an event that had been held up until what was sent may be forgotten.
Spaced ==
  \A m, n \in Ns, ch \in Channels :
    /\ m # n /\ log[<<m, ch>>] = <<"DELIVERED">> /\ log[<<n, ch>>] = <<"DELIVERED">>
    /\ born[m][1] = born[n][1] /\ born[m][2] = born[n][2]
    /\ <<ch, born[m][1], born[m][2]>> \notin raced
    => born[m][3] - born[n][3] \notin (1 - RateWindow)..(RateWindow - 1)

\* An event has one entry per channel at most, and a deleted channel none; what the log
\* calls delivered the provider has accepted, and it got a second copy only if its answer
\* was late.  A channel that is off or gone is sent nothing about events received since.
LogTellsDeliveries ==
  \A k \in Ns \X Channels :
    /\ Len(log[k]) <= 1 /\ (row[k[2]] = "none" => log[k] = <<>>)
    /\ log[k] = <<"DELIVERED">> => copies[k] >= 1
    /\ copies[k] > 1 => "timeout" \in seen
    /\ /\ born[k[1]] # <<>> /\ k[2] \in born[k[1]][4]
       /\ "switch on" \notin seen
       => copies[k] = 0 /\ log[k] = <<>>

\* When nothing is under way, each channel has an entry about every change that
\* it wants, however that was handled, unless an event was lost, alerting or the
\* channel was off, or the database failed, and but for the entries about a suppressed
\* event that were given up when another channel of the same event had been deleted.
EveryChangeIsLogged ==
  /\ Quiet
  /\ seen \cap {"lost event", "toggle", "no channels", "no log", "switch on"} = {}
  => \A n \in 1..changes, ch \in InUse :
      <<born[n][1], born[n][2]>> \in Wanted[ch] => log[<<n, ch>>] # <<>> \/ <<n, ch>> \in cut
=============================================================================
