# A formal model of LNMP

LNMP monitors a fleet of hosts: an engine pings them and records state changes, an API serves
operators, a daemon aggregates NetFlow, and TimescaleDB with either PostgreSQL or Redis as message
and session driver connects them. This directory holds TLA+ models of its concurrent and failure
prone parts, TLC configurations that check them on small instances, and TLAPS proofs of the results
that matter most for every instance.

Run, in this directory: `tlc -config X.cfg M` for a run of `PROJECT.json`, `tlapm M.tla` for a module
of proofs. Section 1 says what the system is and section 2 which module models which part; sections 3
to 11 describe the modules, 12 the proofs, 13 where code and documentation differ, and 14 what is left
out.

## 1. The system

| Process | Parts (source) | State it keeps | Operations |
|---|---|---|---|
| netmon-engine | sweep tasks, state machine (`monitoring/engine.py`, `state_machine.py`, `gap_handler.py`, `ping.py`) | `endpoint_states` in memory; `endpoint_events`, `monitoring_service_events` in the database | one cycle per endpoint and minute; start-up cleanup; spawning and eviction every 30 s |
| | endpoint registry (`monitoring/registry.py`) | endpoints, sweep tasks, diagnostic tasks by endpoint | add, update, remove, done-callbacks |
| netmon-flowd | collector, parsers (`monitoring/flow/collector.py`, `v5/v9/ipfix_parser.py`) | packet queue, v9 templates, orphan packets | receive, parse, flush to the stream, drain orphans |
| | aggregator (`monitoring/flow/aggregator.py`) | sums per rollup row, ids to acknowledge, the consumer group's position | consume, accumulate, flush, acknowledge, stop |
| netmon-api (several workers) | alert dispatcher (`services/alert_dispatcher.py`) | advisory lock, event queue, delivery log | elect, enqueue, dispatch, suppress, rate limit, deliver with retries |
| | RCA and recovery (`services/rca_engine.py`) | `rca_incidents`, node overrides | run RCA on DOWN, resolve on UP (both background tasks of the engine) |
| | sessions and lockout (`services/session_store.py`, `auth_service.py`, `routers/auth.py`) | sessions and failure counters, in PostgreSQL or Redis | login, register, validate, invalidate, lock out |
| | driver manager, settings sync | the driver in use per worker | switch, migrate both ways |
| | event broker, telemetry relay, SSE | subscriber queues, cached node state | publish, relay, stream |
| | topology (`services/topology.py`) | graph of nodes and edges | rebuild, status update, propagation of inferred-down |
| | baselines (`services/baseline_route.py`, `baseline_service.py`) | discovery queue, route and latency baselines | enqueue, discover, refresh |
| | endpoint administration | endpoints and parents | create, update (parent cycle check), delete |
| | uptime and reports | none | sums over `endpoint_events` |

Who talks to whom: the engine writes `endpoint_events` and publishes `STATE_TRANSITION` events through
the broker; the relay turns them into topology updates and SSE messages; the dispatcher of the elected
API worker turns them into alerts; reports sum the rows. A transition also starts RCA or recovery as a
background task in the engine. Operators change endpoints in the database, and the engine notices by
polling. The collector hands records to the aggregator through a Redis stream.

What is hard: awaits between the commit of a transaction and the update of memory; events published
before the commit they announce; several engine or API workers sharing tables with per-process caches;
crashes and restarts between two steps; background tasks overtaking each other; queues that drop; at
least once delivery with retries; check-then-act on shared rows. The `hazards` of `PROJECT.json` name
the lines.

What makes each part correct:

* engine: one open row per endpoint, memory and rows agree, a change is confirmed exactly by N
  agreeing cycles, and a lasting condition is eventually recorded;
* registry: one sweep task per active endpoint, none that nobody can cancel;
* flow: bytes are neither lost nor counted twice between packet and rollup;
* dispatcher: one dispatcher at a time, no alert lost or repeated beyond what the policy says;
* sessions: at most the configured number per user, a revoked session is never valid again;
* driver switch: no session lost or resurrected;
* topology and RCA: the graph stays connected and follows the recorded states; recovery clears what
  an outage set;
* diagnostic traces: every trace ends, can be cancelled while it runs, and saves a whole route;
* uptime and reports: time is counted once but for rounding, and all reports agree on it.

## 2. The modules

| Module | Models | Uses | Run | Proofs |
|---|---|---|---|---|
| `ConfirmedState` | abstract: what the N-cycle rule promises | | through `EndpointMonitor` | |
| `EndpointMonitor` | one endpoint's sweep task and rows | refines `ConfirmedState` | `EndpointMonitor`, `EndpointMonitorLive` | `EndpointMonitorProofs` |
| `EndpointRegistry` | which sweeps run | | through `IncidentTraces` | `IncidentTracesProofs` |
| `IncidentTraces` | the diagnostic traces a sweep starts | extends `EndpointRegistry` | `IncidentTraces` | `IncidentTracesProofs` |
| `FlowCollector` | datagrams, templates, queue, flush to the stream | | `FlowCollector` | `FlowProofs` |
| `FlowAggregator` | stream to rollup rows | | `FlowAggregator` | `FlowProofs` |
| `AlertElection` | the worker that alerts | | `AlertElection` | `AlertElectionProofs` |
| `AlertDispatcher` | root cause, suppression, delivery of alerts | | `AlertDispatcher` | `AlertDispatcherProofs` |
| `DriverSync` | driver switch in every process | | `DriverSync`, `DriverSyncEngine` | `DriverSyncProofs` |
| `Sessions` | the sessions of a user over both stores | | `Sessions` | `SessionsProofs` |
| `TopologyGraph`, `Topology` | pure graph operations; the tasks that race on the graph | `Topology` extends `TopologyGraph` | `Topology` | `ViewProofs` |
| `Availability` | rows with times, and the reports over them | | `Availability` | `ViewProofs` |

A module named `MC...` gives a model values that a configuration file cannot write down.

The modules meet at the interfaces the processes have. `EndpointRegistry` discharges what
`EndpointMonitor` assumes, one sweep per endpoint. `FlowCollector` ends at the stream where
`FlowAggregator` begins. `AlertElection` decides who runs what `AlertDispatcher` models, and
`DriverSync` when a worker makes the migration of `Sessions`. `Availability` takes from
`EndpointMonitor` which writes to the rows there are, and adds their times. `AlertDispatcher` and
`Topology` consume the events that `EndpointMonitor` publishes, before or after the commit. They are
checked one by one: a product of two has too many states to say more than its parts do. The one
composition that is checked is `IncidentTraces` with `EndpointRegistry`, because removing an endpoint
is a single step of both.

What is worth doing next: the lockout counters; the Redis broker's reconnects; `FlowCollector` with
`FlowAggregator` as one system.

## 3. EndpointMonitor and ConfirmedState

`EndpointMonitor` is one endpoint in one engine process: the sweep task `monitor_endpoint`, the
functions of `StateMachine` it calls, the endpoint's rows and its entry in `endpoint_states`.
Endpoints share no rows, so one is enough, with one exception that is modelled: another engine
worker's start-up cleanup (`ForeignStartup`) closes this endpoint's rows.

| Model | Code |
|---|---|
| `events` | rows of `endpoint_events`, by start time: detailed state, `end_time IS NULL`, age class |
| `entry`, `fresh` | `endpoint_states[id]` and the task's local `new_state` before it is stored there |
| `seen` | what the cycle under way was classified as |
| `pc` | where the task is: off, `initialize_endpoint`, baseline ping, cycle, between decision and commit, between commit and store |
| `told` | the last state handed to the broker as STATE_TRANSITION |
| `run`, `spent` | history of committed cycles; how much of each bound is used |
| `Decide` | the ping, the confirmation logic and the publication, which a transaction still open follows |
| `Cycle`, `CycleFails`, `CycleUnacknowledged` | the transaction commits, is rolled back, or commits with its answer lost |
| `Confirm`, `RowsAfter`, `WithActive` | `process_cycle`: confirmation, writes to the rows, `active_event_id` |
| `Startup`, `Spawn`, `Remove`, `Crash` | `main`: start-up cleanup, registry calls, and the end of the process |

What a transaction writes is one step: its statements are invisible until it commits. Steps end where
another task can run and matter: after the decision, when the publishing tasks run and a crash or a
cancellation still undoes the writes, and after the commit, before `endpoint_states` is updated.
What becomes of a message the broker was handed is `AlertElection`'s matter. Durations, cycle
counts, latency statistics and the UNSTABLE details of rows that no decision depends on are left
out; row age is kept because 24 hours decides the roll-over and seven days the cleanup. How
`classify_ping_result` turns replies into a class is not modelled: the class of a cycle is `link`.

`ConfirmedState` is the rule the documentation gives, without rows or tasks: a state changes exactly
when N observations in a row say so, and a restart may forget the count, never the state.
`EndpointMonitor` is shown to implement it with `conf` mapped to the state of the latest row
(`FollowsTheRule`).

Runs. `EndpointMonitor.cfg`: three classes (so that a pending state can be replaced by another),
threshold 3, three changes of the link, one fault, two (de)activations, two day boundaries; each
property needs at most two rounds of confirmation with something in between, which these bounds
contain. `ToldIsRecorded` says that what subscribers were told and what is recorded part only when a
cycle that has published a transition fails, is cancelled or dies with its process before its commit,
and that no change is ever recorded without its publication. `EndpointMonitorLive.cfg`: lost COMMIT answers included, two
faults, under fairness.

Fairness: weak fairness of the start-up, of spawning and eviction and of the task's own steps. systemd
restarts the engine (`deploy/netmon-engine.service`, Restart=on-failure), the orchestration loop runs
every 30 seconds and catches its exceptions, the minute loop never ends but by cancellation. Nothing
is assumed of faults, of the link or of the operator.

## 4. FlowAggregator

The consumer task and the flush task of `FlowAggregator` interleave at their awaits; `_flush_lock`
admits one flush at a time. A record is the set of rollup rows it counts in, which covers malformed
records (no row), records of unknown exporters (one row) and of known ones (a flow row and interface
rows). The sums of a row are modelled by `flow_count`; bytes and packets are added, snapshot and
deducted by the same statements.

| Model | Code |
|---|---|
| `stream`, `unread`, `acked` | `stream:netflow:raw`, what the group has not been delivered, what it has acknowledged |
| `acc`, `pend` | `_accumulator` with `_interface_accumulator`, `_pending_msg_ids` |
| `flush` | a flush in progress: before COMMIT, before the deduction, in the xacks; and its snapshots |
| `mem`, `stored`, `seen` | history: records counted in `acc`, records whose counts were committed, kinds of faults so far |
| `Send`, `Trim` | `FlowCollector.flush` with its MAXLEN, `_stream_trim_loop` |
| `Consume`, `ConsumeLost` | one `xreadgroup` whose reply is processed, or lost |
| `FlushBegin`, `Commit`, `Deduct`, `Ack` | the four parts of `flush_to_timescaledb` between awaits |
| `CommitFails`, `CommitUnanswered`, `AckFails` | its except branches |
| `Stop`, `StopInterrupts`, `Exit`, `Crash`, `Start` | `stop` (cancel, then one more flush), the end of the process, systemd |

Bounds of `FlowAggregator.cfg`: three records, each of any of the three kinds, batches of two,
acknowledgements one by one (so an xack can fail between two), a stream of at most two, two faults of
any kinds. This has two flushes with records arriving between snapshot and deduction, and every pair
of faults. The properties say by `seen` which faults they allow; a lost answer or an interrupted
COMMIT breaks `NeverOvercounted` when that condition is dropped (section 13).

Fairness: the consumer, the flush steps, the exit after the last flush and the restart. The consumer
blocks in `xreadgroup` for at most a second and retries every exception; it pauses only while Redis
uses over 85 % of its memory, which is taken not to last for ever. The unit file has Restart=always.

`ExactlyOnce` leaves out what the code gives up on: records delivered and then lost with the process or
with a reply, because the consumer reads only `">"`, never its own pending entries; and the sums of a
last flush that fails.

## 5. EndpointRegistry and IncidentTraces

`EndpointRegistry`: the loop of `main` and the registry it drives. `add_endpoint` and
`remove_endpoint` take an uncontended lock and await nothing else, so a whole pass is the step `Sync`;
`Select` is the await before it. A cancelled sweep ends in a step of its own (`End`), a sweep can fail
only before its first cycle (`Begin`, `Fail`), and both run `_on_done`, which clears the entry of the
endpoint, whichever sweep it names: a sweep that loses its entry so is recorded in `stray`. A
cancelled sweep ends when it likes, also passes later: `engine.py` does not wait for it.

`IncidentTraces` adds the traces that failed cycles start (`Trigger`) and that `remove_endpoint`
cancels (`SyncTraces`, the pass with both effects).

| Model | Code |
|---|---|
| `tracked` | `_diagnostic_tasks`: the set that counts against `Limit` and is cancelled |
| `queue`, `Acquire` | `trace_semaphore` and its waiters, first come first served |
| `Answers`, `NoAnswer` | the end of one of the three commands (icmp and udp traceroute, tracepath), its output parsed and sanitized, or its time-out |
| `Pause`, `Save`, `Ends` | half a second in the slot, the row, the done callback |
| `Swallowed` | `asyncio.wait_for` up to Python 3.11 forgets a cancellation that comes together with a result |

Run `IncidentTraces`: two endpoints, one on a local subnet, three changes, one failure, two traces, a
limit of one and one slot; 490,000 states. Three changes are enough for an endpoint to be removed, to come
back, to lose its entry to the old sweep, and to be removed again; one trace runs while the endpoint is
removed, comes back and starts another, and the limit is reached. Two possible outputs cover silent hops
at the end, in a row, and a target reached or not. `OneSweep`: an endpoint has one sweep at most that is
not a stray, and one that is not registered has none. `SweepsFollowRows`: an endpoint that stays
active is in the end swept, and one that stays inactive only by strays. A stray goes on for good (section 13), and starts traces of
an endpoint that may have been removed, which `TracesAreTracked` allows it alone. `TracesAreTracked`,
`RoutesAreWhole` and `TracesEnd` are about the traces.

Fairness: the loop passes (it catches its exceptions and sleeps 30 seconds), a cancelled task ends, a
command ends within its 60 seconds, the semaphore is fair, the database answers.

## 6. FlowCollector

`Packet` is a datagram: it teaches templates, decodes or buffers data sets, and enqueues what fits. A
packet that fills a batch spawns a flush task (`RunTask`), the loop flushes once a second (`Wake`), and
`Close` does when the daemon stops; a flush takes its batch from the queue before it awaits Redis
(`Answer`, `RedisError`). `log` is the history the properties are stated over: what a parser ought to
do with a set is defined from all sets received, not from its caches.

Run: one NetFlow v9 and one IPFIX source, two buffered sets per source, a queue and batch of two, four
sets, a clock of two ticks (both ages expire), one error. `OrphansAreDecoded`: a data set is decoded
when its template is there, or when it comes in time and the buffer had room, and else never.
`FlowsAreKept`: a decoded flow is in exactly one place, unless the queue was full or its batch ended in
an error. `QueueDrains` under fairness of the flush tasks, of Redis' answers and of closing. Layouts
stand for the fields of a template; a flow is one record of a set. NetFlow v5 needs no template and
differs in nothing after it is parsed.

## 7. AlertElection

Every API worker runs `AlertDispatcher.start`; the advisory lock of a PostgreSQL session makes one of
them the leader. `phase` is where a worker's `start`, standby loop or `stop` is, `lock` the sessions
that hold the lock, `queue` and `flying` its queue and tasks. `Elect`, `Retry`, `Subscribe`, `Dequeue`,
`Dispatch`, `Cancel`, `Unlock` are the parts of these coroutines between awaits. Upsets: a connection
that cannot be made, the death of a lock's session, a subscription that fails (`Unsubscribed`, as over
Redis), a LISTEN connection that dies unnoticed (`Deafened`, over PostgreSQL), a stop and a crash. The
subscriptions to the two channels are one.

Run: two workers, a queue of two, three events, three upsets, all six kinds. A leader never uses its
lock's connection again before it stops, so when that session dies a second worker leads;
`OneLeader` and `SentByOne` hold until then. `HeardIsSent` and `Failover` assume that asyncio runs
every task; the standby loop retries for ever, and the unit file restarts a worker. `Failover` leaves
out one case: a leader that has gone deaf still holds the lock, so neither it nor a standby listens
until it is stopped (section 13).

## 8. AlertDispatcher

From a change of state to the provider. A cycle publishes the event and starts the background task
in the engine (`Announce`); its transaction commits or fails afterwards (`Commit`, `Rollback`). `told`
is the change that is published and not committed. `CauseStep` runs root-cause analysis or recovery to
the commit and then to its event (`causes`, `incidents`, `notices`). `Receive` and `Notice` are the
leader's handlers; `TaskStep` takes a dispatching task through its awaits: suppression, flapping,
filters, rate limit, delivery. A suppressed event loads the channels (`Load`) and writes an entry for
each, with a commit of its own on one session (`Enter`); when one fails, the session takes no other, and
the entries that remain are given up (`Cut`, recorded in `cut`). A delivery (`sends`) is accepted,
rejected, fails or times out, is retried, and is logged. `Update` and `Delete` are requests of the
administrator in `routers/alerts.py`, served by any worker while events are dispatched: a channel is
switched on or off, or deleted together with its log (`row`); a delivery that is under way goes on, and
its entry in the log finds no row to refer to.

Run: a parent and a child that depends on it, two channels of which one lets a part of the states pass,
two changes, two clock ticks, two attempts, two slots and one upset out of twelve (a cycle rolled back, an
event lost with the subscription, a failing task of the engine, acts of administration, faults of a
provider or of the database); 4.9 million states. Two changes are an outage and its recovery, whose tasks
overlap, or the outages of parent and child. The rate window of three ticks and the flapping window of one
let both a limited and a flapping event occur with two changes, and mutes run out within the two ticks;
that limits are forgotten takes longer, so that this part of `Spaced` is only proved. `MutedForACause`
relates the mute list and the open
incidents to the parent's state; it leaves out what a failed task or a lost event does, and by `strays`
the incidents of changes that were rolled back and those recorded when the recovery had already looked.
`Spaced` relates the log to the rate window, but for kinds of alert that were in delivery twice at a
time, or about an event held up (`Overdue`) for so long that the limit it would meet is forgotten.
`LogTellsDeliveries` relates the log to the provider and to the channel's row (one that is off or gone
is sent nothing about events received since), `EveryChangeIsLogged` the log to the changes, but for what
was `cut`. Deadlock is checked: only a system with nothing left to do (`Done`) stops. Each property names
the conditions under which the code does not keep it; section 13 lists those that contradict what the
code says of itself.

## 9. DriverSync and Sessions

`DriverSync`: `performance_mode` chooses PostgreSQL or Redis. `Check` is the validation of a PATCH
and the commit follows it in another step, which is why two of them can race; `JobStep` is commit,
notice to the other workers, `initialize` (ping, migration, installation of the driver); `Reload` a
notice handled; `Subscribe` and `Listen` the listeners, which over PostgreSQL never notice that their
connection died ("lost"). Run: two workers, two PATCHes, one upset. `WorkersAgree` says when all
workers end at the driver of the settings; its exceptions are real ways to disagree for good: Redis
away during a switch (the worker falls back), a notice missed between start-up and the listener or by
a lost one, a failed notice, two initializations in one worker, and a read of the setting that fails:
`initialize` swallows the error and follows the configuration file (`Readings`), so such a worker
(`blind`) is out until it is initialized again. A read may fail at every `Choose` and restart.
Fairness: jobs, reloads, listeners, and Redis comes back. `DriverSyncEngine` shows the engine left behind (section 13).

`Sessions`: one user. A change goes through the handler (`Login`, `End`), a read of the store, the
write (`Register`, `Revoke`) and the background repetition that `auth_service.py` adds (`Registered`);
`Migrate` and `Move` are the copy at a switch, `Switch` the setting. Both stores are there throughout.
Run: two workers (symmetric), one session allowed, two logins, one end, two upsets among errors of a
store, restarts and switches. `RevokedStaysDead` names four ways in which a session
can stay or come back, all judged when it is ended: a change under way has read this very session and
writes it back, its registration is still to be repeated, the other store holds it, or a logout read
an absent key, for which it writes nothing (`Absent`, `session_store.py:262`), while a migration set
the list. Changes under way that carry other sessions, and what other workers and later switches do,
are covered; `Quota` and `NewestIsActive` exclude overlapping changes. Sessions do not expire: nothing here depends on when.

## 10. TopologyGraph and Topology

`TopologyGraph` has the pure part: `sanitize_traceroute_hops`, building the graph from rows, setting a
node's state with propagation to what depends on it, laying a path anew. `Topology` is one API worker
over the shared rows: the engine announces a transition before it commits it (`Announce`, `Commit`,
`Rollback`), the relay applies events of two channels (`Handle`), requests and the discovery consumer
commit and then rebuild under the lock or lay a path (`Reads`, `Builds`, `LayPath`), and parent
assignment checks for cycles before it writes (`CheckParent`, `SetParent`), as two steps because
another request's commit may come between. `Create` is the POST of a new address or of a deleted
one; the engine's first row of an endpoint (`FirstRow`) is written and announced to nobody.

Run: two endpoints, one of which need not exist at the start, one router, two task slots (symmetric), one
transition or first row, two requests, one upset; 2.6 million states. `Connected`: every endpoint in the graph is reachable from its root, except
below a cycle of manual parents that two concurrent requests can make. `GraphFollows`: with nothing on
the way, an endpoint is shown up exactly when its row says so, and a router with nothing up below it
is never shown up. An endpoint is exempt (`astray`) from when the graph may have missed its row until
a rebuild takes it: a transition rolled back, an event lost or passed over while the endpoint was
hidden, a row read between announcement and commit, a first row of DOWN. Deadlock is checked.

## 11. Availability

The engine's writes to the rows with their times (`FirstCycle`, `ChangeCycle`, `SameCycle` with the
roll-over, `Start`, `Stop`, `ForeignStartup`), and the five queries over them as operators of a window:
fleet summary, endpoint report, endpoint list, compiled report, incident log. `past` records at each
tick what the rows say of that time; the reports are compared with it, for every window.

Rows begin and end at ticks, `Second` of which are a second, and the code makes whole seconds of them in
three ways: SQL rounds each row (`Rounded`, `reports.py:129`), Python truncates each row (`Truncated`,
`reports.py:349`), the endpoint list truncates the sum. A percentage is in hundredths, rounded
(`uptime_calculator.py:106`; a half is rounded up here, to even there). So no sum is exact: `EverySecondOnce`
says by how much the fleet summary and the denominator may differ from the time the rows said UP or DOWN,
and how much a reported 100 % may hide; `ReportsAgree` says by how much reports differ. `OutagesCountedOnce`
compares incidents with outages.

Run: a second of two ticks, a day of two seconds, five ticks, four rows, two stops, one gap: rows that
end, begin, span and touch a window, that last no whole second, roll-overs within an outage, an outage
over a restart.

## 12. What is proved

TLAPS checks these for every value of the constants that meets the named assumptions. Each component's
theorems are in a module of their own, which starts from the component's and extends nothing else of
the project.

`EndpointMonitorProofs`. Two inductive invariants. `RowsInv` (assuming no lost answers): only the
latest row may be open, and whoever holds an EndpointState between cycles holds the latest row; type
correctness and `OneOpenRow` alone are not inductive, because a roll-over closes the row it has in
memory and opens another. `CountInv`: the pending count equals the length of the run of committed
cycles; it holds with lost answers too, since they change neither. From them: `TypesHold`, `RowsHold`
(one open row), `EntryHoldsTheLatestRow`, `SubscribersFollowTheRecord` (only a published cycle that
ends without its commit parts what was told from what is recorded, and `ToldInv`: what a cycle is about
to record has been told), `ChangesAreNotMissed`,
`ChangesAreSustained`, and `TheRuleIsFollowed`, the refinement of `ConfirmedState`, step by step (an
observation, a forgetting or a stutter). Assumptions: the threshold is at least 2 (the engine uses 3),
None is not a class.

`FlowProofs`, of the aggregator. Lemmas about counting (the count of a disjoint union is the sum, of a
difference the difference), then one invariant with three parts. `SumsInv`: each sum in memory is the
count of a set of records, a snapshot is the count of its batch, and what is unread is in neither set;
without the sets, a deduction could not be shown to leave what came in meanwhile. `AckInv`: an id is
acknowledged only when its record is stored or malformed; the step from commit to deduction is what
makes the snapshot's ids so. `OnceInv`: unless a COMMIT was repeated, a row is the count of the stored
records and only the batch between commit and deduction is both stored and in memory. From them:
`TypesHold` (no sum goes below zero), `AcknowledgedRecordsAreStored`, `NothingIsCountedTwice`.
Assumption: a record is a set of rows.

`FlowProofs`, of the collector. `ParserInv` says what the caches of the parsers hold in terms of the
log of all sets received: `Follows`, a template is the last one received or has expired; `Waits`, what
is buffered are orphans no template came for, in order; `Fates`, every data set so far was decoded if
it had to be, and an orphan that may still be rescued waits, or was pushed out by as many rivals as the
buffer holds, or is too old; `Known`, what was decoded had to be. The lemmas say how each of these
definitions over the log changes when a set is appended (`EarlierStay`, `RivalsGrow`, `RescuerGrows`)
and what draining a buffer leaves (`DrainIs`); a packet is a fold over its sets (`ParsedHolds`).
`PlacesInv`: queue, batches under way and stream are disjoint, and together with what was dropped or
broken they are what was decoded. From them: `CollectorDecodesOrphans` and `CollectorKeepsFlows`, for
every set of sources, every age, buffer, queue and batch size. TLC checked `ParserInv` and `PlacesInv`
on the instance of the run before they were proved. Assumptions: datagrams are sequences of sets of
known sources, the buffer and the queue have room for at least one element.

`IncidentTracesProofs`, of the registry and of the traces. `Registered`: a sweep that goes on is the one
the entry names or a stray, only registered endpoints have an entry, and no sweep that is ending shares
its number with one that goes on; from it `EndpointsAreSweptOnce`, however late cancelled sweeps end.
`TracesImplementRegistry` is the refinement: every step of the system with traces is a step of the
registry or leaves it alone, so `TracedEndpointsAreSweptOnce` follows. `EveryRoute`: whatever the
commands print, the sanitized hops count upwards, no two silent ones stand in a row, and the last is
the endpoint. `RoutesHold` carries this to what is saved, through a queue whose waiters may be
cancelled in any order. `TracesAreRegistered`: a trace that nobody cancelled is in the set that a
removal of its endpoint would cancel, and there are at most `Limit` of them, however late cancelled
sweeps end: a trace is registered by a sweep whose endpoint has its entry, or by a stray (`Swept`), and
no step but a pass that cancels the trace takes away either (`SweptStays`). Assumptions: a command
prints hops in the order of their numbers, counted from 1, and a hop without an answer is not an
endpoint (`OutputsAssumption`, `TraceAssumption`).

`AlertElectionProofs`. `LockInv`: one session holds the lock, and whoever alerts holds it while no lock
session has died under its worker; `HeardInv`: an event is sent only by a worker that heard it, and
only one hears it, because only the holder of the lock subscribes. From them `OneWorkerAlerts` and
`NoEventSentTwice`; `QueuesAreBounded` is type correctness with the bound of the queue.

`AlertDispatcherProofs`, all four properties, from one base: `Types`, and the numbers
(`EventNumbers`, `WorkNumbers`): a change waits in the queue or has been received, and then has one
task at most and one delivery per channel. A pair of change and channel is `Open` while an entry about
it may still be written; each step leaves the log, deletes a channel's entries with its row, or writes
the one entry that closes its pair (`LogStep`).

* `TheLogTellsDeliveries`: `LogInv` (nothing open is logged, what is logged DELIVERED was accepted),
  `CopyInv` (a second copy comes from a late answer only), `Switched` (a channel that was not on when
  an event was received has no part in it).
* `EveryChangeLogged`: `Complete`. While none of `Faults` has happened, a change is still in the
  queue, or its pair with a channel in use is open, logged or cut (`Covered`), unless the filters turn
  it down.
* `AlertsAreSpaced`: `Noticed`. The limit of a kind reaches what was delivered, or that is older than
  `Keep`; a delivery under way is a whole window after everything delivered, and alone of its kind. The
  case that limits are forgotten after an hour makes the second half necessary, and it is why an event
  that is `Overdue` is an exception.
* `MutedOnlyForACause`: `Muting`. What an endpoint's outage mutes, and what has still to mute on the
  way, is excused (`Excused`) by the outage that lasts or has still to commit (`Stands`), by a recovery
  that has still to publish, or as a stray; or it is ended by a resolution that is behind it in the queue
  (`Freeing`). Likewise an incident is a stray or stands, or a recovery will resolve it (`RowsEnd`). One
  parent at most mutes an endpoint, and the tasks know of changes that happened (`Known`).

Assumptions: those of the constants; an alert's limit is kept at least as long as its window.

`DriverSyncProofs`. For `FlowTelemetryNeedsRedis` the invariant says of every PATCH under way which
settings it was checked against; unless another was checked meanwhile, these are still the settings.
`TypesHold` includes that a new job always finds a free number, which is a count: requests under way
and notices sent are at most the PATCHes, and each notice is one reload per worker. Assumption: there
are finitely many workers.

`SessionsProofs`, all three properties.

* `NoSessionReturns`: `Issued` (one login per session, and only what was answered is ended) and
  `Ghosts`: a revoked session is in no store, nothing that is registered again names it, and no list
  that was read and will be written back holds it.
* `QuotaHolds`: a session has one row (`OneRow`), and besides both stores, what the one change that has
  read is going to write is within the quota (`Within`).
* `NewestStaysActive`: while all is calm there is at most one request and one change that has read,
  and what each carries agrees with the stores (`Orderly`); the newest session is in a store, and gets
  to the other one from a worker that has not switched or from the registration in the background
  (`Held`).

`ViewProofs`, of the reports. `NoMomentTwice`: the rows share no moment and only the latest is open. `History`
adds that `past` repeats the rows (`PastInv`), that gaps are apart (`GapInv`), and that outages are
numbered as runs of DOWN rows (`OutageInv`). `SumIsSize`: the sum of the sizes of disjoint intervals
is the number of their ticks, which turns a sum over rows into a set of times; `SumBetween`: where
summands differ by a bound, sums differ by that bound per summand; `ConversionIs`: what a conversion to
seconds loses or adds. From these `SecondsAreCounted`, `TheReportsAgree` and `OutagesAreCounted`, for every
window, any number of rows and any number of ticks to a second (so for PostgreSQL's microseconds).

`ViewProofs`, of the graph; nearly all of it is about the pure operations of `TopologyGraph`, each of
which gets a lemma that says what it returns (`ReachIs`, `CleanIs`, `WayIs`, `BuildIs`, `RestitchIs`).
Two invariants, both checked by TLC on the instance of the run before they were proved:

* `CoreInv`, for `TopologyTypes` and `TopologyFollows`. `TasksInv`: only the task that rebuilds holds
  the lock. `QueueInv`: what is being discovered is in the queue or with the consumer. `EventsInv`, for
  each endpoint: the last event on the way says what its row will say when the engine has committed
  (`Told`); with none on the way, the graph says so (`Follows`), and so does what the rebuild under way
  has read (`WillFollow`), unless it read a row between announcement and commit: an event applied
  meanwhile waits for the lock. `Lit` holds after each propagation, as it marks every router that
  only down endpoints depend on.
* `LinkedInv` adds, for `TopologyConnected`, `ParentsInv` and `Grows`. `ParentsInv`: a request whose
  check was not overtaken will make no cycle, and the parents in the rows, in the graph and in what a
  rebuild has read have none unless one was made with no look, or an old one, at the others
  (`LooplessLink`: a parent that is not below the endpoint makes no cycle). That the root reaches every
  endpoint is not inductive: an edge that is pruned may be what another endpoint's path
  goes through. `Grows` is: from any set of endpoints that leaves out one not below a cycle, the graph
  leads to one more, by its parent or by the rest of its path, which begins at the root or at any
  endpoint of the set. Laying the path of `e` anew prunes what led to `e`, and routers on nobody's
  path: if `e` is outside the set, the new path leads to it from the root; if it is inside, the rest
  of any other path that went through `e` can begin at `e` (`RestitchGrows`). `Connected` follows by
  taking for the set the endpoints that the root reaches.

Assumptions (`TopologyAssumption`): there are finitely many endpoints; addresses of routers are not
endpoints'; routes are finite sequences of addresses and silent hops.

What sums, filters and folds compute needs an induction over their argument. The library's induction
theorems take an operator as a parameter, which the installed provers cannot instantiate, so it is
done by a minimal counterexample: strict inclusion is well-founded on the subsets of a finite set
(`MinimalSubset`), and a fold is unfolded to the function it is defined by, on all subsets of the
places of its list. The few lemmas about finite sets that this takes are repeated in the modules that
need them, which keeps each of them readable on its own.

Only model-checked: liveness under fairness (`SettlesOnLink`, `ExactlyOnce`, `SweepsFollowRows`,
`TracesEnd`, `HeardIsSent`, `Failover`, `WorkersAgree`, `QueueDrains`), which this prover does not do,
and the violation.

## 13. Where code and documentation differ

One is a run that TLC ends with a counterexample, and a finding of `PROJECT.json`. `DriverSyncEngine`:
the engine keeps the broker it started with (`monitoring/engine.py:230`), so after one change of
`performance_mode` nothing it publishes is heard. The others were met while modelling. The models
behave as the code does; the properties name the condition, where one is about it.

Engine and registry:

* A transition is published before its transaction commits (`state_machine.py:301`).
* A COMMIT whose answer is lost leaves an open row of a superseded state (`engine.py:210`;
  `changelog.md:66`). With `LostAcks` TRUE, `OneOpenRow` fails.
* An open row older than the seven uncompressed days is updated (`state_machine.py:530`;
  `release-notes/v3.1.35s.md:54`).
* A failed cycle keeps the pending count, so confirming cycles need not be consecutive
  (`engine.py:210`; `sla-calculation.md:38`). Cycles with one or two of five replies confirm an outage
  (`ping.py:201`; `sla-calculation.md:45`).
* When a cancelled sweep takes longer than 30 seconds, its done callback clears its successor's entry
  and the endpoint is swept twice (`registry.py:142`; `registry.py:56`). `remove_endpoint` cancels the
  sweep the entry names, not the one that lost it, which goes on for good (`registry.py:224`).
* Ten traces are allowed over all endpoints, not each (`changelog.md:74`); three hold a slot, not five
  (`changelog.md:188`). A timed-out or cancelled traceroute is not killed, so more than three may run
  (`diagnostics.py:223`, `:288`). When no command answers, a route of the target alone is saved.

Flows:

* `flow_count` exceeds the records after a flush interrupted at its COMMIT or a lost answer
  (`aggregator.py:509`, `:345`; `database.md:62`).
* IPFIX fields of variable length (65535) are never decoded. `MAX_QUEUE_SIZE` does not bound batches in
  flight. The orphan buffer holds 100 sets, `architecture.md` says 2000.

Alerts:

* The leader never checks its lock's connection; subscribers bind to a broker once. The reconnection
  loop of `event_broker.py:67` is not reached when a LISTEN connection dies, because the subscriber waits
  at its local queue (`event_broker.py:97`): a leader goes deaf and keeps the lock.
* Flapping needs four events (`alert_dispatcher.py:488`), `architecture.md:67` says three.
* A recovery resolves the incidents there are (`rca_engine.py:277`); the analysis of a short outage,
  which traces a route first, records its own after that.
* Every active channel is to get an entry about a suppressed event (`alert_dispatcher.py:425`), but a
  channel deleted since the channels were loaded costs those after it theirs (`:433`).
* An incident recorded after the root's recovery, or about a change that is rolled back, mutes its
  children for up to 30 minutes, and stays open until the next recovery. A child's
  suppressed DOWN is not alerted later, even when the parent recovers and the child does not.
* The rate limit is written after a delivery, so two alerts in delivery at a time do not see each other.
  Limits are forgotten an hour after they are set (`alert_dispatcher.py:225`), so an event that is held
  up for nearly that long may be sent next to another.

Drivers and sessions:

* Concurrent PATCHes, each valid, can leave flow telemetry on without `performance_mode`.
* At Redis a login occupies two slots; concurrent logins at PostgreSQL exceed the quota.
* A session that ends while its registration is to be repeated comes back, and so does one that a
  change under way has read. A logout that read an absent key leaves what a migration sets meanwhile.
  Errors of PostgreSQL are swallowed. The repeated wipe can end a login made right after.
* Migration overwrites Redis' list; a restart in Redis mode copies stale rows again, which a switch
  did not delete.
* A failed login counts twice in PostgreSQL mode (`security.md:151`).

Topology:

* Restoring a deleted endpoint can make it its own parent, and concurrent assignments can make a cycle
  (`changelog.md:190` says the graph has none).
* INFERRED_DOWN and FAILURE_POINT of a router stay until a rebuild; a plain state overwrites
  FAILURE_POINT; laying a path anew drops the edge of a manual parent and leaves stale edges until a
  rebuild. A database error during a rebuild empties the graph. Another worker's commits do not reach
  this worker's graph. A PATCH cannot clear a manual parent.
* An endpoint without a row is built as UP (`topology.py:117`), and its first row is not announced
  (`state_machine.py:148`): a host that is down from the start is shown up until the next rebuild.

Reports:

* `open_monitoring_gap` has no caller, so while the engine is off time counts in the last recorded
  state or in none; `sla-calculation.md:61` says only monitored time counts.
* A percentage is rounded to two places (`uptime_calculator.py:106`), so two minutes of outage in 30
  days are shown as 100.0. The fleet summary rounds each row, the uptime report truncates each row, the
  endpoint list truncates the sum: of the same window they differ by up to a second per row, and an
  endpoint that was always up may be shown below 100 %.
* The compiled report and the fallback of the fleet summary count a row that merely touches the window
  with its whole duration (`report_compiler.py:187`, `reports.py:151`).
* The availability report counts DOWN rows as incidents. The incident log gives 60 seconds per row as
  the duration, ignores an open last row for the end, and omits rows that began before the window.

## 14. What is not modelled

In modelled parts: `update_endpoint` of the registry and `open_monitoring_gap`, which have no caller;
how replies are classified; the correlator's tables; other users of the trace slots, the retention
cleanup and the discovery worker of diagnostics, whose queue is never filled; the wording of alerts
and the providers' formats; creation of alert channels and changes of their filters and secrets;
lockout, passwords and expiry; reconnects of the Redis broker and the SSE stream; layout levels,
several subnets and the fallback to diagnostic traces in the topology; the hourly latency statistics;
averages, flow exporters, passive endpoints and the fleet summary's fallback (when its query fails) in
reports. Each is named at its component in
`PROJECT.json`.

Left out altogether: report layout and PDF, the frontend and the deployment scripts (formatting and
pure I/O; restart policies are taken from the unit files); bandwidth queries (read-only SQL);
cryptography, SSRF validation, synthetic checks and the
watchdog (stateless wrappers of libraries); configuration and schema (declarations).
