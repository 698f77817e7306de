----------------------------- MODULE DriverSync -----------------------------
(***************************************************************************)
(* Which storage driver, PostgreSQL or Redis, every process uses:          *)
(* routers/settings.py changes performance_mode and the flow setting that  *)
(* depends on it, services/driver_manager.py initializes the drivers of a  *)
(* process from the setting, services/settings_sync.py tells the other API *)
(* workers to do so too, and the subscribers of services/telemetry_relay   *)
(* and of the alert dispatcher listen to the broker of their driver, to    *)
(* which the engine publishes the changes of the endpoints' states.        *)
(*                                                                         *)
(* What a switch does to the sessions is in Sessions.                      *)
(***************************************************************************)
EXTENDS Integers, FiniteSets

CONSTANTS
  Workers,     \* processes of the API
  Upsets,      \* the kinds of fault that may happen
  Configured,  \* performance_mode of the configuration file
  MaxPatches, MaxUpsets  \* bounds on the changes of settings and on the upsets

UpsetKinds == {"redis", "broadcast", "database", "worker", "engine", "read"}

ASSUME SyncAssumption ==
  /\ IsFiniteSet(Workers) /\ Upsets \subseteq UpsetKinds /\ Configured \in BOOLEAN
  /\ MaxPatches \in Nat /\ MaxUpsets \in Nat

Drivers == {"postgres", "redis"}

\* A PATCH may leave either setting as it is.
Values == {"on", "off", "same"}

VARIABLES
  perf, flow,  \* performance_mode and flow_ingestion_enabled in app_settings
  redis,       \* does Redis answer?
  jobs,        \* running PATCHes and reloads, each in its worker and, once it
               \* has chosen a driver, at that driver: [id, w, kind, perf, flow, pc]
  mode,        \* _driver_mode of each worker
  engine,      \* the driver of the engine
  sub,         \* what the worker's subscribers listen to, "none" while they reconnect,
               \* "lost" when they wait at a dead connection to PostgreSQL
  ear,         \* the settings listener of a worker: "off" until started, "on", "lost"
  inbox,       \* reload notices each worker has still to handle
  patches,     \* how many PATCHes there were
  upsets,      \* how many upsets have happened
  blind,       \* history: workers that took the configured mode for the setting when
               \* they were last initialized
  seen         \* history: their kinds, "overlap" of initialize() calls in a worker,
               \* "race" of PATCHes, "missed" or "unsent" notices

vars ==
  <<perf, flow, redis, jobs, mode, engine, sub, ear, inbox, patches, upsets, blind, seen>>

Upset(kind, losses) ==
  /\ kind \in Upsets /\ upsets < MaxUpsets
  /\ upsets' = upsets + 1
  /\ seen' = seen \cup {kind} \cup losses

\* initialize: Redis if it is asked for and answers, else PostgreSQL.
Driver(asked) == IF asked /\ redis THEN "redis" ELSE "postgres"

\* The driver the settings ask for.
Target == Driver(perf)

\* What initialize takes for performance_mode: an error of the database is swallowed,
\* and the configuration file is followed.
Readings == {perf} \cup (IF "read" \in Upsets THEN {Configured} ELSE {})

\* History: w has read the setting, or has not and took it for another.
Blind(w, asked) == IF asked = perf THEN blind \ {w} ELSE blind \cup {w}

Init ==
  /\ perf \in BOOLEAN /\ flow \in BOOLEAN /\ (flow => perf)
  /\ redis = TRUE
  /\ jobs = {}
  /\ mode = [w \in Workers |-> Target] /\ engine = Target
  /\ sub = [w \in Workers |-> Target] /\ ear = [w \in Workers |-> "on"]
  /\ inbox = [w \in Workers |-> 0]
  /\ patches = 0 /\ upsets = 0 /\ blind = {} /\ seen = {}

-----------------------------------------------------------------------------
(* PATCH /settings.                                                        *)

\* Faulty: only what the PATCH itself says counts.
Lenient(p, f) == ~(f = "on" /\ p = "off")

\* Rules C, A and B, from the settings the request read.
Allowed(p, f) ==
  /\ ~(flow /\ p = "off" /\ f # "off")
  /\ (f = "on" \/ (f = "same" /\ flow)) => /\ p = "on" \/ (p = "same" /\ perf)
                                           /\ redis

Ids == 1..(MaxPatches + MaxPatches * Cardinality(Workers))

Fresh == CHOOSE i \in Ids : \A j \in jobs : j.id # i

\* The request reads the settings and passes the rules.
Check(w, p, f) ==
  /\ patches < MaxPatches
  /\ Allowed(p, f)
  /\ patches' = patches + 1
  /\ jobs' = jobs \cup {[id |-> Fresh, w |-> w, kind |-> "patch", perf |-> p, flow |-> f,
                         pc |-> "checked"]}
  /\ seen' = IF \E j \in jobs : j.pc = "checked" THEN seen \cup {"race"} ELSE seen
  /\ UNCHANGED <<perf, flow, redis, mode, engine, sub, ear, inbox, upsets, blind>>

New(value, old) == IF value = "same" THEN old ELSE value = "on"

Move(j, pc) == (jobs \ {j}) \cup {[j EXCEPT !.pc = pc]}

\* History: two initialize() calls of one worker run at the same time.
Overlap(j) ==
  IF \E k \in jobs \ {j} : k.w = j.w /\ k.pc \in Drivers \cup {"init"}
  THEN seen \cup {"overlap"} ELSE seen

\* It commits what it changes; only performance_mode needs the drivers initialized.
Commit(j) ==
  /\ j.pc = "checked"
  /\ perf' = New(j.perf, perf) /\ flow' = New(j.flow, flow)
  /\ IF j.perf = "same" THEN jobs' = jobs \ {j} /\ UNCHANGED seen
     ELSE jobs' = Move(j, "init") /\ seen' = Overlap(j)
  /\ UNCHANGED <<redis, mode, engine, sub, ear, inbox, patches, upsets, blind>>

-----------------------------------------------------------------------------
(* initialize.                                                             *)

\* The setting is read, or not, and Redis asked for a sign of life.
Choose(j) ==
  /\ j.pc = "init"
  /\ \E asked \in Readings : jobs' = Move(j, Driver(asked)) /\ blind' = Blind(j.w, asked)
  /\ UNCHANGED <<perf, flow, redis, mode, engine, sub, ear, inbox, patches, upsets, seen>>

\* The sessions have been migrated; the clients are exchanged.  Closing the old
\* Redis client ends the subscriptions made with it; those of PostgreSQL go on.
Install(j) ==
  /\ j.pc \in Drivers
  /\ mode' = [mode EXCEPT ![j.w] = j.pc]
  /\ sub' = [sub EXCEPT ![j.w] = IF @ = "redis" THEN "none" ELSE @]
  /\ jobs' = IF j.kind = "patch" THEN Move(j, "installed") ELSE jobs \ {j}
  /\ UNCHANGED <<perf, flow, redis, engine, ear, inbox, patches, upsets, seen, blind>>

\* Faulty: nobody is told.
Silent(j) ==
  /\ j.pc = "installed"
  /\ jobs' = jobs \ {j}
  /\ UNCHANGED <<perf, flow, redis, mode, engine, sub, ear, inbox, patches, upsets, seen, blind>>

\* broadcast_settings_reload: every worker that listens is notified, and the
\* sender's own listener skips the notice.
Broadcast(j) ==
  /\ j.pc = "installed"
  /\ inbox' = [w \in Workers |-> IF w = j.w \/ ear[w] # "on" THEN inbox[w] ELSE inbox[w] + 1]
  /\ seen' = IF \E w \in Workers \ {j.w} : ear[w] # "on" THEN seen \cup {"missed"} ELSE seen
  /\ jobs' = jobs \ {j}
  /\ UNCHANGED <<perf, flow, redis, mode, engine, sub, ear, patches, upsets, blind>>

BroadcastFails(j) ==
  /\ j.pc = "installed" /\ Upset("broadcast", {"unsent"})
  /\ jobs' = jobs \ {j}
  /\ UNCHANGED <<perf, flow, redis, mode, engine, sub, ear, inbox, patches, blind>>

\* Faulty: a task of its own for every notice.
Eager(w) ==
  /\ inbox[w] > 0
  /\ inbox' = [inbox EXCEPT ![w] = @ - 1]
  /\ LET j == [id |-> Fresh, w |-> w, kind |-> "reload", perf |-> "same", flow |-> "same",
               pc |-> "init"]
     IN  jobs' = jobs \cup {j} /\ seen' = Overlap(j)
  /\ UNCHANGED <<perf, flow, redis, mode, engine, sub, ear, patches, upsets, blind>>

\* The listener of a worker handles one notice after the other.
Reload(w) ==
  /\ inbox[w] > 0
  /\ ~\E j \in jobs : j.w = w /\ j.kind = "reload"
  /\ inbox' = [inbox EXCEPT ![w] = @ - 1]
  /\ LET j == [id |-> Fresh, w |-> w, kind |-> "reload", perf |-> "same", flow |-> "same",
               pc |-> "init"]
     IN  jobs' = jobs \cup {j} /\ seen' = Overlap(j)
  /\ UNCHANGED <<perf, flow, redis, mode, engine, sub, ear, patches, upsets, blind>>

\* PostgreSQL restarts.  subscribe() waits at its queue, not at the connection, and
\* never finds out: who listened there gets what had arrived, and nothing more.
DatabaseRestarts ==
  /\ Upset("database", {})
  /\ ear' = [w \in Workers |-> IF ear[w] = "on" THEN "lost" ELSE ear[w]]
  /\ sub' = [w \in Workers |-> IF sub[w] = "postgres" THEN "lost" ELSE sub[w]]
  /\ UNCHANGED <<perf, flow, redis, jobs, mode, engine, inbox, patches, blind>>

-----------------------------------------------------------------------------
(* Subscribers, outages and restarts.                                      *)

\* A subscriber that lost its broker asks the driver manager for the current one.
Subscribe(w) ==
  /\ sub[w] = "none" /\ (mode[w] = "redis" => redis)
  /\ sub' = [sub EXCEPT ![w] = mode[w]]
  /\ UNCHANGED <<perf, flow, redis, jobs, mode, engine, ear, inbox, patches, upsets, seen, blind>>

\* Redis goes away and takes its subscriptions with it, or comes back.
RedisDown ==
  /\ redis /\ Upset("redis", {})
  /\ redis' = FALSE
  /\ sub' = [w \in Workers |-> IF sub[w] = "redis" THEN "none" ELSE sub[w]]
  /\ UNCHANGED <<perf, flow, jobs, mode, engine, ear, inbox, patches, blind>>

RedisUp ==
  /\ ~redis /\ redis' = TRUE
  /\ UNCHANGED <<perf, flow, jobs, mode, engine, sub, ear, inbox, patches, upsets, seen, blind>>

\* A worker restarts: its jobs are gone and its drivers new; subscribers and
\* listener start later.
RestartWorker(w) ==
  /\ LET sending == \E j \in jobs : j.w = w /\ j.kind = "patch" /\ j.pc # "checked"
     IN  Upset("worker", IF sending THEN {"unsent"} ELSE {})
  /\ jobs' = {j \in jobs : j.w # w}
  /\ \E asked \in Readings :
       mode' = [mode EXCEPT ![w] = Driver(asked)] /\ blind' = Blind(w, asked)
  /\ sub' = [sub EXCEPT ![w] = "none"]
  /\ ear' = [ear EXCEPT ![w] = "off"]
  /\ inbox' = [inbox EXCEPT ![w] = 0]
  /\ UNCHANGED <<perf, flow, redis, engine, patches>>

Listen(w) ==
  /\ ear[w] = "off" /\ ear' = [ear EXCEPT ![w] = "on"]
  /\ UNCHANGED <<perf, flow, redis, jobs, mode, engine, sub, inbox, patches, upsets, seen, blind>>

\* The engine initializes its drivers when it starts, and never again.
RestartEngine ==
  /\ Upset("engine", {})
  /\ \E asked \in Readings : engine' = Driver(asked)
  /\ UNCHANGED <<perf, flow, redis, jobs, mode, sub, ear, inbox, patches, blind>>

-----------------------------------------------------------------------------
JobStep == \E j \in jobs : Commit(j) \/ Choose(j) \/ Install(j) \/ Broadcast(j)

Next ==
  \/ \E w \in Workers, p, f \in Values : Check(w, p, f)
  \/ JobStep \/ (\E j \in jobs : BroadcastFails(j))
  \/ \E w \in Workers : Reload(w) \/ Subscribe(w) \/ RestartWorker(w) \/ Listen(w)
  \/ RedisDown \/ RedisUp \/ DatabaseRestarts \/ RestartEngine

Spec == Init /\ [][Next]_vars

\* Requests and listeners run on; Redis comes back.
FairSpec ==
  /\ Spec
  /\ WF_vars(JobStep) /\ WF_vars(RedisUp)
  /\ \A w \in Workers : WF_vars(Reload(w)) /\ WF_vars(Subscribe(w)) /\ WF_vars(Listen(w))

-----------------------------------------------------------------------------
(* Properties.                                                             *)

\* Every variable has the type its comment gives, and a worker reloads once at a time.
TypeOK ==
  /\ perf \in BOOLEAN /\ flow \in BOOLEAN /\ redis \in BOOLEAN
  /\ jobs \subseteq [id : Ids, w : Workers, kind : {"patch", "reload"}, perf : Values,
                     flow : Values, pc : Drivers \cup {"checked", "init", "installed"}]
  /\ mode \in [Workers -> Drivers] /\ engine \in Drivers
  /\ sub \in [Workers -> Drivers \cup {"none", "lost"}]
  /\ ear \in [Workers -> {"off", "on", "lost"}]
  /\ inbox \in [Workers -> 0..MaxPatches] /\ patches \in 0..MaxPatches
  /\ upsets \in Nat /\ seen \subseteq UpsetKinds \cup {"overlap", "race", "missed", "unsent"}
  /\ blind \subseteq Workers
  /\ \A j, k \in jobs : j.w = k.w /\ j.kind = "reload" /\ k.kind = "reload" => j = k

\* However many workers change the settings and whatever restarts, in the end all
\* of them use the driver the settings ask for, unless Redis was away, a notice was
\* missed or unsent, or two initializations ran in one worker at a time, and but for
\* workers that could not read the setting when they were last initialized.
WorkersAgree ==
  <>[](seen \cap {"redis", "missed", "unsent", "overlap"} = {} =>
         \A w \in Workers \ blind : mode[w] = Target)

\* Flow telemetry, which needs Redis, is never on without performance_mode, as
\* long as no two PATCHes are checked at the same time.
FlowNeedsRedis == "race" \notin seen => (flow => perf)

\* Nothing is under way.
Quiet ==
  jobs = {} /\ \A w \in Workers : inbox[w] = 0 /\ sub[w] # "none"

\* When nothing is under way, the subscribers of all workers listen to the broker
\* the engine publishes to.
EngineIsHeard == Quiet => \A w \in Workers : sub[w] = engine
=============================================================================
