----------------------- MODULE AlertDispatcherProofs -----------------------
(***************************************************************************)
(* Proofs about AlertDispatcher, for every tree of endpoints, every set of *)
(* channels and filters, all windows and slots, and any number of changes, *)
(* faults and acts of administration.                                      *)
(***************************************************************************)
EXTENDS AlertDispatcher, TLAPS

-----------------------------------------------------------------------------
(* Types.                                                                  *)

Pending == {"toggle", "muted", "flapping", "steady"}

Stages == Pending \cup {"logging", "sending"}

TaskType == [n : Ns, ep : Endpoints, state : States, ts : Nat, pc : Stages]

SendType == [n : Ns, ch : Channels, ep : Endpoints, state : States, ts : Nat, tries : Nat]

EventType == [n : Ns, ep : Endpoints, state : States]

IncidentType == [inc : Ns, root : Endpoints]

CauseType ==
  [n : Ns, ep : Endpoints, state : States, pc : {"begun", "published", "updated"},
   rows : SUBSET IncidentType]

NoticeType == [n : Nat, root : Endpoints, resolved : BOOLEAN]

MutingType == [parent : SUBSET Endpoints, inc : Nat, expires : Nat]

Keys == Ns \X Channels

\* A change that has been received: the endpoint, the state, the time, the channels not on.
Births == Endpoints \X States \X Nat \X SUBSET Channels

EngineTypes ==
  /\ now \in Nat /\ changes \in Nat /\ changes <= MaxChanges
  /\ link \in [Endpoints -> States] /\ told \in [Endpoints -> Nat]
  /\ causes \subseteq CauseType /\ incidents \subseteq IncidentType

QueueTypes == events \in Seq(EventType) /\ notices \in Seq(NoticeType)

CacheTypes ==
  /\ suppressed \in [Endpoints -> MutingType]
  /\ limits \in [Channels \X Endpoints \X States -> Int]

ChannelTypes == enabled \in BOOLEAN /\ row \in [Channels -> {"on", "off", "none"}]

WorkTypes ==
  /\ tasks \subseteq TaskType /\ sends \subseteq SendType /\ entries \subseteq Keys
  /\ born \in [Ns -> {<<>>} \cup Births]

LogTypes ==
  /\ log \in [Keys -> {<<>>, <<"THROTTLED">>, <<"DELIVERED">>, <<"FAILED">>}]
  /\ copies \in [Keys -> Nat]

\* A cycle that changes the state of an endpoint.
Cycle(e) == Announce(e) \/ Commit(e) \/ Rollback(e)

\* A step towards the entries about a suppressed event.
Enters(t) == Load(t) \/ \E ch \in Channels : Enter(t, ch) \/ Cut(t, ch)

LEMMA Opposites ==
  \A s \in States : Opposite(s) \in States /\ (Opposite(s) = "UP" <=> s = "DOWN")
BY DEF States, Opposite

LEMMA CauseKept ==
  ASSUME NEW c \in CauseType, NEW pc \in {"begun", "published", "updated"}
  PROVE  LET d == [c EXCEPT !.pc = pc]
         IN  d \in CauseType /\ d.n = c.n /\ d.ep = c.ep /\ d.state = c.state /\ d.pc = pc
             /\ d.rows = c.rows
BY DEF CauseType

LEMMA EngineStep ==
  ASSUME EngineTypes, [Next]_vars
  PROVE  EngineTypes'
<1> USE DispatcherAssumption
<1>1. ASSUME UNCHANGED <<now, changes, link, told, causes, incidents>> PROVE EngineTypes'
  BY <1>1 DEF EngineTypes
<1>2. CASE Tick
  BY <1>2 DEF Tick, engine, EngineTypes
<1>3. ASSUME NEW e \in Endpoints, Announce(e) PROVE EngineTypes'
  <2> DEFINE n == changes + 1
             s == Opposite(link[e])
             c == [n |-> n, ep |-> e, state |-> s, pc |-> "begun", rows |-> {}]
  <2>1. n \in Ns /\ s \in States
    BY <1>3, Opposites DEF Announce, EngineTypes, Ns
  <2>2. c \in CauseType
    BY <2>1 DEF CauseType
  <2>3. /\ changes' = n /\ changes < MaxChanges /\ told' = [told EXCEPT ![e] = n]
        /\ causes' \subseteq causes \cup {c} /\ UNCHANGED <<now, link, incidents>>
    BY <1>3 DEF Announce
  <2>4. n \in Nat /\ n <= MaxChanges
    BY <2>3 DEF EngineTypes
  <2> HIDE DEF c, n
  <2> QED BY <2>1, <2>2, <2>3, <2>4 DEF EngineTypes
<1>11. ASSUME NEW e \in Endpoints, Commit(e) PROVE EngineTypes'
  <2>1. /\ link' = [link EXCEPT ![e] = Opposite(link[e])] /\ told' = [told EXCEPT ![e] = 0]
        /\ UNCHANGED <<now, changes, causes, incidents>>
    BY <1>11 DEF Commit
  <2>2. Opposite(link[e]) \in States
    BY Opposites DEF EngineTypes
  <2> QED BY <2>1, <2>2 DEF EngineTypes
<1>12. ASSUME NEW e \in Endpoints, Rollback(e) PROVE EngineTypes'
  <2>1. /\ told' = [told EXCEPT ![e] = 0] /\ causes' \subseteq causes
        /\ UNCHANGED <<now, changes, link, incidents>>
    BY <1>12 DEF Rollback
  <2> QED BY <2>1 DEF EngineTypes
<1>4. ASSUME NEW c \in causes, CauseStep(c) \/ CauseFails(c) PROVE EngineTypes'
  <2>1. c \in CauseType
    BY DEF EngineTypes
  <2>2. UNCHANGED <<now, changes, link, told>>
    BY <1>4 DEF CauseStep, RcaPublish, RcaCommit, RecoveryUpdate, RecoveryCommit, CauseFails
  <2>3. CASE RcaPublish(c)
    <3>1. causes' = (causes \ {c}) \cup {[c EXCEPT !.pc = "published"]} /\ incidents' = incidents
      BY <2>3 DEF RcaPublish
    <3> QED BY <2>1, <2>2, <3>1, CauseKept DEF EngineTypes
  <2>4. CASE RcaCommit(c)
    <3>1. [inc |-> c.n, root |-> c.ep] \in IncidentType
      BY <2>1 DEF CauseType, IncidentType
    <3>2. causes' = causes \ {c} /\ incidents' = incidents \cup {[inc |-> c.n, root |-> c.ep]}
      BY <2>4 DEF RcaCommit
    <3> QED BY <2>2, <3>1, <3>2 DEF EngineTypes
  <2>5. CASE RecoveryUpdate(c)
    <3> DEFINE d == [c EXCEPT !.pc = "updated", !.rows = {i \in incidents : i.root = c.ep}]
    <3>1. causes' = (causes \ {c}) \cup {d} /\ incidents' = incidents
      BY <2>5 DEF RecoveryUpdate
    <3>2. {i \in incidents : i.root = c.ep} \in SUBSET IncidentType
      BY DEF EngineTypes
    <3>3. d \in CauseType
      BY <2>1, <3>2 DEF CauseType
    <3> HIDE DEF d
    <3> QED BY <2>2, <3>1, <3>3 DEF EngineTypes
  <2>6. CASE RecoveryCommit(c) \/ CauseFails(c)
    <3>1. causes' = causes \ {c} /\ incidents' \subseteq incidents
      BY <2>6 DEF RecoveryCommit, CauseFails
    <3> QED BY <2>2, <3>1 DEF EngineTypes
  <2> QED BY <1>4, <2>3, <2>4, <2>5, <2>6 DEF CauseStep
<1>5. CASE Notice \/ Receive \/ Lose \/ Toggle
  BY <1>1, <1>5 DEF Notice, Receive, Lose, Toggle, engine
<1>6. ASSUME NEW ch \in Channels, Update(ch) \/ Delete(ch) PROVE EngineTypes'
  BY <1>1, <1>6 DEF Update, Delete, Put, engine
<1>7. CASE Outage("error") \/ Outage("timeout") \/ Restored
  BY <1>1, <1>7 DEF Outage, Restored, engine
<1>8. ASSUME NEW t \in tasks, TaskStep(t) \/ NoChannels(t) PROVE EngineTypes'
  BY <1>1, <1>8 DEF TaskStep, Off, Throttle, Load, Enter, Cut, Evaluate, Fan, NoChannels, engine
<1>9. ASSUME NEW s \in sends, Deliver(s) \/ Reject(s) \/ Error(s) \/ Timeout(s) \/ LogFails(s)
      PROVE  EngineTypes'
  BY <1>1, <1>9 DEF Deliver, Reject, Error, Timeout, LogFails, engine
<1>10. CASE Done \/ UNCHANGED vars
  BY <1>1, <1>10 DEF Done, vars, engine
<1> QED BY <1>2, <1>3, <1>4, <1>5, <1>6, <1>7, <1>8, <1>9, <1>10, <1>11, <1>12 DEF Next

LEMMA FirstEvent == ASSUME QueueTypes, events # <<>> PROVE 1 \in DOMAIN events
BY DEF QueueTypes

LEMMA QueueStep ==
  ASSUME QueueTypes, EngineTypes, [Next]_vars
  PROVE  QueueTypes'
<1> USE DispatcherAssumption
<1>1. ASSUME UNCHANGED <<events, notices>> PROVE QueueTypes'
  BY <1>1 DEF QueueTypes
<1>2. CASE Tick
  BY <1>1, <1>2 DEF Tick
<1>3. ASSUME NEW e \in Endpoints, Announce(e) PROVE QueueTypes'
  <2> DEFINE v == [n |-> changes + 1, ep |-> e, state |-> Opposite(link[e])]
  <2>1. v \in EventType
    BY <1>3, Opposites DEF Announce, EngineTypes, EventType, Ns
  <2>2. events' = Append(events, v) /\ notices' = notices
    BY <1>3 DEF Announce
  <2> HIDE DEF v
  <2> QED BY <2>1, <2>2 DEF QueueTypes
<1>4. ASSUME NEW c \in causes, CauseStep(c) \/ CauseFails(c) PROVE QueueTypes'
  <2> DEFINE i == [n |-> c.n, root |-> c.ep, resolved |-> FALSE]
             r == Resolution(c.ep)
  <2>1. i \in NoticeType /\ r \in NoticeType
    BY DEF EngineTypes, CauseType, NoticeType, Resolution, Ns
  <2>2. events' = events /\ notices' \in {notices, Append(notices, i), Append(notices, r)}
    <3> HIDE DEF r, i
    <3>1. CASE RcaPublish(c)
      BY <3>1 DEF RcaPublish, i
    <3>2. CASE RecoveryCommit(c)
      BY <3>2 DEF RecoveryCommit, r
    <3>3. CASE RcaCommit(c) \/ RecoveryUpdate(c)
      BY <3>3 DEF RcaCommit, RecoveryUpdate
    <3>4. CASE CauseFails(c)
      BY <3>4 DEF CauseFails, r
    <3> QED BY <1>4, <3>1, <3>2, <3>3, <3>4 DEF CauseStep
  <2> HIDE DEF i, r
  <2>3. Append(notices, i) \in Seq(NoticeType) /\ Append(notices, r) \in Seq(NoticeType)
    BY <2>1 DEF QueueTypes
  <2>4. notices' \in Seq(NoticeType)
    BY <2>2, <2>3 DEF QueueTypes
  <2> QED BY <2>2, <2>4 DEF QueueTypes
<1>5. CASE Notice \/ Receive \/ Lose
  <2>1. \/ notices # <<>> /\ notices' = Tail(notices) /\ events' = events
        \/ events # <<>> /\ events' = Tail(events) /\ notices' = notices
    BY <1>5 DEF Notice, Receive, Lose
  <2>2. /\ notices # <<>> => Tail(notices) \in Seq(NoticeType)
        /\ events # <<>> => Tail(events) \in Seq(EventType)
    BY DEF QueueTypes
  <2>3. CASE notices # <<>> /\ notices' = Tail(notices) /\ events' = events
    BY <2>2, <2>3 DEF QueueTypes
  <2>4. CASE events # <<>> /\ events' = Tail(events) /\ notices' = notices
    BY <2>2, <2>4 DEF QueueTypes
  <2> QED BY <2>1, <2>3, <2>4
<1>6. CASE Toggle \/ Outage("error") \/ Outage("timeout") \/ Restored
  BY <1>1, <1>6 DEF Toggle, Outage, Restored
<1>7. ASSUME NEW ch \in Channels, Update(ch) \/ Delete(ch) PROVE QueueTypes'
  BY <1>1, <1>7 DEF Update, Delete, Put
<1>8. ASSUME NEW t \in tasks, TaskStep(t) \/ NoChannels(t) PROVE QueueTypes'
  BY <1>1, <1>8 DEF TaskStep, Off, Throttle, Load, Enter, Cut, Evaluate, Fan, NoChannels
<1>9. ASSUME NEW s \in sends, Deliver(s) \/ Reject(s) \/ Error(s) \/ Timeout(s) \/ LogFails(s)
      PROVE  QueueTypes'
  BY <1>1, <1>9 DEF Deliver, Reject, Error, Timeout, LogFails
<1>10. CASE Done \/ UNCHANGED vars
  BY <1>1, <1>10 DEF Done, vars
<1>11. CASE \E e \in Endpoints : Commit(e) \/ Rollback(e)
  BY <1>1, <1>11 DEF Commit, Rollback
<1> QED BY <1>2, <1>3, <1>4, <1>5, <1>6, <1>7, <1>8, <1>9, <1>10, <1>11 DEF Next

\* Steps that do not concern the channels nor the deliveries.
Aside ==
  \/ Tick \/ (\E e \in Endpoints : Cycle(e))
  \/ (\E c \in causes : CauseStep(c) \/ CauseFails(c))
  \/ Notice \/ Lose \/ Toggle \/ Outage("error") \/ Outage("timeout") \/ Restored
  \/ Done \/ UNCHANGED vars

\* An attempt at a delivery.
Attempt(s) == Deliver(s) \/ Reject(s) \/ Error(s) \/ Timeout(s) \/ LogFails(s)

LEMMA StepsAre ==
  [Next]_vars => \/ Aside \/ Receive
                 \/ \E ch \in Channels : Update(ch) \/ Delete(ch)
                 \/ \E t \in tasks : TaskStep(t) \/ NoChannels(t)
                 \/ \E s \in sends : Attempt(s)
BY DEF Next, Aside, Attempt, Cycle

LEMMA AsideKeeps ==
  Aside => UNCHANGED <<row, tasks, sends, entries, cut, log, copies, born, raced>>
<1> SUFFICES ASSUME Aside
             PROVE  UNCHANGED <<row, tasks, sends, entries, cut, log, copies, born, raced>>
  OBVIOUS
<1> USE DEF muted
<1>1. CASE Tick \/ \E e \in Endpoints : Cycle(e)
  BY <1>1 DEF Tick, Cycle, Announce, Commit, Rollback, outside, audit
<1>2. CASE \E c \in causes : CauseStep(c) \/ CauseFails(c)
  BY <1>2 DEF CauseStep, CauseFails, RcaPublish, RcaCommit, RecoveryUpdate, RecoveryCommit,
              outside, audit
<1>3. CASE Notice \/ Lose \/ Toggle
  BY <1>3 DEF Notice, Lose, Toggle, outside, audit
<1>4. CASE Outage("error") \/ Outage("timeout") \/ Restored
  BY <1>4 DEF Outage, Restored, audit
<1>5. CASE Done \/ UNCHANGED vars
  BY <1>5 DEF Done, vars, outside, audit
<1> QED BY <1>1, <1>2, <1>3, <1>4, <1>5 DEF Aside

LEMMA ChannelStep ==
  ASSUME ChannelTypes, [Next]_vars
  PROVE  ChannelTypes'
<1>1. ASSUME UNCHANGED row PROVE row' \in [Channels -> {"on", "off", "none"}]
  BY <1>1 DEF ChannelTypes
<1>2. row' \in [Channels -> {"on", "off", "none"}]
  <2>1. CASE Aside
    BY <1>1, <2>1, AsideKeeps
  <2>2. CASE Receive
    BY <1>1, <2>2 DEF Receive, outside
  <2>3. ASSUME NEW ch \in Channels, Update(ch) \/ Delete(ch)
        PROVE  row' \in [Channels -> {"on", "off", "none"}]
    <3>1. \E to \in {"on", "off", "none"} : row' = [row EXCEPT ![ch] = to]
      BY <2>3 DEF Update, Delete, Put
    <3> QED BY <3>1 DEF ChannelTypes
  <2>4. ASSUME NEW t \in tasks, TaskStep(t) \/ NoChannels(t)
        PROVE  row' \in [Channels -> {"on", "off", "none"}]
    BY <1>1, <2>4 DEF TaskStep, Off, Throttle, Load, Enter, Cut, Evaluate, Fan, NoChannels, outside
  <2>5. ASSUME NEW s \in sends, Attempt(s)
        PROVE  row' \in [Channels -> {"on", "off", "none"}]
    BY <1>1, <2>5 DEF Attempt, Deliver, Reject, Error, Timeout, LogFails, outside
  <2> QED BY <2>1, <2>2, <2>3, <2>4, <2>5, StepsAre
<1>3. enabled' = enabled \/ enabled' = ~enabled
  <2>1. CASE Tick \/ \E e \in Endpoints : Cycle(e)
    BY <2>1 DEF Tick, Cycle, Announce, Commit, Rollback, outside
  <2>2. CASE \E c \in causes : CauseStep(c) \/ CauseFails(c)
    BY <2>2 DEF CauseStep, CauseFails, RcaPublish, RcaCommit, RecoveryUpdate, RecoveryCommit, outside
  <2>3. CASE Notice \/ Lose \/ Toggle \/ Receive
    BY <2>3 DEF Notice, Lose, Toggle, Receive, outside
  <2>4. CASE Outage("error") \/ Outage("timeout") \/ Restored
    BY <2>4 DEF Outage, Restored
  <2>5. CASE Done \/ UNCHANGED vars
    BY <2>5 DEF Done, vars, outside
  <2>6. CASE \E ch \in Channels : Update(ch) \/ Delete(ch)
    BY <2>6 DEF Update, Delete, Put
  <2>7. CASE \E t \in tasks : TaskStep(t) \/ NoChannels(t)
    BY <2>7 DEF TaskStep, Off, Throttle, Load, Enter, Cut, Evaluate, Fan, NoChannels, outside
  <2>8. CASE \E s \in sends : Attempt(s)
    BY <2>8 DEF Attempt, Deliver, Reject, Error, Timeout, LogFails, outside
  <2> QED BY <2>1, <2>2, <2>3, <2>4, <2>5, <2>6, <2>7, <2>8 DEF Next, Attempt, Cycle
<1> QED BY <1>2, <1>3 DEF ChannelTypes

\* The memory is pruned.
LEMMA PrunedIs ==
  ASSUME CacheTypes, now \in Nat
  PROVE  /\ Pruned.suppressed \in [Endpoints -> MutingType]
         /\ \A e \in Endpoints : Pruned.suppressed[e] \in {suppressed[e], NoOne}
         /\ Pruned.limits \in [Channels \X Endpoints \X States -> Int]
         /\ \A k \in Channels \X Endpoints \X States :
              \/ Pruned.limits[k] = limits[k]
              \/ Pruned.limits[k] = -1 /\ limits[k] < now - Keep
<1> USE DispatcherAssumption
<1>1. NoOne \in MutingType
  BY DEF NoOne, MutingType
<1>2. Pruned.suppressed = [e \in Endpoints |-> IF Live(suppressed[e]) THEN suppressed[e] ELSE NoOne]
  BY DEF Pruned
<1>3. Pruned.limits = [k \in DOMAIN limits |-> IF limits[k] < now - Keep THEN -1 ELSE limits[k]]
  BY DEF Pruned
<1>4. DOMAIN limits = Channels \X Endpoints \X States /\ \A k \in DOMAIN limits : limits[k] \in Int
  BY DEF CacheTypes
<1>5. \A e \in Endpoints : suppressed[e] \in MutingType
  BY DEF CacheTypes
<1>6. -1 \in Int
  OBVIOUS
<1> HIDE DEF NoOne
<1> QED BY <1>1, <1>2, <1>3, <1>4, <1>5, <1>6

\* What an incident mutes, and what a resolution frees.
LEMMA NoticeMutes ==
  ASSUME CacheTypes, QueueTypes, now \in Nat, Notice
  PROVE  LET i == notices[1]
         IN  /\ i \in NoticeType /\ suppressed' \in [Endpoints -> MutingType]
             /\ \A e \in Endpoints :
                  \/ /\ suppressed'[e] \in {suppressed[e], NoOne}
                     /\ i.resolved => suppressed'[e].parent # {i.root}
                  \/ ~i.resolved /\ suppressed'[e].parent = {i.root} /\ suppressed'[e].inc = i.n
<1> USE DispatcherAssumption
<1> DEFINE i == Head(notices)
           new == [parent |-> {i.root}, inc |-> i.n, expires |-> now + Ttl]
<1>1. i = notices[1] /\ i \in NoticeType
  BY DEF QueueTypes, Notice
<1>2. NoOne \in MutingType /\ NoOne.parent = {}
  BY DEF NoOne, MutingType
<1>3. new \in MutingType /\ new.parent = {i.root} /\ new.inc = i.n
  BY <1>1 DEF MutingType, NoticeType
<1>4. suppressed' = Suppressions(i)
  BY DEF Notice, Prune
<1> HIDE DEF i
<1>5. ASSUME NEW e \in Endpoints
      PROVE  /\ suppressed'[e] \in {Pruned.suppressed[e], NoOne, new}
             /\ \/ /\ suppressed'[e] \in {Pruned.suppressed[e], NoOne}
                   /\ i.resolved => suppressed'[e].parent # {i.root}
                \/ ~i.resolved /\ suppressed'[e] = new
  <2>1. suppressed'[e] =
          IF i.resolved
          THEN IF Pruned.suppressed[e].parent = {i.root} THEN NoOne ELSE Pruned.suppressed[e]
          ELSE IF e \in Symptoms(i.root) THEN new ELSE Pruned.suppressed[e]
    BY <1>4 DEF Suppressions
  <2> HIDE DEF new, NoOne
  <2>2. CASE i.resolved
    BY <1>2, <2>1, <2>2
  <2>3. CASE ~i.resolved
    BY <2>1, <2>3
  <2> QED BY <2>2, <2>3
<1>6. suppressed' = [e \in Endpoints |-> suppressed'[e]]
  BY <1>4 DEF Suppressions
<1>7. \A e \in Endpoints : suppressed'[e] \in MutingType
  <2> HIDE DEF new, NoOne
  <2> QED BY <1>2, <1>3, <1>5, PrunedIs
<1> HIDE DEF new, NoOne
<1>8. suppressed' \in [Endpoints -> MutingType]
  BY <1>6, <1>7
<1>9. \A e \in Endpoints : Pruned.suppressed[e] \in {suppressed[e], NoOne}
  BY PrunedIs
<1> QED BY <1>1, <1>3, <1>5, <1>8, <1>9

\* Nothing else mutes an endpoint.
LEMMA OthersMuteNobody ==
  ASSUME CacheTypes, WorkTypes, now \in Nat, [Next]_vars, ~Notice
  PROVE  /\ suppressed' \in [Endpoints -> MutingType]
         /\ \A e \in Endpoints : suppressed'[e] \in {suppressed[e], NoOne}
<1>1. ASSUME UNCHANGED suppressed
      PROVE  /\ suppressed' \in [Endpoints -> MutingType]
             /\ \A e \in Endpoints : suppressed'[e] \in {suppressed[e], NoOne}
  BY <1>1 DEF CacheTypes
<1>2. NoOne \in MutingType
  BY DEF NoOne, MutingType
<1>3. CASE Tick \/ Lose \/ Toggle \/ Outage("error") \/ Outage("timeout") \/ Restored
  BY <1>1, <1>3 DEF Tick, Lose, Toggle, Outage, Restored, caches
<1>4. CASE \E e \in Endpoints : Cycle(e)
  BY <1>1, <1>4 DEF Cycle, Announce, Commit, Rollback, caches
<1>5. CASE \E c \in causes : CauseStep(c) \/ CauseFails(c)
  BY <1>1, <1>5 DEF CauseStep, CauseFails, RcaPublish, RcaCommit, RecoveryUpdate,
                    RecoveryCommit, caches
<1>6. CASE Receive
  <2>1. suppressed' = Pruned.suppressed
    BY <1>6 DEF Receive, Prune
  <2> QED BY <2>1, PrunedIs
<1>7. CASE \E ch \in Channels : Update(ch) \/ Delete(ch)
  BY <1>1, <1>7 DEF Update, Delete, Put, caches
<1>8. ASSUME NEW t \in tasks, TaskStep(t) \/ NoChannels(t)
      PROVE  /\ suppressed' \in [Endpoints -> MutingType]
             /\ \A e \in Endpoints : suppressed'[e] \in {suppressed[e], NoOne}
  <2>1. /\ Freed(t) \in [Endpoints -> MutingType]
        /\ \A e \in Endpoints : Freed(t)[e] \in {suppressed[e], NoOne}
    BY <1>2 DEF Freed, CacheTypes
  <2>2. CASE Throttle(t)
    <3>1. suppressed' = Freed(t)
      BY <2>2 DEF Throttle
    <3> QED BY <2>1, <3>1
  <2>3. CASE Evaluate(t)
    <3> HIDE DEF NoOne
    <3>1. suppressed' = [Freed(t) EXCEPT ![t.ep] = IF t.ts > @.expires THEN NoOne ELSE @]
      BY <2>3 DEF Evaluate
    <3>2. t.ep \in Endpoints
      BY DEF WorkTypes, TaskType
    <3>3. \/ suppressed' = [Freed(t) EXCEPT ![t.ep] = NoOne]
          \/ suppressed' = [Freed(t) EXCEPT ![t.ep] = Freed(t)[t.ep]]
      BY <3>1
    <3> HIDE DEF Freed
    <3> QED BY <1>2, <2>1, <3>2, <3>3
  <2>4. CASE Off(t) \/ Fan(t) \/ Enters(t) \/ NoChannels(t)
    BY <1>1, <2>4 DEF Off, Fan, Enters, Load, Enter, Cut, NoChannels, caches
  <2> QED BY <1>8, <2>2, <2>3, <2>4 DEF TaskStep, Enters
<1>9. ASSUME NEW s \in sends, Attempt(s) PROVE suppressed' = suppressed
  BY <1>9 DEF Attempt, Deliver, Reject, Error, Timeout, LogFails, caches
<1>10. CASE Done \/ UNCHANGED vars
  BY <1>1, <1>10 DEF Done, vars, caches
<1> QED BY <1>1, <1>3, <1>4, <1>5, <1>6, <1>7, <1>8, <1>9, <1>10 DEF Next, Attempt, Cycle

LEMMA CacheStep ==
  ASSUME CacheTypes, WorkTypes, QueueTypes, now \in Nat, [Next]_vars
  PROVE  /\ CacheTypes'
         /\ \/ limits' \in {limits, Pruned.limits}
            \/ \E s \in sends : limits' = Noted(s)
<1>1. suppressed' \in [Endpoints -> MutingType]
  BY NoticeMutes, OthersMuteNobody
<1>2. \/ limits' \in {limits, Pruned.limits}
      \/ \E s \in sends : limits' = Noted(s)
  <2>3. CASE Tick \/ Lose \/ Toggle \/ Outage("error") \/ Outage("timeout") \/ Restored
    BY <2>3 DEF Tick, Lose, Toggle, Outage, Restored, caches
  <2>4. CASE \E e \in Endpoints : Cycle(e)
    BY <2>4 DEF Cycle, Announce, Commit, Rollback, caches
  <2>5. CASE \E c \in causes : CauseStep(c) \/ CauseFails(c)
    BY <2>5 DEF CauseStep, CauseFails, RcaPublish, RcaCommit, RecoveryUpdate, RecoveryCommit, caches
  <2>6. CASE Receive \/ Notice
    BY <2>6 DEF Receive, Notice, Prune
  <2>7. CASE \E ch \in Channels : Update(ch) \/ Delete(ch)
    BY <2>7 DEF Update, Delete, Put, caches
  <2>8. CASE \E t \in tasks : TaskStep(t) \/ NoChannels(t)
    BY <2>8 DEF TaskStep, Off, Throttle, Load, Enter, Cut, Evaluate, Fan, NoChannels, caches
  <2>9. CASE \E s \in sends : Attempt(s)
    BY <2>9 DEF Attempt, Deliver, Reject, Error, Timeout, LogFails, caches
  <2>10. CASE Done \/ UNCHANGED vars
    BY <2>10 DEF Done, vars, caches
  <2> QED BY <2>3, <2>4, <2>5, <2>6, <2>7, <2>8, <2>9, <2>10 DEF Next, Attempt, Cycle
<1>3. limits' \in [Channels \X Endpoints \X States -> Int]
  <2>1. CASE limits' \in {limits, Pruned.limits}
    BY <2>1, PrunedIs DEF CacheTypes
  <2>2. ASSUME NEW s \in sends, limits' = Noted(s)
        PROVE  limits' \in [Channels \X Endpoints \X States -> Int]
    <3>1. s.ts \in Int
      BY DEF WorkTypes, SendType
    <3> QED BY <2>2, <3>1 DEF Noted, CacheTypes
  <2> QED BY <1>2, <2>1, <2>2
<1> QED BY <1>1, <1>2, <1>3 DEF CacheTypes

-----------------------------------------------------------------------------
(* What the steps do to tasks and deliveries.                              *)

\* The channels an event is not sent to although they want it, and the deliveries begun.
Held(t) == IF t.pc = "flapping" THEN Takers(t) ELSE Limited(t)

New(t) == {Send(t, ch) : ch \in Takers(t) \ Held(t)}

LEMMA TaskMoves ==
  ASSUME NEW t \in TaskType, NEW pc \in Stages
  PROVE  LET u == [t EXCEPT !.pc = pc]
         IN  u \in TaskType /\ u.n = t.n /\ u.ep = t.ep /\ u.state = t.state /\ u.ts = t.ts
             /\ u.pc = pc
BY DEF TaskType

LEMMA NewIs ==
  ASSUME NEW t \in TaskType
  PROVE  /\ Held(t) \subseteq Takers(t) /\ Takers(t) \subseteq InUse /\ InUse \subseteq Channels
         /\ \A s \in New(t) : /\ s \in SendType /\ s.n = t.n /\ s.ep = t.ep /\ s.state = t.state
                              /\ s.ts = t.ts /\ s.ch \in Takers(t) \ Held(t)
         /\ \A ch \in Takers(t) \ Held(t) : \E s \in New(t) : s.ch = ch
         /\ \A s, o \in New(t) : s.ch = o.ch => s = o
<1>1. Held(t) \subseteq Takers(t) /\ Takers(t) \subseteq InUse /\ InUse \subseteq Channels
  BY DEF Held, Takers, Limited, InUse
<1>2. ASSUME NEW ch \in Channels
      PROVE  LET s == Send(t, ch)
             IN  s \in SendType /\ s.n = t.n /\ s.ep = t.ep /\ s.state = t.state
                 /\ s.ts = t.ts /\ s.ch = ch
  BY DEF Send, SendType, TaskType
<1>3. \A ch \in Takers(t) \ Held(t) : ch \in Channels
  BY <1>1
<1> QED BY <1>1, <1>2, <1>3 DEF New

\* An event that is dropped.
LEMMA Drops ==
  ASSUME NEW t \in tasks, Off(t) \/ NoChannels(t)
  PROVE  /\ t.pc \in Pending /\ tasks' = tasks \ {t}
         /\ UNCHANGED <<events, row, sends, entries, cut, log, copies, born, raced>>
BY DEF Off, NoChannels, audit, muted, outside, Pending

\* One that is found suppressed, flapping or neither.
LEMMA Evaluates ==
  ASSUME NEW t \in tasks, Throttle(t) \/ Evaluate(t)
  PROVE  /\ t.pc = "toggle"
         /\ \E pc \in {"muted", "flapping", "steady"} :
              tasks' = (tasks \ {t}) \cup {[t EXCEPT !.pc = pc]}
         /\ UNCHANGED <<events, row, sends, entries, cut, log, copies, born, raced>>
<1>1. t.pc = "toggle" /\ UNCHANGED <<events, row, sends, entries, cut, log, copies, born, raced>>
  BY DEF Throttle, Evaluate, audit, muted, outside
<1>2. \E pc \in {"muted", "flapping", "steady"} : Step(t, pc)
  BY DEF Throttle, Evaluate
<1> QED BY <1>1, <1>2 DEF Step

\* The channels are loaded for the entries about a suppressed event.
LEMMA Loads ==
  ASSUME NEW t \in tasks, Load(t)
  PROVE  /\ t.pc = "muted" /\ entries' = entries \cup ({t.n} \X InUse)
         /\ \/ InUse = {} /\ tasks' = tasks \ {t}
            \/ InUse # {} /\ tasks' = (tasks \ {t}) \cup {[t EXCEPT !.pc = "logging"]}
         /\ UNCHANGED <<events, row, sends, cut, log, copies, born, raced>>
BY DEF Load, Step, audit, outside

\* An entry of them is written, or all that are left are given up.
LEMMA Writing ==
  ASSUME NEW t \in tasks, NEW ch \in Channels, Enter(t, ch) \/ Cut(t, ch)
  PROVE  /\ t.pc = "logging" /\ <<t.n, ch>> \in entries
         /\ \/ /\ entries' = entries \ {<<t.n, ch>>} /\ row[ch] # "none"
               /\ Logged(t, {ch}, "THROTTLED") /\ cut' = cut
               /\ \/ tasks' = tasks
                  \/ tasks' = tasks \ {t} /\ EntriesOf(t) = {<<t.n, ch>>}
            \/ /\ entries' = entries \ EntriesOf(t) /\ cut' = cut \cup EntriesOf(t)
               /\ log' = log /\ tasks' = tasks \ {t}
         /\ UNCHANGED <<events, row, sends, copies, born, raced>>
BY DEF Enter, Cut, audit, outside

LEMMA Fans ==
  ASSUME NEW t \in tasks, Fan(t)
  PROVE  /\ t.pc \in {"flapping", "steady"}
         /\ Logged(t, Held(t), "THROTTLED") /\ sends' = sends \cup New(t)
         /\ raced' = raced \cup {Kind(s) : s \in {o \in New(t) :
                                   Overdue(t) \/ \E u \in sends : Kind(u) = Kind(o)}}
         /\ \/ New(t) = {} /\ tasks' = tasks \ {t}
            \/ New(t) # {} /\ tasks' = (tasks \ {t}) \cup {[t EXCEPT !.pc = "sending"]}
         /\ UNCHANGED <<now, events, row, limits, entries, cut, copies, born, seen>>
BY DEF Fan, Held, New, Step, outside, caches, muted, faults

\* A delivery is tried again ...
Again(s) ==
  /\ sends' = (sends \ {s}) \cup {[s EXCEPT !.tries = @ + 1]}
  /\ UNCHANGED <<tasks, log, limits>>

\* ... or ends, with its entry or without.
Ends(s) ==
  /\ sends' = sends \ {s}
  /\ tasks' = IF \E o \in sends' : o.n = s.n THEN tasks ELSE {t \in tasks : t.n # s.n}
  /\ \/ log' = log /\ "no log" \in seen' /\ limits' = Noted(s) /\ Accepted(s)
     \/ Logged(s, {s.ch}, "DELIVERED") /\ limits' = Noted(s) /\ Accepted(s)
     \/ Logged(s, {s.ch}, "FAILED") /\ limits' = limits

LEMMA AttemptIs ==
  ASSUME NEW s \in sends, Attempt(s)
  PROVE  /\ Again(s) \/ Ends(s)
         /\ \/ copies' = copies
            \/ Accepted(s) /\ (provider = "timeout" \/ Ends(s))
         /\ UNCHANGED <<now, events, row, entries, cut, born, raced>>
<1>1. UNCHANGED <<now, events, row, entries, cut, born, raced>>
  BY DEF Attempt, Deliver, Reject, Error, Timeout, LogFails, muted, outside
<1>2. CASE Deliver(s)
  BY <1>1, <1>2 DEF Deliver, Finish, Ends
<1>3. CASE Reject(s)
  BY <1>1, <1>3 DEF Reject, Finish, Ends, caches
<1>4. CASE Error(s)
  BY <1>1, <1>4 DEF Error, Retry, Finish, Ends, Again, caches
<1>5. CASE Timeout(s)
  BY <1>1, <1>5 DEF Timeout, Retry, Finish, Ends, Again, caches
<1>6. CASE LogFails(s)
  BY <1>1, <1>6 DEF LogFails, Ends, Upset
<1> QED BY <1>2, <1>3, <1>4, <1>5, <1>6 DEF Attempt

LEMMA Receives ==
  ASSUME QueueTypes, WorkTypes, now \in Nat, Receive
  PROVE  LET v == events[1]
             t == [n |-> v.n, ep |-> v.ep, state |-> v.state, ts |-> now, pc |-> "toggle"]
             b == <<v.ep, v.state, now, {ch \in Channels : row[ch] # "on"}>>
         IN  /\ v \in EventType /\ t \in TaskType /\ b \in Births
             /\ events # <<>> /\ events' = Tail(events)
             /\ tasks' = tasks \cup {t} /\ born' = [born EXCEPT ![v.n] = b]
             /\ limits' = Pruned.limits
             /\ UNCHANGED <<now, row, sends, entries, cut, log, copies, raced, seen, provider>>
<1> DEFINE v == Head(events)
<1>1. v = events[1] /\ v \in EventType /\ events # <<>>
  BY DEF QueueTypes, Receive
<1>2. /\ tasks' = tasks \cup {[n |-> v.n, ep |-> v.ep, state |-> v.state, ts |-> now, pc |-> "toggle"]}
      /\ born' = [born EXCEPT ![v.n] = <<v.ep, v.state, now, {ch \in Channels : row[ch] # "on"}>>]
      /\ events' = Tail(events) /\ limits' = Pruned.limits
      /\ UNCHANGED <<now, row, sends, entries, cut, log, copies, raced, seen, provider>>
  BY DEF Receive, Prune, muted, outside, faults
<1> HIDE DEF v
<1>3. [n |-> v.n, ep |-> v.ep, state |-> v.state, ts |-> now, pc |-> "toggle"] \in TaskType
  BY <1>1 DEF TaskType, EventType, Stages, Pending
<1>4. <<v.ep, v.state, now, {ch \in Channels : row[ch] # "on"}>> \in Births
  BY <1>1 DEF Births, EventType
<1> QED BY <1>1, <1>2, <1>3, <1>4

-----------------------------------------------------------------------------
(* The numbers of changes: each is waiting to be received, or has been, and *)
(* has then one task at most and one delivery per channel.                 *)

EventNumbers ==
  /\ \A i \in DOMAIN events : events[i].n <= changes /\ born[events[i].n] = <<>>
  /\ \A i, j \in DOMAIN events : i < j => events[i].n # events[j].n
  /\ \A n \in Ns : born[n] # <<>> => n <= changes

\* A task or a delivery is about the change of its number.
About(x) == born[x.n] # <<>> /\ born[x.n][1] = x.ep /\ born[x.n][2] = x.state /\ born[x.n][3] = x.ts

WorkNumbers ==
  /\ \A t \in tasks : About(t)
  /\ \A t, u \in tasks : t.n = u.n => t = u
  /\ \A s \in sends : About(s) /\ \E t \in tasks : t.n = s.n /\ t.pc = "sending"
  /\ \A s, o \in sends : s.n = o.n /\ s.ch = o.ch => s = o
  /\ \A k \in entries : born[k[1]] # <<>> /\ \E t \in tasks : t.n = k[1] /\ t.pc = "logging"

Types == EngineTypes /\ QueueTypes /\ CacheTypes /\ ChannelTypes /\ WorkTypes

\* The queue of changes: one comes in at the end, or one leaves at the front.
LEMMA EventsMove ==
  ASSUME Types, Aside
  PROVE  \/ UNCHANGED <<events, changes>>
         \/ \E v \in EventType : /\ changes' = changes + 1 /\ v.n = changes'
                                 /\ events' = Append(events, v)
         \/ changes' = changes /\ events # <<>> /\ events' = Tail(events)
<1>6. CASE \E e \in Endpoints : Commit(e) \/ Rollback(e)
  BY <1>6 DEF Commit, Rollback
<1>1. CASE \E e \in Endpoints : Announce(e)
  <2>1. PICK e \in Endpoints : Announce(e)
    BY <1>1
  <2> DEFINE v == [n |-> changes + 1, ep |-> e, state |-> Opposite(link[e])]
  <2>2. v \in EventType /\ v.n = changes + 1
    BY <2>1, DispatcherAssumption, Opposites DEF Announce, Types, EngineTypes, EventType, Ns
  <2>3. events' = Append(events, v) /\ changes' = changes + 1
    BY <2>1 DEF Announce
  <2> HIDE DEF v
  <2> QED BY <2>2, <2>3
<1>2. CASE Tick \/ Notice \/ Lose \/ Toggle
  BY <1>2 DEF Tick, Notice, Lose, Toggle, engine
<1>3. CASE \E c \in causes : CauseStep(c) \/ CauseFails(c)
  BY <1>3 DEF CauseStep, CauseFails, RcaPublish, RcaCommit, RecoveryUpdate, RecoveryCommit
<1>4. CASE Outage("error") \/ Outage("timeout") \/ Restored
  BY <1>4 DEF Outage, Restored, engine
<1>5. CASE Done \/ UNCHANGED vars
  BY <1>5 DEF Done, vars, engine
<1> QED BY <1>1, <1>2, <1>3, <1>4, <1>5, <1>6 DEF Aside, Cycle

LEMMA ChangesKept ==
  ASSUME [Next]_vars, ~Aside
  PROVE  changes' = changes
BY StepsAre DEF Receive, Update, Delete, Put, TaskStep, Off, Throttle, Load, Enter, Cut, Evaluate,
                Fan, NoChannels, Attempt, Deliver, Reject, Error, Timeout, LogFails, engine

LEMMA EventNumbersStep ==
  ASSUME Types, EventNumbers, [Next]_vars
  PROVE  EventNumbers'
<1> USE DispatcherAssumption
<1>0. events \in Seq(EventType) /\ changes \in Nat /\ born \in [Ns -> {<<>>} \cup Births]
  BY DEF Types, EngineTypes, QueueTypes, WorkTypes
<1>8. ASSUME NEW i \in DOMAIN events PROVE events[i].n \in Ns
  <2>1. events[i] \in EventType
    BY <1>0
  <2> QED BY <2>1 DEF EventType
<1>1. ASSUME UNCHANGED <<events, born, changes>> PROVE EventNumbers'
  BY <1>1 DEF EventNumbers
<1>2. ASSUME events # <<>>
      PROVE  /\ events[1] \in EventType /\ events[1].n \in Ns
             /\ \A i \in DOMAIN Tail(events) : /\ i \in Nat /\ i + 1 \in DOMAIN events
                                               /\ Tail(events)[i] = events[i + 1]
                                               /\ events[i + 1].n # events[1].n
  <2>1. /\ \A i \in DOMAIN Tail(events) : /\ i \in Nat /\ i >= 1 /\ i + 1 \in DOMAIN events
                                          /\ Tail(events)[i] = events[i + 1]
        /\ 1 \in DOMAIN events /\ events[1] \in EventType
    BY <1>0, <1>2
  <2>2. events[1].n \in Ns
    BY <2>1 DEF EventType
  <2>3. ASSUME NEW i \in DOMAIN Tail(events) PROVE events[i + 1].n # events[1].n
    <3>1. i + 1 \in DOMAIN events /\ 1 < i + 1
      BY <2>1
    <3> QED BY <2>1, <3>1 DEF EventNumbers
  <2> QED BY <2>1, <2>2, <2>3
<1>3. CASE Aside
  <2>1. born' = born
    BY <1>3, AsideKeeps
  <2>2. CASE UNCHANGED <<events, changes>>
    BY <1>1, <2>1, <2>2
  <2>3. ASSUME NEW v \in EventType, changes' = changes + 1, v.n = changes',
               events' = Append(events, v)
        PROVE  EventNumbers'
    <3> DEFINE n == Len(events)
    <3>1. /\ n \in Nat /\ DOMAIN events = 1..n /\ DOMAIN events' = 1..(n + 1)
          /\ events'[n + 1] = v /\ \A i \in 1..n : events'[i] = events[i]
      BY <1>0, <2>3
    <3> HIDE DEF n
    <3>2. v.n \in Ns /\ v.n > changes /\ \A m \in Ns : m \in Nat
      BY <1>0, <2>3 DEF EventType, Ns
    <3>3. \A i \in 1..n : events[i].n \in Ns /\ events[i].n <= changes
      BY <1>8, <3>1 DEF EventNumbers
    <3>4. born[v.n] = <<>>
      BY <1>0, <3>2 DEF EventNumbers
    <3>5. \A i \in 1..(n + 1) : i \in 1..n \/ i = n + 1
      BY <3>1
    <3>6. \A i \in 1..(n + 1) : events'[i].n <= changes' /\ born'[events'[i].n] = <<>>
      <4>1. ASSUME NEW i \in 1..n PROVE events'[i].n <= changes' /\ born'[events'[i].n] = <<>>
        <5>1. events'[i] = events[i] /\ events[i].n \in Nat /\ events[i].n <= changes
          BY <3>1, <3>2, <3>3
        <5>2. born[events[i].n] = <<>>
          BY <3>1 DEF EventNumbers
        <5>3. events[i].n <= changes + 1
          BY <1>0, <5>1
        <5> QED BY <2>1, <2>3, <5>1, <5>2, <5>3
      <4>2. events'[n + 1].n <= changes' /\ born'[events'[n + 1].n] = <<>>
        BY <1>0, <2>1, <2>3, <3>1, <3>4
      <4> QED BY <3>5, <4>1, <4>2
    <3>7. \A i, j \in 1..(n + 1) : i < j => events'[i].n # events'[j].n
      <4> SUFFICES ASSUME NEW i \in 1..(n + 1), NEW j \in 1..(n + 1), i < j
                   PROVE  events'[i].n # events'[j].n
        OBVIOUS
      <4>1. i \in 1..n
        BY <3>1
      <4>2. CASE j \in 1..n
        BY <3>1, <4>1, <4>2 DEF EventNumbers
      <4>3. CASE j = n + 1
        <5>1. events[i].n \in Nat /\ events[i].n <= changes
          BY <3>2, <3>3, <4>1
        <5> QED BY <1>0, <2>3, <3>1, <4>1, <4>3, <5>1
      <4> QED BY <3>5, <4>2, <4>3
    <3>8. \A m \in Ns : born'[m] # <<>> => m <= changes'
      BY <1>0, <2>1, <2>3, <3>2 DEF EventNumbers
    <3> QED BY <3>1, <3>6, <3>7, <3>8 DEF EventNumbers
  <2>4. CASE changes' = changes /\ events # <<>> /\ events' = Tail(events)
    <3>1. \A i, j \in DOMAIN Tail(events) : i < j => i + 1 < j + 1
      BY <1>2, <2>4
    <3>2. \A i, j \in DOMAIN events' : i < j => events'[i].n # events'[j].n
      BY <1>2, <2>4, <3>1 DEF EventNumbers
    <3>3. \A i \in DOMAIN events' : events'[i].n <= changes' /\ born'[events'[i].n] = <<>>
      BY <1>2, <2>1, <2>4 DEF EventNumbers
    <3>4. \A n \in Ns : born'[n] # <<>> => n <= changes'
      BY <2>1, <2>4 DEF EventNumbers
    <3> QED BY <3>2, <3>3, <3>4 DEF EventNumbers
  <2> QED BY <1>3, <2>2, <2>3, <2>4, EventsMove
<1>4. CASE Receive
  <2> DEFINE v == events[1]
  <2>1. /\ events # <<>> /\ events' = Tail(events)
        /\ \E b \in Births : born' = [born EXCEPT ![v.n] = b]
    BY <1>4, Receives DEF Types, EngineTypes
  <2>2. changes' = changes
    BY <1>4 DEF Receive, engine
  <2>3. v.n \in Ns /\ v.n <= changes
    BY <1>0, <1>2, <2>1 DEF EventNumbers
  <2>4. \A m \in Ns : m # v.n => born'[m] = born[m]
    BY <1>0, <2>1
  <2>5. \A i, j \in DOMAIN Tail(events) : i < j => i + 1 < j + 1
    BY <1>2, <2>1
  <2>6. \A i \in DOMAIN Tail(events) : events[i + 1].n \in Ns
    BY <1>2, <1>8, <2>1
  <2> HIDE DEF v
  <2>7. \A i \in DOMAIN events' : events'[i].n <= changes' /\ born'[events'[i].n] = <<>>
    BY <1>2, <2>1, <2>2, <2>4, <2>6 DEF EventNumbers, v
  <2>8. \A i, j \in DOMAIN events' : i < j => events'[i].n # events'[j].n
    BY <1>2, <2>1, <2>5 DEF EventNumbers
  <2>9. \A m \in Ns : born'[m] # <<>> => m <= changes'
    BY <2>2, <2>3, <2>4 DEF EventNumbers
  <2> QED BY <2>7, <2>8, <2>9 DEF EventNumbers
<1>5. CASE \E ch \in Channels : Update(ch) \/ Delete(ch)
  BY <1>1, <1>5 DEF Update, Delete, Put, engine
<1>6. ASSUME NEW t \in tasks, TaskStep(t) \/ NoChannels(t) PROVE EventNumbers'
  <2>1. UNCHANGED <<events, born, changes>>
    BY <1>6 DEF TaskStep, Off, Throttle, Load, Enter, Cut, Evaluate, Fan, NoChannels, engine, audit
  <2> QED BY <1>1, <2>1
<1>7. ASSUME NEW s \in sends, Attempt(s) PROVE EventNumbers'
  <2>1. UNCHANGED <<events, born, changes>>
    BY <1>7 DEF Attempt, Deliver, Reject, Error, Timeout, LogFails, engine
  <2> QED BY <1>1, <2>1
<1> QED BY <1>3, <1>4, <1>5, <1>6, <1>7, StepsAre

LEMMA WorkTypesStep ==
  ASSUME Types, [Next]_vars
  PROVE  WorkTypes'
<1>0. /\ tasks \subseteq TaskType /\ sends \subseteq SendType /\ entries \subseteq Keys
      /\ born \in [Ns -> {<<>>} \cup Births]
  BY DEF Types, WorkTypes
<1>1. CASE Aside
  BY <1>0, <1>1, AsideKeeps DEF WorkTypes
<1>2. CASE Receive
  <2> DEFINE v == events[1]
  <2>1. PICK t \in TaskType, b \in Births :
          /\ tasks' = tasks \cup {t} /\ born' = [born EXCEPT ![v.n] = b] /\ sends' = sends
          /\ entries' = entries
    BY <1>2, Receives DEF Types, EngineTypes
  <2> QED BY <1>0, <2>1 DEF WorkTypes
<1>3. CASE \E ch \in Channels : Update(ch) \/ Delete(ch)
  BY <1>0, <1>3 DEF Update, Delete, Put, muted, WorkTypes
<1>4. ASSUME NEW t \in tasks, TaskStep(t) \/ NoChannels(t) PROVE WorkTypes'
  <2>0. t \in TaskType
    BY <1>0
  <2>1. CASE Off(t) \/ NoChannels(t)
    BY <1>0, <2>1, Drops DEF WorkTypes
  <2>2. CASE Throttle(t) \/ Evaluate(t)
    <3>1. PICK pc \in {"muted", "flapping", "steady"} :
            tasks' = (tasks \ {t}) \cup {[t EXCEPT !.pc = pc]}
      BY <2>2, Evaluates
    <3>2. [t EXCEPT !.pc = pc] \in TaskType
      BY <2>0, TaskMoves DEF Stages, Pending
    <3>3. sends' = sends /\ born' = born /\ entries' = entries
      BY <2>2, Evaluates
    <3> QED BY <1>0, <3>1, <3>2, <3>3 DEF WorkTypes
  <2>3. CASE Fan(t)
    <3>1. /\ sends' = sends \cup New(t) /\ born' = born /\ entries' = entries
          /\ tasks' \subseteq tasks \cup {[t EXCEPT !.pc = "sending"]}
      BY <2>3, Fans
    <3>2. [t EXCEPT !.pc = "sending"] \in TaskType
      BY <2>0, TaskMoves DEF Stages
    <3>3. New(t) \subseteq SendType
      BY <2>0, NewIs
    <3> QED BY <1>0, <3>1, <3>2, <3>3 DEF WorkTypes
  <2>4. CASE Load(t)
    <3>1. /\ sends' = sends /\ born' = born /\ entries' = entries \cup ({t.n} \X InUse)
          /\ tasks' \subseteq tasks \cup {[t EXCEPT !.pc = "logging"]}
      BY <2>4, Loads
    <3>2. [t EXCEPT !.pc = "logging"] \in TaskType
      BY <2>0, TaskMoves DEF Stages
    <3>3. {t.n} \X InUse \subseteq Keys
      BY <2>0 DEF TaskType, InUse, Keys
    <3> QED BY <1>0, <3>1, <3>2, <3>3 DEF WorkTypes
  <2>5. CASE \E ch \in Channels : Enter(t, ch) \/ Cut(t, ch)
    <3>1. sends' = sends /\ born' = born /\ entries' \subseteq entries /\ tasks' \subseteq tasks
      BY <2>5, Writing
    <3> QED BY <1>0, <3>1 DEF WorkTypes
  <2> QED BY <1>4, <2>1, <2>2, <2>3, <2>4, <2>5 DEF TaskStep
<1>5. ASSUME NEW s \in sends, Attempt(s) PROVE WorkTypes'
  <2>1. [s EXCEPT !.tries = @ + 1] \in SendType
    BY <1>0 DEF SendType
  <2>2. born' = born /\ entries' = entries /\ (Again(s) \/ Ends(s))
    BY <1>5, AttemptIs
  <2>3. tasks' \subseteq tasks /\ sends' \subseteq sends \cup {[s EXCEPT !.tries = @ + 1]}
    BY <2>2 DEF Again, Ends
  <2> QED BY <1>0, <2>1, <2>2, <2>3 DEF WorkTypes
<1> QED BY <1>1, <1>2, <1>3, <1>4, <1>5, StepsAre

\* Any step but the reception of a change leaves what has been received.
LEMMA BornKept ==
  ASSUME [Next]_vars, ~Receive
  PROVE  born' = born
BY StepsAre, AsideKeeps
   DEF Update, Delete, Put, TaskStep, Off, Throttle, Load, Enter, Cut, Evaluate, Fan, NoChannels, Attempt, Deliver, Reject, Error, Timeout, LogFails, audit

LEMMA WorkNumbersStep ==
  ASSUME Types, EventNumbers, WorkNumbers, [Next]_vars
  PROVE  WorkNumbers'
<1>0. tasks \subseteq TaskType /\ sends \subseteq SendType /\ born \in [Ns -> {<<>>} \cup Births]
  BY DEF Types, WorkTypes
<1>1. ASSUME UNCHANGED <<tasks, sends, entries, born>> PROVE WorkNumbers'
  BY <1>1 DEF WorkNumbers, About
<1>2. CASE Aside
  BY <1>1, <1>2, AsideKeeps
<1>3. CASE Receive
  <2>0. /\ events[1] \in EventType /\ events # <<>> /\ sends' = sends /\ entries' = entries
        /\ \E t \in TaskType, b \in Births :
             /\ tasks' = tasks \cup {t} /\ born' = [born EXCEPT ![events[1].n] = b]
             /\ t.n = events[1].n /\ t.ep = b[1] /\ t.state = b[2] /\ t.ts = b[3] /\ b # <<>>
    BY <1>3, Receives DEF Types, EngineTypes
  <2>1. PICK v \in EventType, t \in TaskType, b \in Births :
          /\ v = events[1] /\ events # <<>> /\ sends' = sends /\ entries' = entries
          /\ tasks' = tasks \cup {t} /\ born' = [born EXCEPT ![v.n] = b]
          /\ t.n = v.n /\ t.ep = b[1] /\ t.state = b[2] /\ t.ts = b[3] /\ b # <<>>
    BY <2>0
  <2>2. t.n = v.n /\ t.ep = b[1] /\ t.state = b[2] /\ t.ts = b[3] /\ b # <<>>
    BY <2>1
  <2>3. 1 \in DOMAIN events
    BY <2>1 DEF Types, QueueTypes
  <2>4. born[v.n] = <<>> /\ v.n \in Ns
    BY <2>1, <2>3 DEF EventNumbers, EventType
  <2>5. born'[v.n] = b /\ \A m \in Ns : m # v.n => born'[m] = born[m]
    BY <1>0, <2>1, <2>4
  <2>6. \A u \in tasks : u.n # v.n /\ u.n \in Ns
    <3>1. \A u \in tasks : u.n # v.n
      BY <2>4 DEF WorkNumbers, About
    <3> QED BY <1>0, <3>1 DEF TaskType
  <2>7. \A s \in sends : s.n # v.n /\ s.n \in Ns
    <3>1. \A s \in sends : s.n # v.n
      BY <2>4 DEF WorkNumbers, About
    <3> QED BY <1>0, <3>1 DEF SendType
  <2>8. \A u \in tasks' : About(u)'
    <3>1. About(t)'
      BY <2>2, <2>5 DEF About
    <3>2. ASSUME NEW u \in tasks PROVE About(u)'
      BY <2>5, <2>6 DEF About, WorkNumbers
    <3> QED BY <2>1, <3>1, <3>2
  <2>9. \A u, w \in tasks' : u.n = w.n => u = w
    BY <2>1, <2>2, <2>6 DEF WorkNumbers
  <2>10. \A s \in sends' : About(s)' /\ \E u \in tasks' : u.n = s.n /\ u.pc = "sending"
    <3> SUFFICES ASSUME NEW s \in sends
                 PROVE  About(s)' /\ \E u \in tasks' : u.n = s.n /\ u.pc = "sending"
      BY <2>1
    <3>1. About(s)'
      BY <2>5, <2>7 DEF About, WorkNumbers
    <3> QED BY <2>1, <3>1 DEF WorkNumbers
  <2>11. \A k \in entries' : born'[k[1]] # <<>> /\ \E u \in tasks' : u.n = k[1] /\ u.pc = "logging"
    <3> SUFFICES ASSUME NEW k \in entries
                 PROVE  born'[k[1]] # <<>> /\ \E u \in tasks' : u.n = k[1] /\ u.pc = "logging"
      BY <2>1
    <3>1. born[k[1]] # <<>> /\ \E u \in tasks : u.n = k[1] /\ u.pc = "logging"
      BY DEF WorkNumbers
    <3>2. k[1] \in Ns /\ k[1] # v.n
      BY <2>4, <3>1 DEF Types, WorkTypes, Keys
    <3> QED BY <2>1, <2>5, <3>1, <3>2
  <2> QED BY <2>1, <2>8, <2>9, <2>10, <2>11 DEF WorkNumbers
<1>4. CASE \E ch \in Channels : Update(ch) \/ Delete(ch)
  BY <1>1, <1>4 DEF Update, Delete, Put, muted
<1>5. ASSUME NEW t \in tasks, TaskStep(t) \/ NoChannels(t) PROVE WorkNumbers'
  <2>0. t \in TaskType /\ born' = born
    BY <1>0, <1>5, BornKept, StepsAre
       DEF TaskStep, Off, Throttle, Load, Enter, Cut, Evaluate, Fan, NoChannels, audit
  <2>1. CASE Off(t) \/ NoChannels(t)
    <3>1. t.pc \in Pending /\ tasks' = tasks \ {t} /\ sends' = sends /\ entries' = entries
      BY <2>1, Drops
    <3>2. t.pc # "sending" /\ t.pc # "logging"
      BY <3>1 DEF Pending
    <3> QED BY <2>0, <3>1, <3>2 DEF WorkNumbers, About
  <2>2. CASE Throttle(t) \/ Evaluate(t)
    <3>1. PICK pc \in {"muted", "flapping", "steady"} :
            tasks' = (tasks \ {t}) \cup {[t EXCEPT !.pc = pc]}
      BY <2>2, Evaluates
    <3>2. t.pc = "toggle" /\ sends' = sends /\ entries' = entries
      BY <2>2, Evaluates
    <3> DEFINE u == [t EXCEPT !.pc = pc]
    <3>3. u.n = t.n /\ u.ep = t.ep /\ u.state = t.state /\ u.ts = t.ts
      BY <2>0, TaskMoves DEF Stages, Pending
    <3> HIDE DEF u
    <3>4. tasks' = (tasks \ {t}) \cup {u}
      BY <3>1 DEF u
    <3>5. \A w \in tasks' : About(w)'
      BY <2>0, <3>3, <3>4 DEF WorkNumbers, About
    <3>6. \A w, x \in tasks' : w.n = x.n => w = x
      BY <3>3, <3>4 DEF WorkNumbers
    <3>7. \A s \in sends' : About(s)' /\ \E w \in tasks' : w.n = s.n /\ w.pc = "sending"
      BY <2>0, <3>2, <3>4 DEF WorkNumbers, About
    <3>8. \A k \in entries' : born'[k[1]] # <<>> /\ \E w \in tasks' : w.n = k[1] /\ w.pc = "logging"
      BY <2>0, <3>2, <3>4 DEF WorkNumbers
    <3> QED BY <3>2, <3>5, <3>6, <3>7, <3>8 DEF WorkNumbers
  <2>3. CASE Fan(t)
    <3> DEFINE u == [t EXCEPT !.pc = "sending"]
    <3>1. u.n = t.n /\ u.ep = t.ep /\ u.state = t.state /\ u.ts = t.ts /\ u.pc = "sending"
      BY <2>0, TaskMoves DEF Stages
    <3>2. /\ t.pc \in {"flapping", "steady"} /\ sends' = sends \cup New(t) /\ entries' = entries
          /\ \/ New(t) = {} /\ tasks' = tasks \ {t}
             \/ New(t) # {} /\ tasks' = (tasks \ {t}) \cup {u}
      BY <2>3, Fans
    <3> HIDE DEF u
    <3>3. /\ \A s \in New(t) : s.n = t.n /\ s.ep = t.ep /\ s.state = t.state /\ s.ts = t.ts
          /\ \A s, o \in New(t) : s.ch = o.ch => s = o
      BY <2>0, NewIs
    <3>4. \A s \in sends : s.n # t.n
      BY <3>2 DEF WorkNumbers
    <3>5. \A w \in tasks' : About(w)'
      BY <2>0, <3>1, <3>2 DEF WorkNumbers, About
    <3>6. \A w, x \in tasks' : w.n = x.n => w = x
      BY <3>1, <3>2 DEF WorkNumbers
    <3>7. ASSUME NEW s \in sends' PROVE About(s)' /\ \E w \in tasks' : w.n = s.n /\ w.pc = "sending"
      <4>1. CASE s \in sends
        <5>1. PICK w \in tasks : w.n = s.n /\ w.pc = "sending"
          BY <4>1 DEF WorkNumbers
        <5>2. w \in tasks'
          BY <3>2, <5>1
        <5> QED BY <2>0, <4>1, <5>1, <5>2 DEF WorkNumbers, About
      <4>2. CASE s \in New(t)
        <5>1. u \in tasks' /\ About(u)'
          BY <3>2, <3>5, <4>2
        <5> QED BY <3>1, <3>3, <4>2, <5>1 DEF About
      <4> QED BY <3>2, <4>1, <4>2
    <3>8. \A s, o \in sends' : s.n = o.n /\ s.ch = o.ch => s = o
      BY <3>2, <3>3, <3>4 DEF WorkNumbers
    <3>9. \A k \in entries' : born'[k[1]] # <<>> /\ \E w \in tasks' : w.n = k[1] /\ w.pc = "logging"
      BY <2>0, <3>2 DEF WorkNumbers
    <3> QED BY <3>5, <3>6, <3>7, <3>8, <3>9 DEF WorkNumbers
  <2>4. CASE Load(t)
    <3> DEFINE u == [t EXCEPT !.pc = "logging"]
    <3>1. u.n = t.n /\ u.ep = t.ep /\ u.state = t.state /\ u.ts = t.ts /\ u.pc = "logging"
      BY <2>0, TaskMoves DEF Stages
    <3>2. /\ t.pc = "muted" /\ sends' = sends /\ entries' = entries \cup ({t.n} \X InUse)
          /\ \/ InUse = {} /\ tasks' = tasks \ {t}
             \/ InUse # {} /\ tasks' = (tasks \ {t}) \cup {u}
      BY <2>4, Loads
    <3> HIDE DEF u
    <3>5. \A w \in tasks' : About(w)'
      BY <2>0, <3>1, <3>2 DEF WorkNumbers, About
    <3>6. \A w, x \in tasks' : w.n = x.n => w = x
      BY <3>1, <3>2 DEF WorkNumbers
    <3>7. \A s \in sends' : About(s)' /\ \E w \in tasks' : w.n = s.n /\ w.pc = "sending"
      BY <2>0, <3>2 DEF WorkNumbers, About
    <3>8. ASSUME NEW k \in entries'
          PROVE  born'[k[1]] # <<>> /\ \E w \in tasks' : w.n = k[1] /\ w.pc = "logging"
      <4>1. CASE k \in entries
        BY <2>0, <3>2, <4>1 DEF WorkNumbers
      <4>2. CASE k \in {t.n} \X InUse
        <5>1. k[1] = t.n /\ u \in tasks'
          BY <3>2, <4>2
        <5>2. born[t.n] # <<>>
          BY DEF WorkNumbers, About
        <5> QED BY <2>0, <3>1, <5>1, <5>2
      <4> QED BY <3>2, <4>1, <4>2
    <3> QED BY <3>2, <3>5, <3>6, <3>7, <3>8 DEF WorkNumbers
  <2>5. ASSUME NEW ch \in Channels, Enter(t, ch) \/ Cut(t, ch) PROVE WorkNumbers'
    <3>1. /\ t.pc = "logging" /\ sends' = sends /\ entries' \subseteq entries
          /\ tasks' = tasks \/ (tasks' = tasks \ {t} /\ entries' \subseteq entries \ EntriesOf(t))
      BY <2>5, Writing
    <3>2. \A w \in tasks' : About(w)'
      BY <2>0, <3>1 DEF WorkNumbers, About
    <3>3. \A s \in sends' : About(s)' /\ \E w \in tasks' : w.n = s.n /\ w.pc = "sending"
      BY <2>0, <3>1 DEF WorkNumbers, About
    <3>4. ASSUME NEW k \in entries'
          PROVE  born'[k[1]] # <<>> /\ \E w \in tasks' : w.n = k[1] /\ w.pc = "logging"
      <4>1. PICK w \in tasks : w.n = k[1] /\ w.pc = "logging"
        BY <3>1 DEF WorkNumbers
      <4>2. w \in tasks'
        BY <3>1, <4>1 DEF EntriesOf
      <4> QED BY <2>0, <3>1, <4>1, <4>2 DEF WorkNumbers
    <3> QED BY <3>1, <3>2, <3>3, <3>4 DEF WorkNumbers
  <2> QED BY <1>5, <2>1, <2>2, <2>3, <2>4, <2>5 DEF TaskStep
<1>6. ASSUME NEW s \in sends, Attempt(s) PROVE WorkNumbers'
  <2>1. born' = born /\ entries' = entries /\ (Again(s) \/ Ends(s)) /\ s \in SendType
    BY <1>0, <1>6, AttemptIs
  <2>2. CASE Again(s)
    <3> DEFINE o == [s EXCEPT !.tries = @ + 1]
    <3>1. o.n = s.n /\ o.ch = s.ch /\ o.ep = s.ep /\ o.state = s.state /\ o.ts = s.ts
      BY <2>1 DEF SendType
    <3>2. sends' = (sends \ {s}) \cup {o} /\ tasks' = tasks
      BY <2>2 DEF Again
    <3> HIDE DEF o
    <3>3. \A w \in tasks' : About(w)'
      BY <2>1, <3>2 DEF WorkNumbers, About
    <3>4. \A x \in sends' : About(x)' /\ \E w \in tasks' : w.n = x.n /\ w.pc = "sending"
      BY <2>1, <3>1, <3>2 DEF WorkNumbers, About
    <3>5. \A x, y \in sends' : x.n = y.n /\ x.ch = y.ch => x = y
      BY <3>1, <3>2 DEF WorkNumbers
    <3>6. \A k \in entries' : born'[k[1]] # <<>> /\ \E w \in tasks' : w.n = k[1] /\ w.pc = "logging"
      BY <2>1, <3>2 DEF WorkNumbers
    <3> QED BY <3>2, <3>3, <3>4, <3>5, <3>6 DEF WorkNumbers
  <2>3. CASE Ends(s)
    <3>1. sends' = sends \ {s} /\ tasks' \subseteq tasks
      BY <2>3 DEF Ends
    <3>2. \A x \in sends', w \in tasks : w.n = x.n => w \in tasks'
      BY <2>3 DEF Ends
    <3>3. \A x \in sends' : About(x)' /\ \E w \in tasks' : w.n = x.n /\ w.pc = "sending"
      <4> SUFFICES ASSUME NEW x \in sends'
                   PROVE  About(x)' /\ \E w \in tasks' : w.n = x.n /\ w.pc = "sending"
        OBVIOUS
      <4>1. PICK w \in tasks : w.n = x.n /\ w.pc = "sending"
        BY <3>1 DEF WorkNumbers
      <4>2. w \in tasks'
        BY <3>2, <4>1
      <4> QED BY <2>1, <3>1, <4>1, <4>2 DEF WorkNumbers, About
    <3>4. \A w \in tasks' : About(w)'
      BY <2>1, <3>1 DEF WorkNumbers, About
    <3>5. ASSUME NEW k \in entries'
          PROVE  born'[k[1]] # <<>> /\ \E w \in tasks' : w.n = k[1] /\ w.pc = "logging"
      <4>1. PICK w \in tasks : w.n = k[1] /\ w.pc = "logging"
        BY <2>1 DEF WorkNumbers
      <4>2. PICK u \in tasks : u.n = s.n /\ u.pc = "sending"
        BY DEF WorkNumbers
      <4>3. w.n # s.n
        BY <4>1, <4>2 DEF WorkNumbers
      <4>4. w \in tasks'
        BY <2>3, <4>1, <4>3 DEF Ends
      <4> QED BY <2>1, <4>1, <4>4 DEF WorkNumbers
    <3> QED BY <3>1, <3>3, <3>4, <3>5 DEF WorkNumbers
  <2> QED BY <2>1, <2>2, <2>3
<1> QED BY <1>2, <1>3, <1>4, <1>5, <1>6, StepsAre

-----------------------------------------------------------------------------
(* The log.  A key is open while an entry about its event and channel may   *)
(* still be written; whatever writes it closes the key.                     *)

Open ==
  {k \in Keys : \/ born[k[1]] = <<>>
                \/ \E t \in tasks : t.pc \in Pending /\ t.n = k[1]
                \/ k \in entries
                \/ \E s \in sends : s.n = k[1] /\ s.ch = k[2]}

Sound == Types /\ EventNumbers /\ WorkNumbers

\* Once its event has been taken up no delivery of a task is under way, and none
\* waits whose delivery is.
LEMMA OneStage ==
  ASSUME WorkNumbers, NEW t \in tasks
  PROVE  /\ t.pc \in Pending => \A s \in sends : s.n # t.n
         /\ \A s \in sends : s.n = t.n => t.pc = "sending"
         /\ \A k \in entries : k[1] = t.n => t.pc = "logging"
         /\ \A u \in tasks : u.n = t.n => u = t
         /\ born[t.n] # <<>>
BY DEF WorkNumbers, About, Pending

\* An entry is written for a key that this closes.
Writes(k) ==
  /\ k \in Open \ Open' /\ row[k[2]] # "none" /\ row' = row
  /\ k[2] \in InUse \/ k \in entries \/ \E s \in sends : s.n = k[1] /\ s.ch = k[2]
  /\ \E status \in {"THROTTLED", "DELIVERED", "FAILED"} :
       /\ log'[k] = Append(log[k], status)
       /\ status = "DELIVERED" => \E s \in sends : s.n = k[1] /\ s.ch = k[2] /\ Accepted(s)
                                                   /\ sends' = sends \ {s}

\* A step leaves an entry, deletes it with its channel, or writes it.
LogMoves ==
  /\ Open' \subseteq Open /\ log' = [k \in Keys |-> log'[k]]
  /\ \A k \in Keys : \/ log'[k] = log[k]
                     \/ log'[k] = <<>> /\ row'[k[2]] = "none"
                     \/ Writes(k)
  /\ \A ch \in Channels : row'[ch] = "none" /\ row[ch] # "none" =>
       \A k \in Keys : k[2] = ch => log'[k] = <<>>

LEMMA LogStays ==
  ASSUME LogTypes, UNCHANGED <<log, row>>, Open' \subseteq Open
  PROVE  LogMoves
BY DEF LogMoves, LogTypes

\* What Logged writes.
LEMMA LoggedIs ==
  ASSUME LogTypes, NEW t, NEW chs, NEW status, Logged(t, chs, status)
  PROVE  /\ log' = [k \in Keys |-> log'[k]]
         /\ \A k \in Keys : \/ log'[k] = log[k]
                            \/ /\ k[1] = t.n /\ k[2] \in chs /\ row[k[2]] # "none"
                               /\ log'[k] = Append(log[k], status)
<1>1. DOMAIN log = Keys
  BY DEF LogTypes
<1> QED BY <1>1 DEF Logged

LEMMA TaskLogs ==
  ASSUME Sound, LogTypes, NEW t \in tasks, TaskStep(t) \/ NoChannels(t)
  PROVE  LogMoves
<1>0. /\ tasks \subseteq TaskType /\ sends \subseteq SendType /\ t \in TaskType
      /\ entries \subseteq Keys /\ born' = born /\ row' = row
  BY BornKept DEF Sound, Types, WorkTypes, TaskStep, Off, Throttle, Load, Enter, Cut, Evaluate, Fan,
                  NoChannels, audit, outside
<1>1. /\ t.pc \in Pending => \A s \in sends : s.n # t.n
      /\ \A s \in sends : s.n = t.n => t.pc = "sending"
      /\ \A k \in entries : k[1] = t.n => t.pc = "logging"
      /\ \A u \in tasks : u.n = t.n => u = t
      /\ born[t.n] # <<>>
  BY OneStage DEF Sound
<1>2. CASE Off(t) \/ NoChannels(t)
  <2>1. tasks' = tasks \ {t} /\ sends' = sends /\ entries' = entries /\ log' = log
    BY <1>2, Drops
  <2>2. Open' \subseteq Open
    BY <1>0, <2>1 DEF Open
  <2> QED BY <1>0, <2>1, <2>2, LogStays
<1>5. CASE Load(t)
  <2> DEFINE u == [t EXCEPT !.pc = "logging"]
  <2>1. u.n = t.n /\ u.pc = "logging" /\ "logging" \notin Pending
    BY <1>0, TaskMoves DEF Stages, Pending
  <2>2. /\ t.pc \in Pending /\ sends' = sends /\ log' = log
        /\ tasks' \subseteq (tasks \ {t}) \cup {u} /\ entries' = entries \cup ({t.n} \X InUse)
    BY <1>5, Loads DEF Pending
  <2> HIDE DEF u
  <2>3. ASSUME NEW k \in {t.n} \X InUse, k \in Keys PROVE k \in Open
    BY <2>2, <2>3 DEF Open
  <2>4. Open' \subseteq Open
    BY <1>0, <2>1, <2>2, <2>3 DEF Open
  <2> QED BY <1>0, <2>2, <2>4, LogStays
<1>6. ASSUME NEW ch \in Channels, Enter(t, ch) \/ Cut(t, ch) PROVE LogMoves
  <2>1. /\ t.pc = "logging" /\ <<t.n, ch>> \in entries /\ sends' = sends
        /\ tasks' \subseteq tasks /\ entries' \subseteq entries
        /\ \/ log' = log
           \/ /\ Logged(t, {ch}, "THROTTLED") /\ entries' = entries \ {<<t.n, ch>>}
              /\ row[ch] # "none"
    BY <1>6, Writing
  <2>2. Open' \subseteq Open
    BY <1>0, <2>1 DEF Open
  <2>3. CASE log' = log
    BY <1>0, <2>2, <2>3, LogStays
  <2>4. CASE /\ Logged(t, {ch}, "THROTTLED") /\ entries' = entries \ {<<t.n, ch>>}
             /\ row[ch] # "none"
    <3> DEFINE key == <<t.n, ch>>
    <3>1. key \in Open
      BY <1>0, <2>1 DEF Open
    <3>2. key \notin Open'
      <4>1. born'[t.n] # <<>>
        BY <1>0, <1>1
      <4>2. \A w \in tasks' : w.n = t.n => w.pc \notin Pending
        BY <1>1, <2>1 DEF Pending
      <4>3. \A s \in sends' : s.n # t.n
        BY <1>1, <2>1
      <4> QED BY <2>4, <4>1, <4>2, <4>3 DEF Open
    <3>3. /\ log' = [k \in Keys |-> log'[k]]
          /\ \A k \in Keys : \/ log'[k] = log[k]
                             \/ /\ k[1] = t.n /\ k[2] \in {ch} /\ row[k[2]] # "none"
                                /\ log'[k] = Append(log[k], "THROTTLED")
      BY <2>4, LoggedIs
    <3>4. \A k \in Keys : k[1] = t.n /\ k[2] = ch => k = key
      BY DEF Keys
    <3>5. key \in entries
      BY <2>1
    <3> HIDE DEF key
    <3> QED BY <1>0, <2>2, <3>1, <3>2, <3>3, <3>4, <3>5 DEF LogMoves, Writes
  <2> QED BY <2>1, <2>3, <2>4
<1>3. CASE Throttle(t) \/ Evaluate(t)
  <2>1. PICK pc \in {"muted", "flapping", "steady"} :
          tasks' = (tasks \ {t}) \cup {[t EXCEPT !.pc = pc]}
    BY <1>3, Evaluates
  <2>2. t.pc \in Pending /\ sends' = sends /\ entries' = entries /\ log' = log
    BY <1>3, Evaluates DEF Pending
  <2>3. [t EXCEPT !.pc = pc].n = t.n
    BY <1>0, TaskMoves DEF Stages, Pending
  <2>4. Open' \subseteq Open
    BY <1>0, <2>1, <2>2, <2>3 DEF Open
  <2> QED BY <1>0, <2>2, <2>4, LogStays
<1>4. CASE Fan(t)
  <2> DEFINE u == [t EXCEPT !.pc = "sending"]
  <2>1. u.n = t.n /\ u.pc = "sending"
    BY <1>0, TaskMoves DEF Stages
  <2>2. /\ t.pc \in Pending /\ sends' = sends \cup New(t) /\ Logged(t, Held(t), "THROTTLED")
        /\ tasks' \subseteq (tasks \ {t}) \cup {u} /\ entries' = entries
    BY <1>4, Fans DEF Pending
  <2> HIDE DEF u
  <2>3. Held(t) \subseteq InUse /\ \A s \in New(t) : s.n = t.n /\ s.ch \notin Held(t)
    BY <1>0, NewIs
  <2>4. "sending" \notin Pending
    BY DEF Pending
  <2>5. Open' \subseteq Open
    <3> SUFFICES ASSUME NEW k \in Open' PROVE k \in Open
      OBVIOUS
    <3>1. CASE k[1] = t.n
      BY <2>2, <3>1 DEF Open
    <3>2. CASE k[1] # t.n
      BY <1>0, <2>1, <2>2, <2>3, <3>2 DEF Open
    <3> QED BY <3>1, <3>2
  <2>6. \A k \in Keys : k[1] = t.n /\ k[2] \in Held(t) => k \in Open /\ k \notin Open'
    <3> SUFFICES ASSUME NEW k \in Keys, k[1] = t.n, k[2] \in Held(t)
                 PROVE  k \in Open /\ k \notin Open'
      OBVIOUS
    <3>1. \A w \in tasks' : w.n = t.n => w.pc \notin Pending
      BY <1>1, <2>1, <2>2, <2>4
    <3>2. \A s \in sends' : ~(s.n = k[1] /\ s.ch = k[2])
      BY <1>1, <2>2, <2>3
    <3>3. born'[t.n] # <<>>
      BY <1>0, <1>1
    <3>4. k \notin entries'
      BY <1>1, <2>2 DEF Pending
    <3> QED BY <2>2, <3>1, <3>2, <3>3, <3>4 DEF Open
  <2>7. /\ log' = [k \in Keys |-> log'[k]]
        /\ \A k \in Keys : \/ log'[k] = log[k]
                           \/ /\ k[1] = t.n /\ k[2] \in Held(t) /\ row[k[2]] # "none"
                              /\ log'[k] = Append(log[k], "THROTTLED")
    BY <2>2, LoggedIs
  <2> QED BY <1>0, <2>3, <2>5, <2>6, <2>7 DEF LogMoves, Writes
<1> QED BY <1>2, <1>3, <1>4, <1>5, <1>6 DEF TaskStep

LEMMA SendLogs ==
  ASSUME Sound, LogTypes, NEW s \in sends, Attempt(s)
  PROVE  LogMoves
<1>0. /\ tasks \subseteq TaskType /\ sends \subseteq SendType /\ s \in SendType
      /\ born' = born /\ row' = row /\ entries' = entries /\ (Again(s) \/ Ends(s))
  BY AttemptIs DEF Sound, Types, WorkTypes
<1>1. CASE Again(s)
  <2> DEFINE o == [s EXCEPT !.tries = @ + 1]
  <2>1. o.n = s.n /\ o.ch = s.ch
    BY <1>0 DEF SendType
  <2>2. sends' = (sends \ {s}) \cup {o} /\ tasks' = tasks /\ log' = log
    BY <1>1 DEF Again
  <2> HIDE DEF o
  <2>3. Open' \subseteq Open
    BY <1>0, <2>1, <2>2 DEF Open
  <2> QED BY <1>0, <2>2, <2>3, LogStays
<1>2. CASE Ends(s)
  <2>1. sends' = sends \ {s} /\ tasks' \subseteq tasks
    BY <1>2 DEF Ends
  <2>2. Open' \subseteq Open
    BY <1>0, <2>1 DEF Open
  <2>3. CASE log' = log
    BY <1>0, <2>2, <2>3, LogStays
  <2>4. ASSUME NEW status \in {"DELIVERED", "FAILED"}, Logged(s, {s.ch}, status),
               status = "DELIVERED" => Accepted(s)
        PROVE  LogMoves
    <3>1. /\ log' = [k \in Keys |-> log'[k]]
          /\ \A k \in Keys : \/ log'[k] = log[k]
                             \/ /\ k[1] = s.n /\ k[2] = s.ch /\ row[k[2]] # "none"
                                /\ log'[k] = Append(log[k], status)
      BY <2>4, LoggedIs
    <3>2. ASSUME NEW k \in Keys, k[1] = s.n, k[2] = s.ch PROVE k \in Open /\ k \notin Open'
      <4>1. k \in Open
        BY <3>2 DEF Open
      <4>2. PICK t \in tasks : t.n = s.n /\ t.pc = "sending"
        BY DEF Sound, WorkNumbers
      <4>3. \A u \in tasks' : u.n = s.n => u.pc \notin Pending
        BY <2>1, <4>2 DEF Sound, WorkNumbers, Pending
      <4>4. \A o \in sends' : ~(o.n = s.n /\ o.ch = s.ch)
        BY <2>1 DEF Sound, WorkNumbers
      <4>5. born'[s.n] # <<>>
        BY <1>0 DEF Sound, WorkNumbers, About
      <4>6. k \notin entries'
        BY <1>0, <3>2, <4>2, OneStage DEF Sound
      <4> QED BY <3>2, <4>1, <4>3, <4>4, <4>5, <4>6 DEF Open
    <3> QED BY <1>0, <2>1, <2>2, <2>4, <3>1, <3>2 DEF LogMoves, Writes
  <2> QED BY <1>2, <2>3, <2>4 DEF Ends
<1> QED BY <1>0, <1>1, <1>2

LEMMA LogStep ==
  ASSUME Sound, LogTypes, [Next]_vars
  PROVE  LogMoves
<1>1. CASE Aside
  <2>1. UNCHANGED <<log, row, tasks, sends, entries, born>>
    BY <1>1, AsideKeeps
  <2>2. Open' \subseteq Open
    BY <2>1 DEF Open
  <2> QED BY <2>1, <2>2, LogStays
<1>2. CASE Receive
  <2>1. /\ events[1] \in EventType /\ sends' = sends /\ UNCHANGED <<log, row, entries>>
        /\ events # <<>>
        /\ \E t \in TaskType, b \in Births :
             tasks' = tasks \cup {t} /\ born' = [born EXCEPT ![events[1].n] = b] /\ t.n = events[1].n
    BY <1>2, Receives DEF Sound, Types, EngineTypes
  <2>2. PICK v \in EventType, t \in TaskType, b \in Births :
          /\ v = events[1] /\ tasks' = tasks \cup {t} /\ born' = [born EXCEPT ![v.n] = b] /\ t.n = v.n
    BY <2>1
  <2>3. 1 \in DOMAIN events
    BY <2>1 DEF Sound, Types, QueueTypes
  <2>4. born[v.n] = <<>> /\ v.n \in Ns
    BY <2>2, <2>3 DEF Sound, EventNumbers, EventType
  <2>5. \A m \in Ns : m # v.n => born'[m] = born[m]
    BY <2>2 DEF Sound, Types, WorkTypes
  <2>6. Open' \subseteq Open
    <3> SUFFICES ASSUME NEW k \in Keys, k \in Open' PROVE k \in Open
      BY DEF Open
    <3>1. CASE k[1] = v.n
      BY <2>4, <3>1 DEF Open
    <3>2. CASE k[1] # v.n
      <4>1. k[1] \in Ns
        BY DEF Keys
      <4> QED BY <2>1, <2>2, <2>5, <3>2, <4>1 DEF Open
    <3> QED BY <3>1, <3>2
  <2> QED BY <2>1, <2>6, LogStays
<1>3. ASSUME NEW ch \in Channels, Update(ch) PROVE LogMoves
  <2>1. UNCHANGED <<log, tasks, sends, entries, born>> /\ row[ch] # "none"
        /\ \E to \in {"on", "off"} : row' = [row EXCEPT ![ch] = to]
    BY <1>3 DEF Update, Put, muted
  <2>2. Open' \subseteq Open
    BY <2>1 DEF Open
  <2>3. \A c \in Channels : row'[c] = "none" => row[c] = "none"
    BY <2>1 DEF Sound, Types, ChannelTypes
  <2> QED BY <2>1, <2>2, <2>3 DEF LogMoves, LogTypes
<1>4. ASSUME NEW ch \in Channels, Delete(ch) PROVE LogMoves
  <2>1. /\ UNCHANGED <<tasks, sends, entries, born>> /\ row' = [row EXCEPT ![ch] = "none"]
        /\ log' = [k \in DOMAIN log |-> IF k[2] = ch THEN <<>> ELSE log[k]]
    BY <1>4 DEF Delete, Put, muted
  <2>2. Open' \subseteq Open
    BY <2>1 DEF Open
  <2>3. row'[ch] = "none" /\ \A c \in Channels : c # ch => row'[c] = row[c]
    BY <2>1 DEF Sound, Types, ChannelTypes
  <2>4. log' = [k \in Keys |-> IF k[2] = ch THEN <<>> ELSE log[k]]
    BY <2>1 DEF LogTypes
  <2> QED BY <2>2, <2>3, <2>4 DEF LogMoves
<1> QED BY <1>1, <1>2, <1>3, <1>4, TaskLogs, SendLogs, StepsAre

\* What a provider accepts.
LEMMA AcceptedIs ==
  ASSUME LogTypes, NEW s \in SendType, Accepted(s)
  PROVE  /\ copies' \in [Keys -> Nat]
         /\ \A k \in Keys : IF k[1] = s.n /\ k[2] = s.ch THEN copies'[k] = copies[k] + 1
                            ELSE copies'[k] = copies[k]
<1>1. s.n \in Ns /\ s.ch \in Channels
  BY DEF SendType
<1> DEFINE key == <<s.n, s.ch>>
<1>2. key \in Keys
  BY <1>1 DEF Keys
<1>3. copies' = [copies EXCEPT ![key] = @ + 1] /\ copies \in [Keys -> Nat]
  BY DEF Accepted, LogTypes
<1>4. \A k \in Keys : k = key <=> k[1] = s.n /\ k[2] = s.ch
  BY DEF Keys
<1> HIDE DEF key
<1> QED BY <1>2, <1>3, <1>4

LEMMA CopyStep ==
  ASSUME Sound, LogTypes, [Next]_vars
  PROVE  /\ copies' \in [Keys -> Nat]
         /\ \A k \in Keys : \/ copies'[k] = copies[k]
                            \/ /\ copies'[k] = copies[k] + 1 /\ k \in Open /\ born[k[1]] # <<>>
                               /\ \E s \in sends : s.n = k[1] /\ s.ch = k[2]
                               /\ provider = "timeout" \/ k \notin Open'
<1>1. ASSUME copies' = copies
      PROVE  copies' \in [Keys -> Nat] /\ \A k \in Keys : copies'[k] = copies[k]
  BY <1>1 DEF LogTypes
<1>2. CASE Aside
  BY <1>1, <1>2, AsideKeeps
<1>3. CASE Receive
  BY <1>1, <1>3 DEF Receive
<1>4. CASE \E ch \in Channels : Update(ch) \/ Delete(ch)
  BY <1>1, <1>4 DEF Update, Delete, Put
<1>5. CASE \E t \in tasks : TaskStep(t) \/ NoChannels(t)
  BY <1>1, <1>5 DEF TaskStep, Off, Throttle, Load, Enter, Cut, Evaluate, Fan, NoChannels, audit
<1>6. ASSUME NEW s \in sends, Attempt(s), Accepted(s), provider = "timeout" \/ Ends(s)
      PROVE  /\ copies' \in [Keys -> Nat]
             /\ \A k \in Keys : \/ copies'[k] = copies[k]
                                \/ /\ copies'[k] = copies[k] + 1 /\ k \in Open /\ born[k[1]] # <<>>
                                   /\ \E o \in sends : o.n = k[1] /\ o.ch = k[2]
                                   /\ provider = "timeout" \/ k \notin Open'
  <2>1. s \in SendType /\ born' = born /\ entries' = entries
    BY <1>6, AttemptIs DEF Sound, Types, WorkTypes
  <2>2. copies' \in [Keys -> Nat]
        /\ \A k \in Keys : IF k[1] = s.n /\ k[2] = s.ch THEN copies'[k] = copies[k] + 1
                           ELSE copies'[k] = copies[k]
    BY <1>6, <2>1, AcceptedIs
  <2>3. ASSUME NEW k \in Keys, k[1] = s.n, k[2] = s.ch
        PROVE  k \in Open /\ born[k[1]] # <<>> /\ (Ends(s) => k \notin Open')
    <3>1. k \in Open
      BY <2>3 DEF Open
    <3>2. born[s.n] # <<>>
      BY DEF Sound, WorkNumbers, About
    <3>3. ASSUME Ends(s) PROVE k \notin Open'
      <4>1. sends' = sends \ {s} /\ tasks' \subseteq tasks
        BY <3>3 DEF Ends
      <4>2. PICK t \in tasks : t.n = s.n /\ t.pc = "sending"
        BY DEF Sound, WorkNumbers
      <4>3. \A u \in tasks' : u.n = s.n => u.pc \notin Pending
        BY <4>1, <4>2 DEF Sound, WorkNumbers, Pending
      <4>4. \A o \in sends' : ~(o.n = s.n /\ o.ch = s.ch)
        BY <4>1 DEF Sound, WorkNumbers
      <4>5. k \notin entries'
        BY <2>1, <2>3, <4>2, OneStage DEF Sound
      <4> QED BY <2>1, <2>3, <3>2, <4>3, <4>4, <4>5 DEF Open
    <3> QED BY <2>3, <3>1, <3>2, <3>3
  <2> QED BY <1>6, <2>2, <2>3
<1> QED BY <1>1, <1>2, <1>3, <1>4, <1>5, <1>6, AttemptIs, StepsAre

LogInv ==
  /\ LogTypes
  /\ \A k \in Open : log[k] = <<>>
  /\ \A k \in Keys : /\ row[k[2]] = "none" => log[k] = <<>>
                     /\ log[k] = <<"DELIVERED">> => copies[k] >= 1

LEMMA LogInvStep ==
  ASSUME Sound, LogInv, [Next]_vars
  PROVE  LogInv'
<1>0. LogTypes
  BY DEF LogInv
<1>1. LogMoves
  BY <1>0, LogStep
<1>2. copies' \in [Keys -> Nat] /\ copies \in [Keys -> Nat]
      /\ \A k \in Keys : copies'[k] >= copies[k]
  <2>1. copies' \in [Keys -> Nat] /\ copies \in [Keys -> Nat]
        /\ \A k \in Keys : copies'[k] = copies[k] \/ copies'[k] = copies[k] + 1
    BY <1>0, CopyStep DEF LogTypes
  <2>2. \A k \in Keys : copies[k] \in Nat
    BY <2>1
  <2> QED BY <2>1, <2>2
<1>3. ASSUME NEW k \in Keys, Writes(k)
      PROVE  /\ log'[k] \in {<<"THROTTLED">>, <<"DELIVERED">>, <<"FAILED">>}
             /\ k \notin Open' /\ row'[k[2]] # "none"
             /\ log'[k] = <<"DELIVERED">> => copies'[k] >= 1
  <2>1. k \in Open /\ k \notin Open' /\ row'[k[2]] # "none"
    BY <1>3 DEF Writes
  <2>2. PICK status \in {"THROTTLED", "DELIVERED", "FAILED"} :
          /\ log'[k] = Append(log[k], status)
          /\ status = "DELIVERED" => \E s \in sends : s.n = k[1] /\ s.ch = k[2] /\ Accepted(s)
    BY <1>3 DEF Writes
  <2>3. log[k] = <<>>
    BY <2>1 DEF LogInv
  <2>4. log'[k] = <<status>>
    BY <2>2, <2>3
  <2>5. ASSUME status = "DELIVERED" PROVE copies'[k] >= 1
    <3>1. PICK s \in sends : s.n = k[1] /\ s.ch = k[2] /\ Accepted(s)
      BY <2>2, <2>5
    <3>2. s \in SendType
      BY DEF Sound, Types, WorkTypes
    <3>3. copies'[k] = copies[k] + 1
      BY <1>0, <3>1, <3>2, AcceptedIs
    <3>4. copies[k] \in Nat
      BY <1>2
    <3> QED BY <3>3, <3>4
  <2>6. log'[k] = <<"DELIVERED">> => status = "DELIVERED"
    BY <2>4
  <2>7. log'[k] \in {<<"THROTTLED">>, <<"DELIVERED">>, <<"FAILED">>}
    BY <2>2, <2>4
  <2> QED BY <2>1, <2>5, <2>6, <2>7
<1>4. ASSUME NEW k \in Keys
      PROVE  log'[k] \in {<<>>, <<"THROTTLED">>, <<"DELIVERED">>, <<"FAILED">>}
  <2>1. log[k] \in {<<>>, <<"THROTTLED">>, <<"DELIVERED">>, <<"FAILED">>}
    BY <1>0 DEF LogTypes
  <2> QED BY <1>1, <1>3, <2>1 DEF LogMoves
<1>5. LogTypes'
  BY <1>1, <1>2, <1>4 DEF LogTypes, LogMoves
<1>6. \A k \in Open' : log'[k] = <<>>
  <2> SUFFICES ASSUME NEW k \in Open' PROVE log'[k] = <<>>
    OBVIOUS
  <2>1. k \in Keys /\ k \in Open
    BY <1>1 DEF Open, LogMoves
  <2>2. log[k] = <<>>
    BY <2>1 DEF LogInv
  <2> QED BY <1>1, <1>3, <2>1, <2>2 DEF LogMoves
<1>7. ASSUME NEW k \in Keys, row'[k[2]] = "none" PROVE log'[k] = <<>>
  <2>1. k[2] \in Channels
    BY DEF Keys
  <2>2. CASE row[k[2]] = "none"
    <3>1. log[k] = <<>>
      BY <2>2 DEF LogInv
    <3> QED BY <1>1, <1>3, <1>7, <3>1 DEF LogMoves
  <2>3. CASE row[k[2]] # "none"
    BY <1>1, <1>7, <2>1, <2>3 DEF LogMoves
  <2> QED BY <2>2, <2>3
<1>8. ASSUME NEW k \in Keys, log'[k] = <<"DELIVERED">> PROVE copies'[k] >= 1
  <2>1. CASE log'[k] = log[k]
    <3>1. copies[k] >= 1 /\ copies[k] \in Nat /\ copies'[k] \in Nat /\ copies'[k] >= copies[k]
      BY <1>2, <1>8, <2>1 DEF LogInv
    <3> QED BY <3>1
  <2>2. CASE log'[k] = <<>>
    BY <1>8, <2>2
  <2> QED BY <1>1, <1>3, <1>8, <2>1, <2>2 DEF LogMoves
<1> QED BY <1>5, <1>6, <1>7, <1>8 DEF LogInv

-----------------------------------------------------------------------------
(* The log and the deliveries.                                             *)

\* What has been seen is not forgotten.
LEMMA SeenGrows == [Next]_vars => seen \subseteq seen'
<1> SUFFICES ASSUME [Next]_vars PROVE seen \subseteq seen'
  OBVIOUS
<1>2. CASE Tick \/ \E e \in Endpoints : Cycle(e)
  BY <1>2 DEF Tick, Cycle, Announce, Commit, Rollback, Upset, faults
<1>3. ASSUME NEW c \in causes, CauseStep(c) \/ CauseFails(c) PROVE seen \subseteq seen'
  BY <1>3 DEF CauseStep, RcaPublish, RcaCommit, RecoveryUpdate, RecoveryCommit, CauseFails, Upset, faults
<1>4. CASE Notice \/ Receive \/ Lose \/ Toggle
  BY <1>4 DEF Notice, Receive, Lose, Toggle, Upset, faults
<1>5. CASE \E ch \in Channels : Update(ch) \/ Delete(ch)
  BY <1>5 DEF Update, Delete, Upset
<1>6. CASE Outage("error") \/ Outage("timeout") \/ Restored
  BY <1>6 DEF Outage, Restored, Upset, faults
<1>7. CASE \E t \in tasks : TaskStep(t) \/ NoChannels(t)
  BY <1>7 DEF TaskStep, Off, Throttle, Load, Enter, Cut, Evaluate, Fan, NoChannels, Upset, faults
<1>8. CASE \E s \in sends : Attempt(s)
  BY <1>8 DEF Attempt, Deliver, Reject, Error, Timeout, LogFails, Upset, faults
<1>9. CASE Done \/ UNCHANGED vars
  BY <1>9 DEF Done, vars, faults
<1> QED BY <1>2, <1>3, <1>4, <1>5, <1>6, <1>7, <1>8, <1>9 DEF Next, Attempt, Cycle

\* A provider whose answers are late makes itself seen.
LEMMA OutagesAreSeen ==
  ASSUME [Next]_vars
  PROVE  provider' = provider \/ provider' \in seen' \/ provider' = "ok"
<1>1. CASE Tick \/ \E e \in Endpoints : Cycle(e)
  BY <1>1 DEF Tick, Cycle, Announce, Commit, Rollback, outside
<1>2. CASE \E c \in causes : CauseStep(c) \/ CauseFails(c)
  BY <1>2 DEF CauseStep, CauseFails, RcaPublish, RcaCommit, RecoveryUpdate, RecoveryCommit, outside
<1>3. CASE Notice \/ Receive \/ Lose \/ Toggle
  BY <1>3 DEF Notice, Receive, Lose, Toggle, outside
<1>4. CASE \E ch \in Channels : Update(ch) \/ Delete(ch)
  BY <1>4 DEF Update, Delete, Put
<1>5. CASE Outage("error") \/ Outage("timeout") \/ Restored
  BY <1>5 DEF Outage, Restored, Upset
<1>6. CASE \E t \in tasks : TaskStep(t) \/ NoChannels(t)
  BY <1>6 DEF TaskStep, Off, Throttle, Load, Enter, Cut, Evaluate, Fan, NoChannels, outside
<1>7. CASE \E s \in sends : Attempt(s)
  BY <1>7 DEF Attempt, Deliver, Reject, Error, Timeout, LogFails, outside
<1>8. CASE Done \/ UNCHANGED vars
  BY <1>8 DEF Done, vars, outside
<1> QED BY <1>1, <1>2, <1>3, <1>4, <1>5, <1>6, <1>7, <1>8 DEF Next, Attempt, Cycle

\* Second copies come from late answers only.
CopyInv ==
  /\ provider = "timeout" => "timeout" \in seen
  /\ "timeout" \notin seen => \A k \in Keys : copies[k] <= 1 /\ (k \in Open => copies[k] = 0)
  /\ \A k \in Keys : born[k[1]] = <<>> => copies[k] = 0

LEMMA CopyInvStep ==
  ASSUME Sound, LogTypes, CopyInv, [Next]_vars
  PROVE  CopyInv'
<1>1. /\ \A k \in Keys : copies[k] \in Nat /\ copies'[k] \in Nat
      /\ \A k \in Keys : \/ copies'[k] = copies[k]
                         \/ /\ copies'[k] = copies[k] + 1 /\ k \in Open /\ born[k[1]] # <<>>
                            /\ provider = "timeout" \/ k \notin Open'
  BY CopyStep DEF LogTypes
<1>2. provider' = "timeout" => "timeout" \in seen'
  BY SeenGrows, OutagesAreSeen DEF CopyInv
<1>3. Open' \subseteq Open
  BY LogStep DEF LogMoves
<1>4. ASSUME "timeout" \notin seen', NEW k \in Keys
      PROVE  copies'[k] <= 1 /\ (k \in Open' => copies'[k] = 0)
  <2>1. "timeout" \notin seen /\ provider # "timeout"
    BY <1>4, SeenGrows DEF CopyInv
  <2>2. copies[k] <= 1 /\ (k \in Open => copies[k] = 0)
    BY <2>1 DEF CopyInv
  <2>3. CASE copies'[k] = copies[k]
    BY <1>3, <2>2, <2>3
  <2>4. CASE copies'[k] = copies[k] + 1 /\ k \in Open /\ k \notin Open'
    BY <2>2, <2>4
  <2> QED BY <1>1, <2>1, <2>3, <2>4
<1>5. ASSUME NEW k \in Keys, born'[k[1]] = <<>> PROVE copies'[k] = 0
  <2>1. born[k[1]] = <<>>
    <3>1. CASE Receive
      <4>1. events[1] \in EventType
            /\ \E b \in Births : born' = [born EXCEPT ![events[1].n] = b]
        BY <3>1, Receives DEF Sound, Types, EngineTypes
      <4>2. PICK v \in EventType, b \in Births : born' = [born EXCEPT ![v.n] = b]
        BY <4>1
      <4>3. k[1] \in Ns /\ v.n \in Ns /\ b # <<>>
        BY DEF Keys, EventType, Births
      <4> QED BY <1>5, <4>2, <4>3 DEF Sound, Types, WorkTypes
    <3>2. CASE ~Receive
      BY <1>5, <3>2, BornKept
    <3> QED BY <3>1, <3>2
  <2> QED BY <1>1, <2>1 DEF CopyInv
<1> QED BY <1>2, <1>4, <1>5 DEF CopyInv

\* A delivery goes on, or begins with a task that fans out.
LEMMA SendsMove ==
  ASSUME Sound, [Next]_vars, NEW o \in sends'
  PROVE  \/ \E s \in sends : /\ o.n = s.n /\ o.ch = s.ch /\ o.ep = s.ep /\ o.state = s.state
                             /\ o.ts = s.ts
         \/ \E t \in tasks : Fan(t) /\ o \in New(t)
<1>1. CASE sends' = sends
  BY <1>1
<1>2. CASE Aside
  BY <1>1, <1>2, AsideKeeps
<1>3. CASE Receive \/ \E ch \in Channels : Update(ch) \/ Delete(ch)
  BY <1>1, <1>3 DEF Receive, Update, Delete, Put
<1>4. ASSUME NEW t \in tasks, TaskStep(t) \/ NoChannels(t)
      PROVE  sends' = sends \/ (Fan(t) /\ sends' = sends \cup New(t))
  BY <1>4, Fans DEF TaskStep, Off, Throttle, Load, Enter, Cut, Evaluate, NoChannels
<1>5. ASSUME NEW s \in sends, Attempt(s)
      PROVE  \E x \in sends : /\ o.n = x.n /\ o.ch = x.ch /\ o.ep = x.ep /\ o.state = x.state
                              /\ o.ts = x.ts
  <2>1. s \in SendType /\ (Again(s) \/ Ends(s))
    BY <1>5, AttemptIs DEF Sound, Types, WorkTypes
  <2>2. o \in sends \/ o = [s EXCEPT !.tries = @ + 1]
    BY <2>1 DEF Again, Ends
  <2>3. CASE o = [s EXCEPT !.tries = @ + 1]
    BY <2>1, <2>3 DEF SendType
  <2> QED BY <2>2, <2>3
<1> QED BY <1>1, <1>2, <1>3, <1>4, <1>5, StepsAre

\* Entries are to be written for channels that were loaded.
LEMMA EntriesMove ==
  ASSUME [Next]_vars, NEW k \in entries'
  PROVE  k \in entries \/ k[2] \in InUse
<1>1. CASE Aside \/ \E ch \in Channels : Update(ch) \/ Delete(ch)
  BY <1>1, AsideKeeps DEF Update, Delete, Put, muted
<1>2. CASE Receive
  BY <1>2 DEF Receive, muted
<1>3. ASSUME NEW t \in tasks, TaskStep(t) \/ NoChannels(t) PROVE k \in entries \/ k[2] \in InUse
  <2>1. CASE Load(t)
    BY <2>1, Loads
  <2>2. CASE \E ch \in Channels : Enter(t, ch) \/ Cut(t, ch)
    BY <2>2, Writing
  <2>3. CASE Off(t) \/ NoChannels(t) \/ Throttle(t) \/ Evaluate(t) \/ Fan(t)
    BY <2>3, Drops, Evaluates, Fans
  <2> QED BY <1>3, <2>1, <2>2, <2>3 DEF TaskStep
<1>4. CASE \E s \in sends : Attempt(s)
  BY <1>4, AttemptIs
<1> QED BY <1>1, <1>2, <1>3, <1>4, StepsAre

\* No channel is switched on unseen.
LEMMA RowMoves ==
  ASSUME ChannelTypes, [Next]_vars, NEW ch \in Channels, row'[ch] = "on"
  PROVE  row[ch] = "on" \/ "switch on" \in seen'
<1>1. CASE Aside
  BY <1>1, AsideKeeps
<1>2. ASSUME NEW c \in Channels, Update(c) \/ Delete(c)
      PROVE  row[ch] = "on" \/ "switch on" \in seen'
  <2>1. \/ row' = [row EXCEPT ![c] = "off"] \/ row' = [row EXCEPT ![c] = "none"]
        \/ "switch on" \in seen'
    BY <1>2 DEF Update, Delete, Put, Upset
  <2> QED BY <2>1 DEF ChannelTypes
<1>3. CASE Receive
  BY <1>3 DEF Receive, outside
<1>4. CASE \E t \in tasks : TaskStep(t) \/ NoChannels(t)
  BY <1>4 DEF TaskStep, Off, Throttle, Load, Enter, Cut, Evaluate, Fan, NoChannels, outside
<1>5. CASE \E s \in sends : Attempt(s)
  BY <1>5, AttemptIs
<1> QED BY <1>1, <1>2, <1>3, <1>4, <1>5, StepsAre

\* A channel that was not on when an event was received has no part in it.
Switched ==
  "switch on" \notin seen =>
    \A k \in Keys : born[k[1]] # <<>> /\ k[2] \in born[k[1]][4] =>
      /\ row[k[2]] # "on" /\ copies[k] = 0 /\ log[k] = <<>> /\ k \notin entries
      /\ \A s \in sends : ~(s.n = k[1] /\ s.ch = k[2])

LEMMA SwitchedStep ==
  ASSUME Sound, LogInv, CopyInv, Switched, [Next]_vars
  PROVE  Switched'
<1> SUFFICES ASSUME "switch on" \notin seen', NEW k \in Keys,
                    born'[k[1]] # <<>>, k[2] \in born'[k[1]][4]
             PROVE  /\ row'[k[2]] # "on" /\ copies'[k] = 0 /\ log'[k] = <<>> /\ k \notin entries'
                    /\ \A s \in sends' : ~(s.n = k[1] /\ s.ch = k[2])
  BY DEF Switched
<1>0. k[1] \in Ns /\ k[2] \in Channels /\ "switch on" \notin seen
  BY SeenGrows DEF Keys
<1>1. CASE Receive /\ k[1] = events[1].n
  <2>1. /\ events[1] \in EventType /\ events # <<>>
        /\ born' = [born EXCEPT ![events[1].n] =
                      <<events[1].ep, events[1].state, now, {ch \in Channels : row[ch] # "on"}>>]
        /\ UNCHANGED <<row, sends, entries, log, copies>>
    BY <1>1, Receives DEF Sound, Types, EngineTypes
  <2>2. born'[k[1]][4] = {ch \in Channels : row[ch] # "on"}
    BY <1>0, <1>1, <2>1 DEF Sound, Types, WorkTypes
  <2>3. born[k[1]] = <<>>
    <3>2. 1 \in DOMAIN events
      BY <2>1, FirstEvent DEF Sound, Types
    <3> QED BY <1>1, <3>2 DEF Sound, EventNumbers
  <2>4. k \in Open
    BY <2>3 DEF Open
  <2>5. copies[k] = 0 /\ log[k] = <<>>
    BY <2>3, <2>4 DEF CopyInv, LogInv
  <2>6. (\A s \in sends : s.n # k[1]) /\ k \notin entries
    BY <2>3 DEF Sound, WorkNumbers, About
  <2> QED BY <2>1, <2>2, <2>5, <2>6
<1>2. CASE ~(Receive /\ k[1] = events[1].n)
  <2>1. born'[k[1]] = born[k[1]]
    <3>1. CASE Receive
      <4>1. \E b \in Births : born' = [born EXCEPT ![events[1].n] = b]
        BY <3>1, Receives DEF Sound, Types, EngineTypes
      <4> QED BY <1>0, <1>2, <3>1, <4>1 DEF Sound, Types, WorkTypes
    <3> QED BY <3>1, BornKept
  <2>2. /\ row[k[2]] # "on" /\ copies[k] = 0 /\ log[k] = <<>> /\ k \notin entries
        /\ \A s \in sends : ~(s.n = k[1] /\ s.ch = k[2])
    BY <1>0, <2>1 DEF Switched
  <2>3. k[2] \notin InUse
    BY <2>2 DEF InUse
  <2>4. row'[k[2]] # "on"
    BY <1>0, <2>2, RowMoves DEF Sound, Types
  <2>5. copies'[k] = 0
    BY <2>2, CopyStep DEF LogInv
  <2>6. log'[k] = <<>>
    <3>1. ~Writes(k)
      BY <2>2, <2>3 DEF Writes
    <3>2. LogMoves
      BY LogStep DEF LogInv
    <3> QED BY <2>2, <3>1, <3>2 DEF LogMoves
  <2>7. \A s \in sends' : ~(s.n = k[1] /\ s.ch = k[2])
    <3> SUFFICES ASSUME NEW s \in sends', s.n = k[1], s.ch = k[2] PROVE FALSE
      OBVIOUS
    <3>1. PICK t \in tasks : Fan(t) /\ s \in New(t)
      BY <2>2, SendsMove
    <3>2. t \in TaskType
      BY DEF Sound, Types, WorkTypes
    <3>3. s.ch \in InUse
      BY <3>1, <3>2, NewIs
    <3> QED BY <2>3, <3>3
  <2>8. k \notin entries'
    BY <2>2, <2>3, EntriesMove
  <2> QED BY <2>4, <2>5, <2>6, <2>7, <2>8
<1> QED BY <1>1, <1>2

\* At the start nothing has been received.
LEMMA InitSound == Init => Sound /\ LogInv /\ CopyInv /\ Switched
<1> SUFFICES ASSUME Init PROVE Sound /\ LogInv /\ CopyInv /\ Switched
  OBVIOUS
<1> USE DispatcherAssumption
<1>1. EngineTypes /\ QueueTypes /\ ChannelTypes
  BY DEF Init, EngineTypes, QueueTypes, ChannelTypes, States
<1>2. CacheTypes
  <2>1. NoOne \in MutingType
    BY DEF NoOne, MutingType
  <2>2. suppressed = [e \in Endpoints |-> NoOne] /\ -1 \in Int
        /\ limits = [k \in Channels \X Endpoints \X States |-> -1]
    BY DEF Init
  <2> HIDE DEF NoOne
  <2> QED BY <2>1, <2>2 DEF CacheTypes
<1>3. WorkTypes
  BY DEF Init, WorkTypes
<1>4. \A n \in Ns : born[n] = <<>>
  BY DEF Init
<1>5. events = <<>> /\ tasks = {} /\ sends = {} /\ entries = {}
  BY DEF Init
<1>6. EventNumbers
  BY <1>4, <1>5 DEF EventNumbers
<1>7. WorkNumbers
  BY <1>5 DEF WorkNumbers
<1>8. LogTypes /\ \A k \in Keys : log[k] = <<>> /\ copies[k] = 0
  BY DEF Init, LogTypes, Keys
<1>9. LogInv
  <2>1. \A k \in Keys : log[k] # <<"DELIVERED">>
    <3>1. <<>> # <<"DELIVERED">>
      OBVIOUS
    <3> QED BY <1>8, <3>1
  <2> QED BY <1>8, <2>1 DEF LogInv, Open
<1>10. CopyInv
  <2>1. provider = "ok"
    BY DEF Init
  <2> QED BY <1>8, <2>1 DEF CopyInv
<1>11. Switched
  <2>1. \A k \in Keys : k[1] \in Ns
    BY DEF Keys
  <2> QED BY <1>4, <2>1 DEF Switched
<1> QED BY <1>1, <1>2, <1>3, <1>6, <1>7, <1>9, <1>10, <1>11 DEF Sound, Types

LEMMA SoundStep ==
  ASSUME Sound, [Next]_vars
  PROVE  Sound'
<1>1. CacheTypes'
  BY CacheStep DEF Sound, Types, EngineTypes
<1> QED BY <1>1, EngineStep, QueueStep, ChannelStep, WorkTypesStep, EventNumbersStep,
           WorkNumbersStep DEF Sound, Types

\* The delivery log has at most one entry per event and channel and none of a deleted
\* one, calls nothing delivered that the provider has not accepted, and a channel that
\* is off gets nothing, through retries, outages, late answers and acts of administration
\* in the midst of deliveries.
THEOREM TheLogTellsDeliveries == Spec => []LogTellsDeliveries
<1> DEFINE I == Sound /\ LogInv /\ CopyInv /\ Switched
<1>1. I /\ [Next]_vars => I'
  BY SoundStep, LogInvStep, CopyInvStep, SwitchedStep DEF LogInv
<1>2. I => LogTellsDeliveries
  <2> SUFFICES ASSUME I, NEW k \in Keys
               PROVE  /\ Len(log[k]) <= 1 /\ (row[k[2]] = "none" => log[k] = <<>>)
                      /\ log[k] = <<"DELIVERED">> => copies[k] >= 1
                      /\ copies[k] > 1 => "timeout" \in seen
                      /\ (born[k[1]] # <<>> /\ k[2] \in born[k[1]][4] /\ "switch on" \notin seen)
                           => copies[k] = 0 /\ log[k] = <<>>
    BY DEF LogTellsDeliveries, Keys
  <2>1. Len(log[k]) <= 1
    <3>1. log[k] \in {<<>>, <<"THROTTLED">>, <<"DELIVERED">>, <<"FAILED">>}
      BY DEF LogInv, LogTypes
    <3>2. /\ Len(<<>>) <= 1 /\ Len(<<"THROTTLED">>) <= 1 /\ Len(<<"DELIVERED">>) <= 1
          /\ Len(<<"FAILED">>) <= 1
      OBVIOUS
    <3> QED BY <3>1, <3>2
  <2>2. copies[k] > 1 => "timeout" \in seen
    <3>1. copies[k] \in Nat
      BY DEF LogInv, LogTypes
    <3> QED BY <3>1 DEF CopyInv
  <2> QED BY <2>1, <2>2 DEF LogInv, Switched
<1> QED BY <1>1, <1>2, InitSound, PTL DEF Spec

-----------------------------------------------------------------------------
(* Every change is logged.                                                 *)

Faults == {"lost event", "toggle", "no channels", "no log", "switch on"}

\* There is an entry, or one may still come, or was given up.
Covered(k) == k \in Open \/ log[k] # <<>> \/ k \in cut

Wants(k) == <<born[k[1]][1], born[k[1]][2]>> \in Wanted[k[2]]

Complete ==
  seen \cap Faults = {} =>
    /\ enabled
    /\ \A k \in Keys : k[1] \in 1..changes /\ k[2] \in InUse =>
         \/ \E i \in DOMAIN events : events[i].n = k[1]
         \/ born[k[1]] # <<>> /\ (Wants(k) => Covered(k))

\* What Logged writes about a channel that has a row.
LEMMA LoggedKeys ==
  ASSUME LogInv, NEW t, NEW chs, NEW status, Logged(t, chs, status),
         NEW k \in Open, k[1] = t.n, k[2] \in chs, row[k[2]] # "none"
  PROVE  log'[k] # <<>>
<1>1. k \in DOMAIN log /\ log[k] = <<>>
  BY DEF LogInv, LogTypes, Open
<1>2. log'[k] = Append(<<>>, status)
  BY <1>1 DEF Logged
<1>3. Append(<<>>, status) # <<>>
  OBVIOUS
<1> QED BY <1>2, <1>3

\* An entry that is there stays while its channel does.
LEMMA EntriesStay ==
  ASSUME Sound, LogInv, [Next]_vars, NEW k \in Keys, log[k] # <<>>, row'[k[2]] # "none"
  PROVE  log'[k] = log[k]
<1>1. k \notin Open
  BY DEF LogInv
<1> QED BY <1>1, LogStep DEF LogMoves, Writes, LogInv

\* A key that an event waits for is not closed without an entry.
LEMMA TaskCovers ==
  ASSUME Sound, LogInv, Complete, [Next]_vars, seen' \cap Faults = {},
         NEW k \in Keys, k \in Open, born[k[1]] # <<>>, Wants(k), k[2] \in InUse, k[2] \in InUse',
         NEW t \in tasks, TaskStep(t) \/ NoChannels(t)
  PROVE  Covered(k)'
<1>0. /\ t \in TaskType /\ seen \cap Faults = {} /\ enabled /\ born' = born
      /\ row[k[2]] = "on" /\ k[2] \in Channels
  BY SeenGrows, BornKept DEF Sound, Types, WorkTypes, Complete, InUse, TaskStep, Off, Throttle,
                             Load, Enter, Cut, Evaluate, Fan, NoChannels, audit
<1>1. /\ t.pc \in Pending => \A s \in sends : s.n # t.n
      /\ \A s \in sends : s.n = t.n => t.pc = "sending"
      /\ \A x \in entries : x[1] = t.n => t.pc = "logging"
      /\ \A u \in tasks : u.n = t.n => u = t
      /\ born[t.n] # <<>>
  BY OneStage DEF Sound
<1>2. ~Off(t) /\ ~NoChannels(t)
  BY <1>0, SeenGrows DEF Off, NoChannels, Upset, Faults
<1>3. ASSUME k[1] # t.n, sends \subseteq sends', tasks \ {t} \subseteq tasks',
             \A x \in entries : x[1] # t.n => x \in entries'
      PROVE  k \in Open'
  BY <1>0, <1>3 DEF Open
<1>4. CASE Load(t)
  <2>1. /\ tasks \ {t} \subseteq tasks' /\ sends' = sends
        /\ entries' = entries \cup ({t.n} \X InUse)
    BY <1>4, Loads
  <2>2. CASE k[1] = t.n
    <3>1. k = <<k[1], k[2]>>
      BY DEF Keys
    <3>2. k \in entries'
      BY <2>1, <2>2, <3>1
    <3> QED BY <3>2 DEF Covered, Open
  <2> QED BY <1>3, <2>1, <2>2 DEF Covered
<1>7. ASSUME NEW ch \in Channels, Enter(t, ch) \/ Cut(t, ch) PROVE Covered(k)'
  <2>1. /\ t.pc = "logging" /\ sends' = sends /\ tasks \ {t} \subseteq tasks'
        /\ \/ /\ entries' = entries \ {<<t.n, ch>>} /\ row[ch] # "none"
              /\ Logged(t, {ch}, "THROTTLED")
           \/ entries' = entries \ EntriesOf(t) /\ EntriesOf(t) \subseteq cut'
    BY <1>7, Writing
  <2>2. CASE k[1] # t.n
    <3>1. \A x \in entries : x[1] # t.n => x \in entries'
      BY <2>1 DEF EntriesOf
    <3> QED BY <1>3, <2>1, <2>2, <3>1 DEF Covered
  <2>3. CASE k[1] = t.n
    <3>1. k \in entries
      <4>1. \A u \in tasks : u.n = k[1] => u.pc \notin Pending
        BY <1>1, <2>1, <2>3 DEF Pending
      <4>2. \A s \in sends : s.n # k[1]
        BY <1>1, <2>1, <2>3
      <4> QED BY <4>1, <4>2 DEF Open
    <3>2. CASE entries' = entries \ EntriesOf(t) /\ EntriesOf(t) \subseteq cut'
      BY <2>3, <3>1, <3>2 DEF EntriesOf, Covered
    <3>3. CASE k[2] # ch /\ entries' = entries \ {<<t.n, ch>>}
      BY <3>1, <3>3 DEF Covered, Open
    <3>4. CASE k[2] = ch /\ row[ch] # "none" /\ Logged(t, {ch}, "THROTTLED")
      <4>1. log'[k] # <<>>
        BY <2>3, <3>4, LoggedKeys
      <4> QED BY <4>1 DEF Covered
    <3> QED BY <2>1, <3>2, <3>3, <3>4
  <2> QED BY <2>2, <2>3
<1>5. CASE Throttle(t) \/ Evaluate(t)
  <2>1. PICK pc \in {"muted", "flapping", "steady"} :
          tasks' = (tasks \ {t}) \cup {[t EXCEPT !.pc = pc]}
    BY <1>5, Evaluates
  <2>2. LET u == [t EXCEPT !.pc = pc] IN u.n = t.n /\ u.pc = pc
    BY <1>0, TaskMoves DEF Stages, Pending
  <2>3. k[1] = t.n => k \in Open'
    BY <2>1, <2>2 DEF Open, Pending
  <2>4. sends' = sends /\ entries' = entries
    BY <1>5, Evaluates
  <2> QED BY <1>3, <2>1, <2>3, <2>4 DEF Covered
<1>6. CASE Fan(t)
  <2>1. /\ Logged(t, Held(t), "THROTTLED") /\ sends' = sends \cup New(t)
        /\ tasks \ {t} \subseteq tasks' /\ entries' = entries
    BY <1>6, Fans
  <2>2. CASE k[1] = t.n
    <3>1. k[2] \in Takers(t)
      <4>1. born[t.n][1] = t.ep /\ born[t.n][2] = t.state
        BY DEF Sound, WorkNumbers, About
      <4> QED BY <2>2, <4>1 DEF Wants, Takers, InUse
    <3>2. CASE k[2] \in Held(t)
      <4>1. log'[k] # <<>>
        BY <1>0, <2>1, <2>2, <3>2, LoggedKeys
      <4> QED BY <4>1 DEF Covered
    <3>3. CASE k[2] \notin Held(t)
      <4>1. PICK s \in New(t) : s.ch = k[2]
        BY <1>0, <3>1, <3>3, NewIs
      <4>2. s.n = k[1]
        BY <1>0, <2>2, <4>1, NewIs
      <4>3. k \in Open'
        BY <2>1, <4>1, <4>2 DEF Open
      <4> QED BY <4>3 DEF Covered
    <3> QED BY <3>2, <3>3
  <2> QED BY <1>3, <2>1, <2>2 DEF Covered
<1> QED BY <1>2, <1>4, <1>5, <1>6, <1>7 DEF TaskStep

LEMMA SendCovers ==
  ASSUME Sound, LogInv, seen' \cap Faults = {},
         NEW k \in Keys, k \in Open, born[k[1]] # <<>>, k[2] \in InUse,
         NEW s \in sends, Attempt(s)
  PROVE  Covered(k)'
<1>0. /\ s \in SendType /\ born' = born /\ entries' = entries /\ row[k[2]] = "on"
      /\ Again(s) \/ Ends(s)
  BY AttemptIs DEF Sound, Types, WorkTypes, InUse
<1>1. ASSUME NEW o \in sends', o.n = k[1], o.ch = k[2] PROVE Covered(k)'
  BY <1>1 DEF Covered, Open
<1>2. CASE \E t \in tasks : t.pc \in Pending /\ t.n = k[1]
  <2>1. PICK t \in tasks : t.pc \in Pending /\ t.n = k[1]
    BY <1>2
  <2>2. s.n # t.n
    BY <2>1, OneStage DEF Sound
  <2>3. t \in tasks'
    BY <1>0, <2>1, <2>2 DEF Again, Ends
  <2> QED BY <2>1, <2>3 DEF Covered, Open
<1>3. ASSUME NEW o \in sends, o.n = k[1], o.ch = k[2] PROVE Covered(k)'
  <2>1. CASE o # s
    BY <1>0, <1>1, <1>3, <2>1 DEF Again, Ends
  <2>2. CASE o = s /\ Again(s)
    <3>1. [s EXCEPT !.tries = @ + 1].n = s.n /\ [s EXCEPT !.tries = @ + 1].ch = s.ch
      BY <1>0 DEF SendType
    <3> QED BY <1>1, <1>3, <2>2, <3>1 DEF Again
  <2>3. CASE o = s /\ Ends(s)
    <3>1. \E status \in {"DELIVERED", "FAILED"} : Logged(s, {s.ch}, status)
      BY <2>3 DEF Ends, Faults
    <3>2. log'[k] # <<>>
      BY <1>0, <1>3, <2>3, <3>1, LoggedKeys
    <3> QED BY <3>2 DEF Covered
  <2> QED BY <1>0, <2>1, <2>2, <2>3
<1>4. CASE k \in entries
  BY <1>0, <1>4 DEF Covered, Open
<1> QED BY <1>2, <1>3, <1>4 DEF Open

\* Only the administrator turns alerting off.
LEMMA StaysEnabled ==
  ASSUME [Next]_vars, "toggle" \notin seen'
  PROVE  enabled' = enabled
<1>1. CASE Tick \/ \E e \in Endpoints : Cycle(e)
  BY <1>1 DEF Tick, Cycle, Announce, Commit, Rollback, outside
<1>2. CASE \E c \in causes : CauseStep(c) \/ CauseFails(c)
  BY <1>2 DEF CauseStep, CauseFails, RcaPublish, RcaCommit, RecoveryUpdate, RecoveryCommit, outside
<1>3. CASE Notice \/ Lose \/ Receive
  BY <1>3 DEF Notice, Lose, Receive, outside
<1>4. ~Toggle
  BY DEF Toggle, Upset
<1>5. CASE Outage("error") \/ Outage("timeout") \/ Restored
  BY <1>5 DEF Outage, Restored
<1>6. CASE Done \/ UNCHANGED vars
  BY <1>6 DEF Done, vars, outside
<1>7. CASE \E ch \in Channels : Update(ch) \/ Delete(ch)
  BY <1>7 DEF Update, Delete, Put
<1>8. CASE \E t \in tasks : TaskStep(t) \/ NoChannels(t)
  BY <1>8 DEF TaskStep, Off, Throttle, Load, Enter, Cut, Evaluate, Fan, NoChannels, outside
<1>9. CASE \E s \in sends : Attempt(s)
  BY <1>9 DEF Attempt, Deliver, Reject, Error, Timeout, LogFails, outside
<1> QED BY <1>1, <1>2, <1>3, <1>4, <1>5, <1>6, <1>7, <1>8, <1>9 DEF Next, Attempt, Cycle

\* What was given up stays given up.
LEMMA CutGrows == [Next]_vars => cut \subseteq cut'
<1> SUFFICES ASSUME [Next]_vars PROVE cut \subseteq cut'
  OBVIOUS
<1>1. CASE Receive \/ \E ch \in Channels : Update(ch) \/ Delete(ch)
  BY <1>1 DEF Receive, Update, Delete, Put, muted
<1>2. ASSUME NEW t \in tasks, TaskStep(t) \/ NoChannels(t) PROVE cut \subseteq cut'
  BY <1>2, Fans, Drops, Evaluates, Loads, Writing DEF TaskStep
<1>3. CASE \E s \in sends : Attempt(s)
  BY <1>3, AttemptIs
<1> QED BY <1>1, <1>2, <1>3, AsideKeeps, StepsAre

Waits(n) == \E i \in DOMAIN events : events[i].n = n

\* A change leaves the queue when it is received, or lost.
LEMMA WaitsStay ==
  ASSUME Sound, [Next]_vars, seen' \cap Faults = {}, NEW n, Waits(n)
  PROVE  Waits(n)' \/ (Receive /\ n = events[1].n)
<1>0. events \in Seq(EventType)
  BY DEF Sound, Types, QueueTypes
<1>1. PICK i \in DOMAIN events : events[i].n = n
  BY DEF Waits
<1>2. CASE events' = events
  BY <1>1, <1>2 DEF Waits
<1>3. ASSUME NEW v \in EventType, events' = Append(events, v) PROVE Waits(n)'
  <2>1. i \in DOMAIN events' /\ events'[i] = events[i]
    BY <1>0, <1>1, <1>3
  <2> QED BY <1>1, <2>1 DEF Waits
<1>4. CASE Receive
  <2>1. events # <<>> /\ events' = Tail(events)
    BY <1>4, Receives DEF Sound, Types, EngineTypes
  <2>2. CASE i # 1
    <3>1. i - 1 \in DOMAIN events' /\ events'[i - 1] = events[i]
      BY <1>0, <1>1, <2>1, <2>2
    <3> QED BY <1>1, <3>1 DEF Waits
  <2> QED BY <1>1, <1>4, <2>2
<1>5. CASE Aside
  <2>1. CASE Lose
    <3>1. "lost event" \in seen'
      BY <2>1 DEF Lose, Upset
    <3> QED BY <3>1 DEF Faults
  <2>4. CASE \E e \in Endpoints : Commit(e) \/ Rollback(e)
    BY <1>2, <2>4 DEF Commit, Rollback
  <2>2. CASE \E e \in Endpoints : Announce(e)
    <3>1. changes' = changes + 1 /\ changes \in Nat
      BY <2>2 DEF Announce, Sound, Types, EngineTypes
    <3>2. changes' # changes
      BY <3>1
    <3> QED BY <1>2, <1>3, <1>5, <3>2, EventsMove DEF Sound
  <2>3. CASE Tick \/ (\E c \in causes : CauseStep(c) \/ CauseFails(c)) \/ Notice \/ Toggle
             \/ Outage("error") \/ Outage("timeout") \/ Restored \/ Done \/ UNCHANGED vars
    BY <1>2, <2>3 DEF Tick, CauseStep, CauseFails, RcaPublish, RcaCommit, RecoveryUpdate,
                      RecoveryCommit, Notice, Toggle, Outage, Restored, Done, vars
  <2> QED BY <1>5, <2>1, <2>2, <2>3, <2>4 DEF Aside, Cycle
<1>6. CASE \E ch \in Channels : Update(ch) \/ Delete(ch)
  BY <1>2, <1>6 DEF Update, Delete, Put
<1>7. CASE \E t \in tasks : TaskStep(t) \/ NoChannels(t)
  BY <1>2, <1>7 DEF TaskStep, Off, Throttle, Load, Enter, Cut, Evaluate, Fan, NoChannels
<1>8. CASE \E s \in sends : Attempt(s)
  BY <1>2, <1>8, AttemptIs
<1> QED BY <1>4, <1>5, <1>6, <1>7, <1>8, StepsAre

\* What is known of a change that was received stays.
LEMMA BornStays ==
  ASSUME Sound, [Next]_vars, NEW n \in Ns, born[n] # <<>>
  PROVE  born'[n] = born[n]
<1>1. CASE Receive
  <2>1. \E b \in Births : born' = [born EXCEPT ![events[1].n] = b]
    BY <1>1, Receives DEF Sound, Types, EngineTypes
  <2>2. born[events[1].n] = <<>>
    <3>1. events # <<>>
      BY <1>1, Receives DEF Sound, Types, EngineTypes
    <3>2. 1 \in DOMAIN events
      BY <3>1, FirstEvent DEF Sound, Types
    <3> QED BY <3>2 DEF Sound, EventNumbers
  <2> QED BY <2>1, <2>2 DEF Sound, Types, WorkTypes
<1> QED BY <1>1, BornKept

LEMMA CompleteStep ==
  ASSUME Sound, LogInv, Complete, [Next]_vars
  PROVE  Complete'
<1> SUFFICES ASSUME seen' \cap Faults = {} PROVE
      /\ enabled'
      /\ \A k \in Keys : k[1] \in 1..changes' /\ k[2] \in InUse' =>
           Waits(k[1])' \/ (born'[k[1]] # <<>> /\ (Wants(k)' => Covered(k)'))
  BY DEF Complete, Waits, Covered, Wants, Faults
<1>0. seen \cap Faults = {} /\ enabled
  BY SeenGrows DEF Complete
<1>1. enabled'
  BY <1>0, StaysEnabled DEF Faults
<1>2. ASSUME NEW k \in Keys, k[1] \in 1..changes', k[2] \in InUse'
      PROVE  Waits(k[1])' \/ (born'[k[1]] # <<>> /\ (Wants(k)' => Covered(k)'))
  <2>0. k[1] \in Ns /\ k[2] \in Channels /\ changes \in Nat
    BY DEF Keys, Sound, Types, EngineTypes
  <2>1. k[2] \in InUse
    BY <1>2, <2>0, RowMoves DEF InUse, Faults, Sound, Types
  <2>2. CASE k[1] \notin 1..changes
    <3>1. changes' # changes
      BY <1>2, <2>2
    <3>2. PICK v \in EventType : changes' = changes + 1 /\ v.n = changes' /\ events' = Append(events, v)
      BY <3>1, ChangesKept, EventsMove DEF Sound
    <3>3. k[1] = v.n
      BY <1>2, <2>0, <2>2, <3>2
    <3>4. events \in Seq(EventType)
      BY DEF Sound, Types, QueueTypes
    <3>5. Len(events) + 1 \in DOMAIN events' /\ events'[Len(events) + 1] = v
      BY <3>2, <3>4
    <3> QED BY <3>3, <3>5 DEF Waits
  <2>3. CASE Waits(k[1])
    <3>1. CASE Receive /\ k[1] = events[1].n
      <4>1. PICK b \in Births : born' = [born EXCEPT ![events[1].n] = b]
        BY <3>1, Receives DEF Sound, Types, EngineTypes
      <4>2. born'[k[1]] = b
        BY <2>0, <3>1, <4>1 DEF Sound, Types, WorkTypes
      <4>3. \A x \in Births : x # <<>>
        BY DEF Births
      <4>4. born'[k[1]] = b /\ b # <<>>
        BY <4>1, <4>2, <4>3
      <4>5. \E t \in tasks' : t.pc \in Pending /\ t.n = k[1]
        <5> DEFINE t == [n |-> events[1].n, ep |-> events[1].ep, state |-> events[1].state,
                         ts |-> now, pc |-> "toggle"]
        <5>1. tasks' = tasks \cup {t}
          BY <3>1, Receives DEF Sound, Types, EngineTypes
        <5>2. t.pc \in Pending /\ t.n = k[1]
          BY <3>1 DEF Pending
        <5> HIDE DEF t
        <5> QED BY <5>1, <5>2
      <4>6. k \in Open'
        BY <4>5 DEF Open
      <4> QED BY <4>4, <4>6 DEF Covered
    <3> QED BY <2>3, <3>1, WaitsStay
  <2>4. CASE born[k[1]] # <<>> /\ (Wants(k) => Covered(k))
    <3>1. born'[k[1]] = born[k[1]]
      BY <2>0, <2>4, BornStays
    <3>2. Wants(k)' = Wants(k)
      BY <3>1 DEF Wants
    <3>3. ASSUME Wants(k) PROVE Covered(k)'
      <4>1. CASE log[k] # <<>>
        <5>1. row'[k[2]] # "none"
          BY <1>2 DEF InUse
        <5> QED BY <4>1, <5>1, EntriesStay DEF Covered
      <4>3. CASE k \in cut
        BY <4>3, CutGrows DEF Covered
      <4>2. CASE k \in Open
        <5>1. ASSUME tasks \subseteq tasks', sends' = sends, entries' = entries PROVE Covered(k)'
          BY <2>4, <4>2, <5>1 DEF Covered, Open
        <5>2. CASE Aside
          BY <5>1, <5>2, AsideKeeps
        <5>3. CASE Receive
          <6>1. tasks \subseteq tasks' /\ sends' = sends /\ entries' = entries
            BY <5>3, Receives DEF Sound, Types, EngineTypes
          <6> QED BY <5>1, <6>1
        <5>4. CASE \E ch \in Channels : Update(ch) \/ Delete(ch)
          <6>1. UNCHANGED <<tasks, sends, entries>>
            BY <5>4 DEF Update, Delete, Put, muted
          <6> QED BY <5>1, <6>1
        <5>5. CASE \E t \in tasks : TaskStep(t) \/ NoChannels(t)
          BY <1>2, <2>1, <2>4, <3>3, <4>2, <5>5, TaskCovers
        <5>6. CASE \E s \in sends : Attempt(s)
          BY <2>1, <2>4, <4>2, <5>6, SendCovers
        <5> QED BY <5>2, <5>3, <5>4, <5>5, <5>6, StepsAre
      <4> QED BY <2>4, <3>3, <4>1, <4>2, <4>3 DEF Covered
    <3> QED BY <2>4, <3>1, <3>2, <3>3
  <2> QED BY <1>0, <2>1, <2>2, <2>3, <2>4 DEF Complete, Waits
<1> QED BY <1>1, <1>2

\* Every channel has an entry about each change that it wants once nothing is under way,
\* whether the alert was throttled, delivered or given up, for any number of changes,
\* channels and events dispatched at a time.
THEOREM EveryChangeLogged == Spec => []EveryChangeIsLogged
<1> DEFINE I == Sound /\ LogInv /\ CopyInv /\ Complete
<1>1. Init => Complete
  <2>1. ASSUME Init PROVE changes = 0 /\ enabled
    BY <2>1 DEF Init
  <2>2. 1..0 = {}
    OBVIOUS
  <2> QED BY <2>1, <2>2 DEF Complete
<1>2. I /\ [Next]_vars => I'
  BY SoundStep, LogInvStep, CopyInvStep, CompleteStep DEF LogInv
<1>3. I => EveryChangeIsLogged
  <2> SUFFICES ASSUME I, Quiet, seen \cap Faults = {}, NEW n \in 1..changes, NEW ch \in InUse,
                      <<born[n][1], born[n][2]>> \in Wanted[ch]
               PROVE  log[<<n, ch>>] # <<>> \/ <<n, ch>> \in cut
    BY DEF EveryChangeIsLogged, Faults
  <2> DEFINE k == <<n, ch>>
  <2>1. k \in Keys /\ k[1] = n /\ k[2] = ch
    BY DispatcherAssumption DEF Keys, Ns, InUse, Sound, Types, EngineTypes
  <2>2. events = <<>> /\ tasks = {} /\ DOMAIN <<>> = {}
    BY DEF Quiet
  <2>3. sends = {} /\ entries = {}
    BY <2>2 DEF Sound, WorkNumbers
  <2> HIDE DEF k
  <2>4. ~\E i \in DOMAIN events : events[i].n = k[1]
    BY <2>2
  <2>5. born[k[1]] # <<>> /\ (Wants(k) => Covered(k))
    BY <2>1, <2>4 DEF Complete
  <2>6. Wants(k)
    BY <2>1 DEF Wants
  <2>7. k \notin Open
    BY <2>2, <2>3, <2>5 DEF Open
  <2>8. log[k] # <<>> \/ k \in cut
    BY <2>5, <2>6, <2>7 DEF Covered
  <2> QED BY <2>8 DEF k
<1> QED BY <1>1, <1>2, <1>3, InitSound, PTL DEF Spec

-----------------------------------------------------------------------------
(* Alerts of a kind are spaced.  The limit on a kind reaches what was       *)
(* delivered, until it is so old that no event in time is near it.         *)

KindOf(k) == <<k[2], born[k[1]][1], born[k[1]][2]>>

When(k) == born[k[1]][3]

\* What was delivered, one at a time and in time.
Sent == {k \in Keys : log[k] = <<"DELIVERED">> /\ KindOf(k) \notin raced}

Kinds == Channels \X Endpoints \X States

Noticed ==
  /\ \A k \in Sent : limits[KindOf(k)] >= When(k) \/ When(k) < now - Keep
  /\ \A k \in Sent, s \in sends : Kind(s) = KindOf(k) => s.ts >= When(k) + RateWindow
  /\ \A s, o \in sends : Kind(s) = Kind(o) /\ Kind(s) \notin raced => s = o
  /\ \A j, k \in Sent : KindOf(j) = KindOf(k) /\ j # k =>
       When(j) >= When(k) + RateWindow \/ When(k) >= When(j) + RateWindow

\* A delivery is about what its event is about.
LEMMA SendIs ==
  ASSUME Sound, NEW s \in sends
  PROVE  /\ <<s.n, s.ch>> \in Keys /\ s.ts \in Nat /\ Kind(s) \in Kinds
         /\ KindOf(<<s.n, s.ch>>) = Kind(s) /\ When(<<s.n, s.ch>>) = s.ts
         /\ born[s.n] # <<>>
<1>1. s \in SendType
  BY DEF Sound, Types, WorkTypes
<1>2. born[s.n] # <<>> /\ born[s.n][1] = s.ep /\ born[s.n][2] = s.state /\ born[s.n][3] = s.ts
  BY DEF Sound, WorkNumbers, About
<1> QED BY <1>1, <1>2 DEF SendType, Keys, Kind, Kinds, KindOf, When

\* What was delivered had been received.
LEMMA DeliveredIs ==
  ASSUME Sound, LogInv, NEW k \in Keys, log[k] = <<"DELIVERED">>
  PROVE  born[k[1]] # <<>> /\ KindOf(k) \in Kinds /\ When(k) \in Nat /\ k \notin Open
<1>1. <<"DELIVERED">> # <<>>
  OBVIOUS
<1>2. k \notin Open
  BY <1>1 DEF LogInv
<1>3. k[1] \in Ns /\ k[2] \in Channels
  BY DEF Keys
<1>4. born[k[1]] # <<>>
  BY <1>2 DEF Open
<1>5. born[k[1]] \in Births
  BY <1>3, <1>4 DEF Sound, Types, WorkTypes
<1>6. born[k[1]][1] \in Endpoints /\ born[k[1]][2] \in States /\ born[k[1]][3] \in Nat
  BY <1>5 DEF Births
<1> QED BY <1>2, <1>3, <1>4, <1>6 DEF KindOf, Kinds, When

\* An entry about a delivery is written when the delivery ends, and the limit is set.
LEMMA Delivers ==
  ASSUME Sound, LogInv, [Next]_vars, NEW k \in Keys, log'[k] = <<"DELIVERED">>
  PROVE  \/ log[k] = <<"DELIVERED">>
         \/ \E s \in sends : k = <<s.n, s.ch>> /\ sends' = sends \ {s} /\ limits' = Noted(s)
<1> SUFFICES ASSUME log[k] # <<"DELIVERED">>
             PROVE  \E s \in sends : k = <<s.n, s.ch>> /\ sends' = sends \ {s} /\ limits' = Noted(s)
  OBVIOUS
<1>1. <<"DELIVERED">> # <<>> /\ \A v : Append(<<>>, v) = <<v>>
  OBVIOUS
<1>2. Writes(k)
  BY <1>1, LogStep DEF LogInv, LogMoves
<1>3. log[k] = <<>>
  BY <1>2 DEF Writes, LogInv
<1>4. PICK status \in {"THROTTLED", "DELIVERED", "FAILED"} :
        /\ log'[k] = Append(log[k], status)
        /\ status = "DELIVERED" =>
             \E s \in sends : s.n = k[1] /\ s.ch = k[2] /\ Accepted(s) /\ sends' = sends \ {s}
  BY <1>2 DEF Writes
<1>5. status = "DELIVERED"
  <2>1. <<status>> = <<"DELIVERED">>
    BY <1>1, <1>3, <1>4
  <2> QED BY <2>1
<1>6. PICK s \in sends : s.n = k[1] /\ s.ch = k[2] /\ sends' = sends \ {s}
  BY <1>4, <1>5
<1>7. k = <<s.n, s.ch>>
  BY <1>6 DEF Keys
<1>8. PICK o \in sends : Attempt(o)
  <2>1. ~Aside /\ ~Receive
    BY <1>6, AsideKeeps DEF Receive
  <2>2. ~\E ch \in Channels : Update(ch) \/ Delete(ch)
    BY <1>6 DEF Update, Delete, Put
  <2>3. ASSUME NEW t \in tasks, TaskStep(t) \/ NoChannels(t) PROVE FALSE
    <3>1. sends \subseteq sends'
      BY <2>3, Fans, Drops, Evaluates, Loads, Writing DEF TaskStep
    <3> QED BY <1>6, <3>1
  <2> QED BY <2>1, <2>2, <2>3, StepsAre
<1>9. ~Again(o)
  BY <1>3, <1>4, <1>5 DEF Again
<1>10. Ends(o)
  BY <1>8, <1>9, AttemptIs
<1>11. o = s
  BY <1>6, <1>10 DEF Ends
<1>12. limits' = Noted(s)
  <2>1. ASSUME Logged(s, {s.ch}, "FAILED") PROVE FALSE
    <3>1. log'[k] = log[k] \/ log'[k] = Append(log[k], "FAILED")
      BY <2>1, LoggedIs DEF LogInv
    <3>2. log'[k] = <<>> \/ log'[k] = <<"FAILED">>
      BY <1>1, <1>3, <3>1
    <3>3. <<"FAILED">> # <<"DELIVERED">>
      OBVIOUS
    <3> QED BY <1>1, <3>2, <3>3
  <2> QED BY <1>10, <1>11, <2>1 DEF Ends
<1> QED BY <1>6, <1>7, <1>12

LEMMA RacedGrows == [Next]_vars => raced \subseteq raced'
<1> SUFFICES ASSUME [Next]_vars PROVE raced \subseteq raced'
  OBVIOUS
<1>1. CASE Receive \/ \E ch \in Channels : Update(ch) \/ Delete(ch)
  BY <1>1 DEF Receive, Update, Delete, Put
<1>2. CASE \E t \in tasks : TaskStep(t) \/ NoChannels(t)
  BY <1>2, Fans, Drops, Evaluates, Loads, Writing DEF TaskStep
<1>3. CASE \E s \in sends : Attempt(s)
  BY <1>3, AttemptIs
<1> QED BY <1>1, <1>2, <1>3, AsideKeeps, StepsAre

\* What a step finds delivered was, or its delivery ends now.
LEMMA SentMoves ==
  ASSUME Sound, LogInv, [Next]_vars, NEW k \in Sent'
  PROVE  /\ KindOf(k)' = KindOf(k) /\ When(k)' = When(k) /\ KindOf(k) \notin raced
         /\ KindOf(k) \notin raced' /\ KindOf(k) \in Kinds /\ When(k) \in Nat
         /\ \/ k \in Sent
            \/ \E s \in sends : /\ k = <<s.n, s.ch>> /\ sends' = sends \ {s} /\ limits' = Noted(s)
                                /\ Kind(s) = KindOf(k) /\ s.ts = When(k)
<1>1. k \in Keys /\ log'[k] = <<"DELIVERED">> /\ KindOf(k)' \notin raced'
  BY DEF Sent
<1>2. \/ log[k] = <<"DELIVERED">>
      \/ \E s \in sends : k = <<s.n, s.ch>> /\ sends' = sends \ {s} /\ limits' = Noted(s)
  BY <1>1, Delivers
<1>3. born[k[1]] # <<>> /\ KindOf(k) \in Kinds /\ When(k) \in Nat
  <2>1. CASE log[k] = <<"DELIVERED">>
    BY <1>1, <2>1, DeliveredIs
  <2>2. CASE \E s \in sends : k = <<s.n, s.ch>>
    <3>1. PICK s \in sends : k = <<s.n, s.ch>>
      BY <2>2
    <3>2. k[1] = s.n
      BY <3>1
    <3> QED BY <3>1, <3>2, SendIs
  <2> QED BY <1>2, <2>1, <2>2
<1>4. born'[k[1]] = born[k[1]]
  BY <1>1, <1>3, BornStays DEF Keys
<1>5. KindOf(k)' = KindOf(k) /\ When(k)' = When(k)
  BY <1>4 DEF KindOf, When
<1>6. KindOf(k) \notin raced
  BY <1>1, <1>5, RacedGrows
<1>7. log[k] = <<"DELIVERED">> => k \in Sent
  BY <1>1, <1>6 DEF Sent
<1> QED BY <1>1, <1>2, <1>3, <1>5, <1>6, <1>7, SendIs

LEMMA TimePasses ==
  ASSUME now \in Nat, [Next]_vars
  PROVE  now' \in Nat /\ now' >= now
<1>1. now' = now \/ now' = now + 1
  <2>1. CASE Tick
    BY <2>1 DEF Tick
  <2>2. CASE (\E e \in Endpoints : Cycle(e)) \/ (\E c \in causes : CauseStep(c) \/ CauseFails(c))
    BY <2>2 DEF Cycle, Announce, Commit, Rollback, CauseStep, CauseFails, RcaPublish, RcaCommit,
                RecoveryUpdate, RecoveryCommit
  <2>3. CASE Notice \/ Lose \/ Toggle \/ Receive \/ Outage("error") \/ Outage("timeout") \/ Restored
    BY <2>3 DEF Notice, Lose, Toggle, Receive, Outage, Restored
  <2>4. CASE Done \/ UNCHANGED vars
    BY <2>4 DEF Done, vars
  <2>5. CASE \E ch \in Channels : Update(ch) \/ Delete(ch)
    BY <2>5 DEF Update, Delete, Put
  <2>6. CASE \E t \in tasks : TaskStep(t) \/ NoChannels(t)
    BY <2>6 DEF TaskStep, Off, Throttle, Load, Enter, Cut, Evaluate, Fan, NoChannels
  <2>7. CASE \E s \in sends : Attempt(s)
    BY <2>7, AttemptIs
  <2> QED BY <2>1, <2>2, <2>3, <2>4, <2>5, <2>6, <2>7, StepsAre DEF Aside
<1> QED BY <1>1

\* What of the limits a step leaves.
LEMMA LimitsMove ==
  ASSUME Sound, Noticed, [Next]_vars, NEW k \in Sent, KindOf(k) \in Kinds, When(k) \in Nat
  PROVE  limits'[KindOf(k)] >= When(k) \/ When(k) < now' - Keep
<1> USE DispatcherAssumption
<1>0. /\ now \in Nat /\ now' \in Nat /\ now' >= now
      /\ limits[KindOf(k)] \in Int /\ DOMAIN limits = Kinds /\ Keep \in Nat /\ RateWindow \in Nat
  BY TimePasses DEF Sound, Types, EngineTypes, CacheTypes, Kinds
<1>1. limits[KindOf(k)] >= When(k) \/ When(k) < now - Keep
  BY DEF Noticed
<1>2. CASE limits' = limits
  BY <1>0, <1>1, <1>2
<1>3. CASE limits' = Pruned.limits
  <2>1. \/ limits'[KindOf(k)] = limits[KindOf(k)]
        \/ limits[KindOf(k)] < now - Keep
    BY <1>0, <1>3, PrunedIs DEF Sound, Types, Kinds
  <2> QED BY <1>0, <1>1, <2>1
<1>4. ASSUME NEW s \in sends, limits' = Noted(s)
      PROVE  limits'[KindOf(k)] >= When(k) \/ When(k) < now' - Keep
  <2>1. CASE Kind(s) = KindOf(k)
    <3>1. limits'[KindOf(k)] = s.ts
      BY <1>0, <1>4, <2>1 DEF Noted
    <3>2. s.ts >= When(k) + RateWindow /\ s.ts \in Nat
      BY <2>1, SendIs DEF Noticed
    <3> QED BY <1>0, <3>1, <3>2
  <2>2. CASE Kind(s) # KindOf(k)
    <3>1. limits'[KindOf(k)] = limits[KindOf(k)]
      BY <1>0, <1>4, <2>2 DEF Noted
    <3> QED BY <1>0, <1>1, <3>1
  <2> QED BY <2>1, <2>2
<1> QED BY <1>2, <1>3, <1>4, CacheStep DEF Sound, Types, EngineTypes

\* A delivery that begins is about an event that is not near what was delivered.
LEMMA NewIsApart ==
  ASSUME Sound, Noticed, NEW t \in tasks, Fan(t), NEW o \in New(t), Kind(o) \notin raced',
         NEW k \in Sent, When(k) \in Nat, Kind(o) = KindOf(k), KindOf(k) \in Kinds
  PROVE  o.ts >= When(k) + RateWindow
<1> USE DispatcherAssumption
<1>1. t \in TaskType /\ o.ts = t.ts /\ o.ch \in Takers(t) \ Held(t) /\ Kind(o) = <<o.ch, t.ep, t.state>>
  BY NewIs DEF Sound, Types, WorkTypes, Kind
<1>2. now - t.ts <= Keep - RateWindow
  <2>1. ~Overdue(t)
    BY Fans
  <2>2. t.ts \in Nat /\ now \in Nat /\ Keep \in Nat /\ RateWindow \in Nat
    BY <1>1 DEF TaskType, Sound, Types, EngineTypes
  <2> QED BY <2>1, <2>2 DEF Overdue
<1>3. \/ limits[KindOf(k)] = -1
      \/ ~(t.ts - limits[KindOf(k)] < RateWindow)
  <2>1. o.ch \notin Limited(t)
    BY <1>1 DEF Held
  <2> QED BY <1>1, <2>1 DEF Limited
<1>4. limits[KindOf(k)] >= When(k) \/ When(k) < now - Keep
  BY DEF Noticed
<1>5. /\ limits[KindOf(k)] \in Int /\ t.ts \in Nat /\ now \in Nat /\ Keep \in Nat /\ RateWindow \in Nat
  BY <1>1 DEF Kinds, TaskType, Sound, Types, EngineTypes, CacheTypes
<1> QED BY <1>1, <1>2, <1>3, <1>4, <1>5

\* Deliveries of a kind go on one at a time.
LEMMA OneDelivery ==
  ASSUME Sound, Noticed, [Next]_vars, NEW s \in sends', NEW o \in sends',
         Kind(s) = Kind(o), Kind(s) \notin raced'
  PROVE  s = o
<1>0. Kind(s) \notin raced
  BY RacedGrows
<1>1. CASE sends' \subseteq sends
  BY <1>0, <1>1 DEF Noticed
<1>2. CASE Aside \/ Receive \/ \E ch \in Channels : Update(ch) \/ Delete(ch)
  <2>1. sends' = sends
    BY <1>2, AsideKeeps DEF Receive, Update, Delete, Put
  <2> QED BY <1>1, <2>1
<1>3. ASSUME NEW t \in tasks, TaskStep(t) \/ NoChannels(t) PROVE s = o
  <2>1. CASE Fan(t)
    <3>1. t \in TaskType /\ sends' = sends \cup New(t)
      BY <2>1, Fans DEF Sound, Types, WorkTypes
    <3>2. \A x \in New(t), u \in sends : Kind(x) = Kind(u) => Kind(x) \in raced'
      BY <2>1, Fans
    <3>3. CASE s \in New(t) /\ o \in New(t)
      <4>1. s.ch = o.ch
        BY DEF Kind
      <4> QED BY <3>1, <3>3, <4>1, NewIs
    <3>4. CASE s \in sends /\ o \in sends
      BY <1>0, <3>4 DEF Noticed
    <3> QED BY <3>1, <3>2, <3>3, <3>4
  <2>2. CASE ~Fan(t)
    <3>1. sends' = sends
      BY <1>3, <2>2, Drops, Evaluates, Loads, Writing DEF TaskStep
    <3> QED BY <1>1, <3>1
  <2> QED BY <2>1, <2>2
<1>4. ASSUME NEW x \in sends, Attempt(x) PROVE s = o
  <2>1. CASE Ends(x)
    <3>1. sends' \subseteq sends
      BY <2>1 DEF Ends
    <3> QED BY <1>1, <3>1
  <2>2. CASE Again(x)
    <3> DEFINE y == [x EXCEPT !.tries = @ + 1]
    <3>1. x \in SendType /\ sends' = (sends \ {x}) \cup {y}
      BY <2>2 DEF Again, Sound, Types, WorkTypes
    <3>2. Kind(y) = Kind(x)
      BY <3>1 DEF SendType, Kind
    <3> HIDE DEF y
    <3>3. CASE s = y
      <4>1. o \in sends \ {x} => o = x
        BY <1>0, <3>2, <3>3 DEF Noticed
      <4> QED BY <3>1, <3>3, <4>1
    <3>4. CASE o = y
      <4>1. s \in sends \ {x} => s = x
        BY <1>0, <3>2, <3>4 DEF Noticed
      <4> QED BY <3>1, <3>4, <4>1
    <3>5. CASE s \in sends /\ o \in sends
      BY <1>0, <3>5 DEF Noticed
    <3> QED BY <3>1, <3>3, <3>4, <3>5
  <2> QED BY <1>4, <2>1, <2>2, AttemptIs
<1> QED BY <1>2, <1>3, <1>4, StepsAre

LEMMA NoticedStep ==
  ASSUME Sound, LogInv, Noticed, [Next]_vars
  PROVE  Noticed'
<1> USE DispatcherAssumption
<1>0. RateWindow \in Nat /\ RateWindow > 0
  OBVIOUS
<1> DEFINE Sending(k, s) ==
      /\ k = <<s.n, s.ch>> /\ sends' = sends \ {s} /\ limits' = Noted(s)
      /\ Kind(s) = KindOf(k) /\ s.ts = When(k)
<1>1. ASSUME NEW k \in Sent'
      PROVE  limits'[KindOf(k)] >= When(k) \/ When(k) < now' - Keep
  <2>1. KindOf(k) \in Kinds /\ When(k) \in Nat /\ (k \in Sent \/ \E s \in sends : Sending(k, s))
    BY <1>1, SentMoves
  <2>2. ASSUME NEW s \in sends, Sending(k, s) PROVE limits'[KindOf(k)] = When(k)
    BY <2>1, <2>2 DEF Noted, Sound, Types, CacheTypes, Kinds
  <2>3. CASE \E s \in sends : Sending(k, s)
    <3> HIDE DEF Sending
    <3>1. limits'[KindOf(k)] = When(k)
      BY <2>2, <2>3
    <3> QED BY <2>1, <3>1
  <2> QED BY <2>1, <2>3, LimitsMove
<1>2. ASSUME NEW k \in Sent', NEW o \in sends', Kind(o) = KindOf(k)
      PROVE  o.ts >= When(k) + RateWindow
  <2>1. /\ KindOf(k) \in Kinds /\ When(k) \in Nat /\ KindOf(k) \notin raced /\ KindOf(k) \notin raced'
        /\ k \in Sent \/ \E s \in sends : Sending(k, s)
    BY <1>2, SentMoves
  <2>2. ASSUME NEW s \in sends, Sending(k, s) PROVE FALSE
    <3>1. o \in sends /\ o # s /\ Kind(o) = Kind(s) /\ Kind(s) \notin raced
      BY <1>2, <2>1, <2>2
    <3> QED BY <3>1 DEF Noticed
  <2>3. k \in Sent
    BY <2>1, <2>2
  <2>4. CASE \E s \in sends : /\ o.n = s.n /\ o.ch = s.ch /\ o.ep = s.ep /\ o.state = s.state
                              /\ o.ts = s.ts
    <3>1. PICK s \in sends : o.ch = s.ch /\ o.ep = s.ep /\ o.state = s.state /\ o.ts = s.ts
      BY <2>4
    <3>2. Kind(s) = KindOf(k)
      BY <1>2, <3>1 DEF Kind
    <3>3. s.ts >= When(k) + RateWindow
      BY <2>3, <3>2 DEF Noticed
    <3> QED BY <3>1, <3>3
  <2>5. ASSUME NEW t \in tasks, Fan(t), o \in New(t) PROVE o.ts >= When(k) + RateWindow
    BY <1>2, <2>1, <2>3, <2>5, NewIsApart
  <2> QED BY <1>2, <2>4, <2>5, SendsMove
<1>3. \A s, o \in sends' : Kind(s) = Kind(o) /\ Kind(s) \notin raced' => s = o
  BY OneDelivery
<1>4. ASSUME NEW j \in Sent', NEW k \in Sent', KindOf(j) = KindOf(k), j # k
      PROVE  When(j) >= When(k) + RateWindow \/ When(k) >= When(j) + RateWindow
  <2>1. /\ j \in Sent \/ \E s \in sends : Sending(j, s)
        /\ k \in Sent \/ \E s \in sends : Sending(k, s)
    BY <1>4, SentMoves
  <2>2. CASE j \in Sent /\ k \in Sent
    BY <1>4, <2>2 DEF Noticed
  <2>3. ASSUME NEW s \in sends, Sending(j, s), k \in Sent PROVE When(j) >= When(k) + RateWindow
    BY <1>4, <2>3 DEF Noticed
  <2>4. ASSUME NEW s \in sends, Sending(k, s), j \in Sent PROVE When(k) >= When(j) + RateWindow
    BY <1>4, <2>4 DEF Noticed
  <2>5. ASSUME NEW s \in sends, Sending(j, s), NEW o \in sends, Sending(k, o) PROVE FALSE
    BY <1>4, <2>5
  <2> HIDE DEF Sending
  <2> QED BY <2>1, <2>2, <2>3, <2>4, <2>5
<1>5. \A k \in Sent' : KindOf(k)' = KindOf(k) /\ When(k)' = When(k)
  BY SentMoves
<1> HIDE DEF Sending
<1> QED BY <1>1, <1>2, <1>3, <1>4, <1>5 DEF Noticed

\* No channel is sent two alerts of a kind about events less than the rate window apart,
\* however long deliveries take and whatever the pruning of the memory forgets, unless
\* two of the kind were in delivery together or one was about an event held up that long.
THEOREM AlertsAreSpaced == Spec => []Spaced
<1> DEFINE I == Sound /\ LogInv /\ CopyInv /\ Noticed
<1>1. Init => Noticed
  <2> SUFFICES ASSUME Init PROVE Noticed
    OBVIOUS
  <2>1. <<>> # <<"DELIVERED">>
    OBVIOUS
  <2>2. Sent = {} /\ sends = {}
    BY <2>1 DEF Init, Sent, Keys
  <2> QED BY <2>2 DEF Noticed
<1>2. I /\ [Next]_vars => I'
  BY SoundStep, LogInvStep, CopyInvStep, NoticedStep DEF LogInv
<1>3. I => Spaced
  <2> SUFFICES ASSUME I, NEW m \in Ns, NEW n \in Ns, NEW ch \in Channels, m # n,
                      log[<<m, ch>>] = <<"DELIVERED">>, log[<<n, ch>>] = <<"DELIVERED">>,
                      born[m][1] = born[n][1], born[m][2] = born[n][2],
                      <<ch, born[m][1], born[m][2]>> \notin raced
               PROVE  born[m][3] - born[n][3] \notin (1 - RateWindow)..(RateWindow - 1)
    BY DEF Spaced
  <2> DEFINE j == <<m, ch>>
             k == <<n, ch>>
  <2>1. /\ j \in Keys /\ k \in Keys /\ j # k /\ j[1] = m /\ k[1] = n /\ j[2] = ch /\ k[2] = ch
        /\ log[j] = <<"DELIVERED">> /\ log[k] = <<"DELIVERED">>
    BY DEF Keys
  <2> HIDE DEF j, k
  <2>2. KindOf(j) = KindOf(k) /\ KindOf(j) \notin raced
    BY <2>1 DEF KindOf
  <2>3. j \in Sent /\ k \in Sent
    BY <2>1, <2>2 DEF Sent
  <2>4. When(j) >= When(k) + RateWindow \/ When(k) >= When(j) + RateWindow
    BY <2>1, <2>2, <2>3 DEF Noticed
  <2>5. When(j) \in Nat /\ When(k) \in Nat
    BY <2>1, DeliveredIs
  <2>6. When(j) = born[m][3] /\ When(k) = born[n][3]
    BY <2>1 DEF When
  <2> QED BY <2>4, <2>5, <2>6, DispatcherAssumption
<1> QED BY <1>1, <1>2, <1>3, InitSound, PTL DEF Spec

-----------------------------------------------------------------------------
(* Endpoints are muted for a cause.  Whatever mutes for the sake of an      *)
(* endpoint that is up is excused by an outage that is about to be, by a    *)
(* recovery that has still to publish, or as stray; or it is ended by a     *)
(* resolution that is behind it in the queue.                              *)

\* The tasks know of changes that happened, and of the one that has still to commit.
Known ==
  /\ \A c \in causes : c.n <= changes
  /\ \A e \in Endpoints : told[e] <= changes
  /\ \A c \in causes, e \in Endpoints :
       told[e] = c.n => c.ep = e /\ c.state = Opposite(link[e])

Begins(p) == \E c \in causes : c.ep = p /\ c.state = "UP" /\ c.pc = "begun"

Recovering(p) == \E c \in causes : c.ep = p /\ c.state = "UP" /\ c.pc \in {"begun", "updated"}

\* The endpoint is down, or the change is the outage that has still to commit.
Stands(n, p) ==
  \/ told[p] = n /\ n # 0 /\ link[p] = "UP"
  \/ told[p] = 0 /\ link[p] = "DOWN"

Excused(n, p) == n \in strays \/ Stands(n, p) \/ Recovering(p)

ExcusesStay(p) == \A n \in Nat : Excused(n, p) => Excused(n, p)'

Resolves(j, p) == notices[j].resolved /\ notices[j].root = p

OneParent ==
  \A e \in Endpoints :
    suppressed[e].parent = {} \/ \E p \in Endpoints : suppressed[e].parent = {p}

\* A task that will end the incident.
Ending(c, i) ==
  c.ep = i.root /\ c.state = "UP" /\ (c.pc = "begun" \/ (c.pc = "updated" /\ i \in c.rows))

RowsEnd ==
  \A i \in incidents :
    i.inc \in strays \/ Stands(i.inc, i.root) \/ \E c \in causes : Ending(c, i)

Freeing(p) ==
  /\ \A e \in Endpoints : p \in suppressed[e].parent =>
       Excused(suppressed[e].inc, p) \/ \E j \in DOMAIN notices : Resolves(j, p)
  /\ \A i \in DOMAIN notices : notices[i].root = p /\ ~notices[i].resolved =>
       Excused(notices[i].n, p) \/ \E j \in DOMAIN notices : i < j /\ Resolves(j, p)

Muting ==
  /\ OneParent /\ Known
  /\ "rca fails" \notin seen =>
       RowsEnd /\ ("lost event" \notin seen => \A p \in Endpoints : Freeing(p))

LEMMA EngineRests ==
  ASSUME [Next]_vars,
         ~\E e \in Endpoints : Cycle(e), ~\E c \in causes : CauseStep(c) \/ CauseFails(c)
  PROVE  /\ UNCHANGED <<link, told, changes, strays, causes, incidents>>
         /\ Notice \/ Lose \/ notices' = notices
<1>1. CASE Tick \/ Toggle \/ Receive \/ Notice \/ Lose
  BY <1>1 DEF Tick, Toggle, Receive, Notice, Lose, engine
<1>2. CASE Outage("error") \/ Outage("timeout") \/ Restored
  BY <1>2 DEF Outage, Restored, engine
<1>3. CASE Done \/ UNCHANGED vars
  BY <1>3 DEF Done, vars, engine
<1>4. CASE \E ch \in Channels : Update(ch) \/ Delete(ch)
  BY <1>4 DEF Update, Delete, Put, engine
<1>5. CASE \E t \in tasks : TaskStep(t) \/ NoChannels(t)
  BY <1>5 DEF TaskStep, Off, Throttle, Load, Enter, Cut, Evaluate, Fan, NoChannels, engine
<1>6. CASE \E s \in sends : Attempt(s)
  BY <1>6 DEF Attempt, Deliver, Reject, Error, Timeout, LogFails, engine
<1> QED BY <1>1, <1>2, <1>3, <1>4, <1>5, <1>6, StepsAre DEF Aside

LEMMA OneParentStep ==
  ASSUME Sound, OneParent, [Next]_vars
  PROVE  OneParent'
<1>1. NoOne.parent = {}
  BY DEF NoOne
<1>2. CASE Notice
  <2>1. notices[1].root \in Endpoints
    BY <1>2, NoticeMutes DEF Sound, Types, EngineTypes, NoticeType
  <2>2. \A e \in Endpoints : \/ suppressed'[e] \in {suppressed[e], NoOne}
                             \/ suppressed'[e].parent = {notices[1].root}
    BY <1>2, NoticeMutes DEF Sound, Types, EngineTypes
  <2> HIDE DEF NoOne
  <2> QED BY <1>1, <2>1, <2>2 DEF OneParent
<1>3. CASE ~Notice
  <2>1. \A e \in Endpoints : suppressed'[e] \in {suppressed[e], NoOne}
    BY <1>3, OthersMuteNobody DEF Sound, Types, EngineTypes
  <2> HIDE DEF NoOne
  <2> QED BY <1>1, <2>1 DEF OneParent
<1> QED BY <1>2, <1>3

LEMMA NumbersAre == \A n \in Ns : n \in Nat \ {0}
BY DispatcherAssumption DEF Ns

\* What a step of a task that looks for a cause, or ends one, does to such tasks.
LEMMA CauseMoves ==
  ASSUME Sound, NEW c \in causes, CauseStep(c)
  PROVE  /\ c \in CauseType /\ UNCHANGED <<link, told, changes, suppressed>>
         /\ strays \subseteq strays' /\ causes \ {c} \subseteq causes'
         /\ \/ c.state = "DOWN"
            \/ /\ c.state = "UP" /\ c.pc = "begun" /\ UNCHANGED <<incidents, notices>>
               /\ \E d \in causes' : d.ep = c.ep /\ d.state = "UP" /\ d.pc = "updated"
                                     /\ d.rows = {i \in incidents : i.root = c.ep}
            \/ /\ c.state = "UP" /\ c.pc = "updated" /\ incidents' = incidents \ c.rows
               /\ notices' = Append(notices, Resolution(c.ep))
<1>1. c \in CauseType
  BY DEF Sound, Types, EngineTypes
<1>2. CASE RcaPublish(c) \/ RcaCommit(c)
  BY <1>1, <1>2 DEF RcaPublish, RcaCommit, Mark, caches
<1>3. CASE RecoveryUpdate(c)
  <2> DEFINE rows == {i \in incidents : i.root = c.ep}
             d == [c EXCEPT !.pc = "updated", !.rows = rows]
  <2>1. /\ c.state = "UP" /\ c.pc = "begun" /\ causes' = (causes \ {c}) \cup {d}
        /\ UNCHANGED <<incidents, notices, link, told, changes, strays, suppressed>>
    BY <1>3 DEF RecoveryUpdate, caches
  <2>2. d.ep = c.ep /\ d.state = c.state /\ d.pc = "updated" /\ d.rows = rows
    BY <1>1 DEF CauseType
  <2> HIDE DEF d
  <2> QED BY <1>1, <2>1, <2>2
<1>4. CASE RecoveryCommit(c)
  BY <1>1, <1>4 DEF RecoveryCommit, caches
<1> QED BY <1>2, <1>3, <1>4 DEF CauseStep

\* Such a task is carried on as it was, but for its stage and its rows.
LEMMA CausesCarriedOn ==
  ASSUME Sound, NEW c \in causes, CauseStep(c) \/ CauseFails(c)
  PROVE  /\ UNCHANGED <<link, told, changes>>
         /\ \A d \in causes' : \E b \in causes : b.n = d.n /\ b.ep = d.ep /\ b.state = d.state
<1>1. c \in CauseType
  BY DEF Sound, Types, EngineTypes
<1>2. CASE RcaCommit(c) \/ RecoveryCommit(c) \/ CauseFails(c)
  BY <1>2 DEF RcaCommit, RecoveryCommit, CauseFails
<1>3. CASE RcaPublish(c) \/ RecoveryUpdate(c)
  <2> DEFINE rows == {i \in incidents : i.root = c.ep}
             d == [c EXCEPT !.pc = "published"]
             u == [c EXCEPT !.pc = "updated", !.rows = rows]
  <2>1. /\ causes' = (causes \ {c}) \cup {d} \/ causes' = (causes \ {c}) \cup {u}
        /\ UNCHANGED <<link, told, changes>>
    BY <1>3 DEF RcaPublish, RecoveryUpdate
  <2>2. /\ d.n = c.n /\ d.ep = c.ep /\ d.state = c.state
        /\ u.n = c.n /\ u.ep = c.ep /\ u.state = c.state
    BY <1>1 DEF CauseType
  <2> HIDE DEF d, u
  <2> QED BY <2>1, <2>2
<1> QED BY <1>2, <1>3 DEF CauseStep

LEMMA KnownStep ==
  ASSUME Sound, Known, [Next]_vars
  PROVE  Known'
<1>0. /\ changes \in Nat /\ told \in [Endpoints -> Nat] /\ link \in [Endpoints -> States]
      /\ \A c \in causes : c.n \in Nat \ {0}
  BY NumbersAre DEF Sound, Types, EngineTypes, CauseType
<1>1. ASSUME NEW e \in Endpoints, Announce(e) PROVE Known'
  <2> DEFINE n == changes + 1
             d == [n |-> n, ep |-> e, state |-> Opposite(link[e]), pc |-> "begun", rows |-> {}]
  <2>1. d.n = n /\ d.ep = e /\ d.state = Opposite(link[e])
    OBVIOUS
  <2>2. /\ changes' = n /\ told' = [told EXCEPT ![e] = n] /\ link' = link
        /\ causes' \subseteq causes \cup {d}
    BY <1>1 DEF Announce
  <2> HIDE DEF d
  <2>3. changes < n /\ n \in Nat
    BY <1>0
  <2> HIDE DEF n
  <2>4. \A c \in causes : c.n # n /\ c.n <= n
    BY <1>0, <2>3 DEF Known
  <2>5. \A q \in Endpoints : told[q] # n /\ told[q] <= n
    BY <1>0, <2>3 DEF Known
  <2>6. \A c \in causes' : c = d \/ c \in causes
    BY <2>2
  <2>7. \A q \in Endpoints : told'[q] = IF q = e THEN n ELSE told[q]
    BY <1>0, <2>2
  <2>8. ASSUME NEW c \in causes', NEW q \in Endpoints, told'[q] = c.n
        PROVE  c.ep = q /\ c.state = Opposite(link'[q])
    <3>1. CASE q = e
      BY <2>1, <2>2, <2>4, <2>6, <2>7, <2>8, <3>1
    <3>2. CASE q # e
      <4>1. told[q] = c.n /\ c # d
        BY <2>1, <2>5, <2>7, <2>8, <3>2
      <4>2. c \in causes
        BY <2>6, <4>1
      <4> QED BY <2>2, <4>1, <4>2 DEF Known
    <3> QED BY <3>1, <3>2
  <2>9. \A c \in causes' : c.n <= n
    BY <2>1, <2>3, <2>4, <2>6
  <2>10. \A q \in Endpoints : told'[q] <= n
    BY <2>3, <2>5, <2>7
  <2> QED BY <2>2, <2>8, <2>9, <2>10 DEF Known
<1>2. ASSUME NEW e \in Endpoints, Commit(e) \/ Rollback(e) PROVE Known'
  <2>1. /\ told' = [told EXCEPT ![e] = 0] /\ changes' = changes /\ causes' \subseteq causes
        /\ \A q \in Endpoints \ {e} : link'[q] = link[q]
    BY <1>0, <1>2 DEF Commit, Rollback
  <2>2. \A q \in Endpoints : told'[q] = IF q = e THEN 0 ELSE told[q]
    BY <1>0, <2>1
  <2>3. ASSUME NEW c \in causes', NEW q \in Endpoints, told'[q] = c.n
        PROVE  c.ep = q /\ c.state = Opposite(link'[q])
    <3>1. c \in causes /\ c.n # 0
      BY <1>0, <2>1
    <3>2. q # e /\ told[q] = c.n
      BY <2>2, <2>3, <3>1
    <3> QED BY <2>1, <3>1, <3>2 DEF Known
  <2>4. \A q \in Endpoints : told'[q] <= changes
    BY <1>0, <2>2 DEF Known
  <2> QED BY <2>1, <2>3, <2>4 DEF Known
<1>3. ASSUME NEW c \in causes, CauseStep(c) \/ CauseFails(c) PROVE Known'
  BY <1>3, CausesCarriedOn DEF Known
<1>4. CASE UNCHANGED <<link, told, changes, causes>>
  BY <1>4 DEF Known
<1> QED BY <1>1, <1>2, <1>3, <1>4, EngineRests DEF Cycle

\* A change that is announced, committed or rolled back leaves a cause for the excuses.
LEMMA CycleMoves ==
  ASSUME Sound, Known, NEW e \in Endpoints, Cycle(e), NEW p \in Endpoints
  PROVE  /\ UNCHANGED <<notices, suppressed, incidents>> /\ strays \subseteq strays'
         /\ \A n \in Nat : Stands(n, p) => Stands(n, p)' \/ n \in strays' \/ Begins(p)'
         /\ \A c \in causes : c.ep = p /\ c.state = "UP" =>
              c \in causes' \/ \A n \in Nat : Stands(n, p)'
<1>0. told \in [Endpoints -> Nat] /\ link \in [Endpoints -> States]
  BY DEF Sound, Types, EngineTypes
<1>1. CASE Announce(e)
  <2> DEFINE d == [n |-> changes + 1, ep |-> e, state |-> Opposite(link[e]), pc |-> "begun",
                   rows |-> {}]
  <2>1. d.ep = e /\ d.state = Opposite(link[e]) /\ d.pc = "begun"
    OBVIOUS
  <2>2. /\ told[e] = 0 /\ told' = [told EXCEPT ![e] = changes + 1] /\ causes \subseteq causes'
        /\ UNCHANGED <<link, strays, notices, suppressed, incidents>>
        /\ Opposite(link[e]) # "DOWN" => d \in causes'
    BY <1>1 DEF Announce, caches
  <2> HIDE DEF d
  <2>3. CASE p # e
    BY <1>0, <2>2, <2>3 DEF Stands
  <2>4. CASE p = e /\ link[e] = "DOWN"
    <3>1. Opposite(link[e]) = "UP"
      BY <2>4, Opposites DEF States
    <3>2. Begins(p)'
      BY <2>1, <2>2, <2>4, <3>1 DEF Begins
    <3> QED BY <2>2, <3>2
  <2>5. CASE p = e /\ link[e] # "DOWN"
    BY <2>2, <2>5 DEF Stands
  <2> QED BY <2>2, <2>3, <2>4, <2>5
<1>2. CASE Commit(e)
  <2>1. /\ told[e] # 0 /\ told' = [told EXCEPT ![e] = 0]
        /\ link' = [link EXCEPT ![e] = Opposite(link[e])]
        /\ UNCHANGED <<causes, strays, notices, suppressed, incidents>>
    BY <1>2 DEF Commit, caches
  <2>2. CASE p # e
    BY <1>0, <2>1, <2>2 DEF Stands
  <2>3. CASE p = e
    <3>1. link[e] = "UP" => link'[e] = "DOWN"
      BY <1>0, <2>1, Opposites DEF States
    <3>2. told'[e] = 0
      BY <1>0, <2>1
    <3> QED BY <2>1, <2>3, <3>1, <3>2 DEF Stands
  <2> QED BY <2>2, <2>3
<1>3. CASE Rollback(e)
  <2>1. /\ told[e] # 0 /\ told' = [told EXCEPT ![e] = 0] /\ strays' = strays \cup {told[e]}
        /\ \A c \in causes : c.n # told[e] => c \in causes'
        /\ UNCHANGED <<link, notices, suppressed, incidents>>
    BY <1>3 DEF Rollback, caches
  <2>2. \A q \in Endpoints : told'[q] = IF q = e THEN 0 ELSE told[q]
    BY <1>0, <2>1
  <2>3. ASSUME NEW n \in Nat, Stands(n, p) PROVE Stands(n, p)' \/ n \in strays'
    BY <2>1, <2>2, <2>3 DEF Stands
  <2>4. ASSUME NEW c \in causes, c.ep = p, c.state = "UP", c \notin causes'
        PROVE  \A n \in Nat : Stands(n, p)'
    <3>1. told[e] = c.n
      BY <2>1, <2>4
    <3>2. p = e /\ Opposite(link[e]) = "UP"
      BY <2>4, <3>1 DEF Known
    <3>3. link[p] = "DOWN"
      BY <1>0, <3>2, Opposites
    <3> QED BY <2>1, <2>2, <3>2, <3>3 DEF Stands
  <2> QED BY <2>1, <2>3, <2>4
<1> QED BY <1>1, <1>2, <1>3 DEF Cycle

\* A recovery is over when it has published.
LEMMA RecoveringEnds ==
  ASSUME Sound, NEW c \in causes, CauseStep(c), NEW p, Recovering(p), ~Recovering(p)'
  PROVE  c.ep = p /\ notices' = Append(notices, Resolution(p))
<1>1. PICK d \in causes : d.ep = p /\ d.state = "UP" /\ d.pc \in {"begun", "updated"}
  BY DEF Recovering
<1>2. d = c
  BY <1>1, CauseMoves DEF Recovering
<1> QED BY <1>1, <1>2, CauseMoves DEF Recovering

\* An excuse is good until the endpoint's recovery is published.
LEMMA ExcusesLast ==
  ASSUME Sound, Known, [Next]_vars, "rca fails" \notin seen', NEW p \in Endpoints
  PROVE  \/ ExcusesStay(p)
         \/ suppressed' = suppressed /\ notices' = Append(notices, Resolution(p))
<1>1. ASSUME NEW e \in Endpoints, Cycle(e) PROVE ExcusesStay(p)
  <2> SUFFICES ASSUME NEW n \in Nat, Excused(n, p) PROVE Excused(n, p)'
    BY DEF ExcusesStay
  <2>1. CASE n \in strays
    BY <1>1, <2>1, CycleMoves DEF Excused
  <2>2. CASE Stands(n, p)
    <3>1. Begins(p)' => Recovering(p)'
      BY DEF Begins, Recovering
    <3> QED BY <1>1, <2>2, <3>1, CycleMoves DEF Excused
  <2>3. CASE Recovering(p)
    <3>1. PICK c \in causes : c.ep = p /\ c.state = "UP" /\ c.pc \in {"begun", "updated"}
      BY <2>3 DEF Recovering
    <3>2. c \in causes' \/ Stands(n, p)'
      BY <1>1, <3>1, CycleMoves
    <3> QED BY <3>1, <3>2 DEF Excused, Recovering
  <2> QED BY <2>1, <2>2, <2>3 DEF Excused
<1>2. ASSUME NEW c \in causes, CauseStep(c), ~ExcusesStay(p)
      PROVE  suppressed' = suppressed /\ notices' = Append(notices, Resolution(p))
  <2>1. UNCHANGED <<link, told, suppressed>> /\ strays \subseteq strays'
    BY <1>2, CauseMoves
  <2>2. Recovering(p) /\ ~Recovering(p)'
    BY <1>2, <2>1 DEF ExcusesStay, Excused, Stands
  <2> QED BY <1>2, <2>1, <2>2, RecoveringEnds
<1>3. ASSUME NEW c \in causes PROVE ~CauseFails(c)
  BY DEF CauseFails, Upset
<1>4. CASE UNCHANGED <<link, told, strays, causes>>
  BY <1>4 DEF ExcusesStay, Excused, Stands, Recovering
<1> QED BY <1>1, <1>2, <1>3, <1>4, EngineRests

LEMMA RowsEndStep ==
  ASSUME Sound, Known, RowsEnd, [Next]_vars, "rca fails" \notin seen'
  PROVE  RowsEnd'
<1> SUFFICES ASSUME NEW i \in incidents'
             PROVE  \/ i.inc \in strays' \/ Stands(i.inc, i.root)'
                    \/ \E c \in causes' : Ending(c, i)
  BY DEF RowsEnd, Ending
<1>1. ASSUME NEW e \in Endpoints, Cycle(e)
      PROVE  \/ i.inc \in strays' \/ Stands(i.inc, i.root)'
             \/ \E c \in causes' : Ending(c, i)
  <2>1. i \in incidents
    BY <1>1, CycleMoves
  <2>2. i.root \in Endpoints /\ i.inc \in Nat
    BY <2>1, NumbersAre DEF Sound, Types, EngineTypes, IncidentType
  <2>3. CASE i.inc \in strays
    BY <1>1, <2>2, <2>3, CycleMoves
  <2>4. CASE Stands(i.inc, i.root)
    <3>1. Begins(i.root)' => \E c \in causes' : Ending(c, i)
      BY DEF Begins, Ending
    <3> QED BY <1>1, <2>2, <2>4, <3>1, CycleMoves
  <2>5. ASSUME NEW c \in causes, Ending(c, i)
        PROVE  c \in causes' \/ Stands(i.inc, i.root)'
    BY <1>1, <2>2, <2>5, CycleMoves DEF Ending
  <2> QED BY <2>1, <2>3, <2>4, <2>5 DEF RowsEnd
<1>2. ASSUME NEW c \in causes, CauseStep(c)
      PROVE  \/ i.inc \in strays' \/ Stands(i.inc, i.root)'
             \/ \E x \in causes' : Ending(x, i)
  <2>0. UNCHANGED <<link, told>> /\ strays \subseteq strays'
    BY <1>2, CauseMoves
  <2>1. CASE i \in incidents
    <3>1. CASE i.inc \in strays \/ Stands(i.inc, i.root)
      BY <2>0, <3>1 DEF Stands
    <3>2. ASSUME NEW x \in causes, Ending(x, i), x # c
          PROVE  x \in causes'
      BY <1>2, <3>2, CauseMoves
    <3>3. ASSUME Ending(c, i) PROVE \E x \in causes' : Ending(x, i)
      BY <1>2, <2>1, <3>3, CauseMoves DEF Ending
    <3> QED BY <2>1, <3>1, <3>2, <3>3 DEF RowsEnd
  <2>2. CASE i \notin incidents
    <3>1. RcaCommit(c)
      BY <1>2, <2>2 DEF CauseStep, RcaPublish, RecoveryUpdate, RecoveryCommit
    <3> DEFINE new == [inc |-> c.n, root |-> c.ep]
    <3>2. c.state = "DOWN" /\ causes' = causes \ {c} /\ incidents' = incidents \cup {new}
      BY <3>1 DEF RcaCommit
    <3>3. i.inc = c.n /\ i.root = c.ep
      <4>1. i = new
        BY <2>2, <3>2
      <4> QED BY <4>1
    <3>4. c.n # 0 /\ c.ep \in Endpoints /\ link[c.ep] \in States
      BY <1>2, CauseMoves, NumbersAre DEF CauseType, Sound, Types, EngineTypes
    <3>5. CASE c.n \in strays'
      BY <3>3, <3>5
    <3>6. CASE told[c.ep] = c.n
      <4>1. Opposite(link[c.ep]) = "DOWN"
        BY <3>2, <3>4, <3>6 DEF Known
      <4>2. link[c.ep] = "UP"
        BY <3>4, <4>1, Opposites DEF States
      <4> QED BY <2>0, <3>3, <3>4, <3>6, <4>2 DEF Stands
    <3>7. CASE link[c.ep] # "UP" /\ told[c.ep] = 0
      BY <2>0, <3>3, <3>4, <3>7 DEF Stands, States
    <3>8. CASE Recoveries(c.ep, {"begun"}) # {}
      <4>1. PICK x \in causes : x.ep = c.ep /\ x.state = "UP" /\ x.pc = "begun"
        BY <3>8 DEF Recoveries
      <4>2. x # c
        BY <3>2, <4>1
      <4> QED BY <3>2, <3>3, <4>1, <4>2 DEF Ending
    <3> QED BY <3>1, <3>5, <3>6, <3>7, <3>8 DEF RcaCommit, Mark
  <2> QED BY <2>1, <2>2
<1>3. ASSUME NEW c \in causes PROVE ~CauseFails(c)
  BY DEF CauseFails, Upset
<1>4. CASE UNCHANGED <<link, told, strays, causes, incidents>>
  BY <1>4 DEF RowsEnd, Stands
<1> QED BY <1>1, <1>2, <1>3, <1>4, EngineRests

\* A notice comes in: a resolution ends whatever is ahead of it.
LEMMA FreeingStays ==
  ASSUME notices \in Seq(NoticeType), NEW n \in NoticeType, notices' = Append(notices, n),
         suppressed \in [Endpoints -> MutingType], suppressed' = suppressed, NEW p \in Endpoints
  PROVE  /\ n.resolved /\ n.root = p => Freeing(p)'
         /\ /\ Freeing(p) /\ ExcusesStay(p)
            /\ n.root = p => ~n.resolved /\ Excused(n.n, p)'
            => Freeing(p)'
<1> PICK last : last = Len(notices) + 1
  OBVIOUS
<1>1. /\ DOMAIN notices' = 1..last /\ DOMAIN notices = 1..(last - 1)
      /\ last \in Nat \ {0} /\ notices'[last] = n
      /\ \A j \in DOMAIN notices : notices'[j] = notices[j]
  OBVIOUS
<1>2. ASSUME n.resolved, n.root = p PROVE Freeing(p)'
  <2>1. Resolves(last, p)' /\ last \in DOMAIN notices'
    BY <1>1, <1>2 DEF Resolves
  <2>2. ASSUME NEW i \in DOMAIN notices', ~notices'[i].resolved PROVE i < last
    <3>1. i # last
      BY <1>1, <1>2, <2>2
    <3> QED BY <1>1, <3>1
  <2> QED BY <2>1, <2>2 DEF Freeing
<1>3. ASSUME Freeing(p), ExcusesStay(p), n.root = p => ~n.resolved /\ Excused(n.n, p)'
      PROVE  Freeing(p)'
  <2>1. \A j \in DOMAIN notices : Resolves(j, p) => Resolves(j, p)' /\ j \in DOMAIN notices'
    BY <1>1 DEF Resolves
  <2>2. \A m \in Nat : Excused(m, p) => Excused(m, p)'
    BY <1>3 DEF ExcusesStay
  <2>3. \A i \in DOMAIN notices' :
          \/ i \in DOMAIN notices /\ notices'[i] = notices[i]
          \/ notices'[i] = n
    BY <1>1
  <2>4. /\ \A e \in Endpoints : suppressed[e].inc \in Nat
        /\ \A i \in DOMAIN notices : notices[i].n \in Nat
    <3>1. \A i \in DOMAIN notices : notices[i] \in NoticeType
      OBVIOUS
    <3>2. \A e \in Endpoints : suppressed[e] \in MutingType
      OBVIOUS
    <3> QED BY <3>1, <3>2 DEF MutingType, NoticeType
  <2>5. ASSUME NEW e \in Endpoints, p \in suppressed'[e].parent
        PROVE  Excused(suppressed[e].inc, p)' \/ \E j \in DOMAIN notices' : Resolves(j, p)'
    <3> PICK m \in Nat : m = suppressed[e].inc
      BY <2>4
    <3>1. Excused(m, p) \/ \E j \in DOMAIN notices : Resolves(j, p)
      BY <1>3, <2>5 DEF Freeing
    <3>2. Excused(m, p)' => Excused(suppressed[e].inc, p)'
      BY DEF Excused, Stands
    <3> QED BY <2>1, <2>2, <3>1, <3>2
  <2>6. ASSUME NEW i \in DOMAIN notices', notices'[i].root = p, ~notices'[i].resolved
        PROVE  \/ Excused(notices[i].n, p)'
               \/ \E j \in DOMAIN notices' : i < j /\ Resolves(j, p)'
    <3>1. CASE notices'[i] = n
      BY <1>3, <2>6, <3>1 DEF Excused, Stands
    <3>2. CASE i \in DOMAIN notices /\ notices'[i] = notices[i]
      <4> PICK m \in Nat : m = notices[i].n
        BY <2>4, <3>2
      <4>1. Excused(m, p) \/ \E j \in DOMAIN notices : i < j /\ Resolves(j, p)
        BY <1>3, <2>6, <3>2 DEF Freeing
      <4>2. Excused(m, p)' => Excused(notices[i].n, p)'
        BY <3>2 DEF Excused, Stands
      <4> QED BY <2>1, <2>2, <4>1, <4>2
    <3> QED BY <2>3, <3>1, <3>2
  <2> QED BY <2>5, <2>6 DEF Freeing
<1> QED BY <1>2, <1>3

\* The leader takes the first notice: what it mutes is excused, or a later resolution
\* frees it.
LEMMA FreeingNotice ==
  ASSUME Sound, OneParent', Notice, NEW p \in Endpoints, Freeing(p)
  PROVE  Freeing(p)'
<1> DEFINE h == notices[1]
<1>1. notices \in Seq(NoticeType) /\ notices # <<>> /\ notices' = Tail(notices)
  BY DEF Notice, Sound, Types, QueueTypes
<1>2. /\ 1 \in DOMAIN notices
      /\ \A j \in DOMAIN notices : j > 1 => j - 1 \in DOMAIN notices' /\ notices'[j - 1] = notices[j]
      /\ \A j \in DOMAIN notices' : j + 1 \in DOMAIN notices /\ notices'[j] = notices[j + 1]
      /\ DOMAIN notices \subseteq Nat \ {0} /\ DOMAIN notices' \subseteq Nat \ {0}
  BY <1>1
<1>3. \A j \in DOMAIN notices : j > 1 /\ Resolves(j, p) => j - 1 \in DOMAIN notices' /\ Resolves(j - 1, p)'
  BY <1>2 DEF Resolves
<1>4. ASSUME NEW m, Excused(m, p) PROVE Excused(m, p)'
  BY <1>4 DEF Notice, engine, Excused, Stands, Recovering
<1>5. ASSUME NEW e \in Endpoints, p \in suppressed'[e].parent
      PROVE  Excused(suppressed[e].inc, p)' \/ \E j \in DOMAIN notices' : Resolves(j, p)'
  <2> PICK m : m = suppressed'[e].inc
    OBVIOUS
  <2>1. \/ /\ suppressed'[e] \in {suppressed[e], NoOne}
           /\ h.resolved => suppressed'[e].parent # {h.root}
        \/ ~h.resolved /\ suppressed'[e].parent = {h.root} /\ m = h.n
    BY NoticeMutes DEF Sound, Types, EngineTypes
  <2>2. suppressed'[e].parent = {p}
    BY <1>5 DEF OneParent
  <2>3. Excused(m, p) \/ \E j \in DOMAIN notices : Resolves(j, p) /\ j > 1
    <3>1. CASE ~h.resolved /\ suppressed'[e].parent = {h.root} /\ m = h.n
      <4>1. h.root = p
        BY <2>2, <3>1
      <4> QED BY <1>2, <3>1, <4>1 DEF Freeing
    <3>2. CASE /\ suppressed'[e] \in {suppressed[e], NoOne}
               /\ h.resolved => suppressed'[e].parent # {h.root}
      <4>1. suppressed'[e] # NoOne
        BY <1>5 DEF NoOne
      <4>2. p \in suppressed[e].parent /\ m = suppressed[e].inc
        BY <1>5, <3>2, <4>1
      <4>3. CASE Excused(m, p)
        BY <4>3
      <4>4. CASE \E j \in DOMAIN notices : Resolves(j, p)
        <5>1. PICK j \in DOMAIN notices : Resolves(j, p)
          BY <4>4
        <5>2. j # 1
          BY <2>2, <3>2, <5>1 DEF Resolves
        <5> QED BY <1>2, <5>1, <5>2
      <4> QED BY <4>2, <4>3, <4>4 DEF Freeing
    <3> QED BY <2>1, <3>1, <3>2
  <2>4. Excused(m, p)' => Excused(suppressed[e].inc, p)'
    BY DEF Excused, Stands
  <2> QED BY <1>3, <1>4, <2>3, <2>4
<1>6. ASSUME NEW i \in DOMAIN notices', notices'[i].root = p, ~notices'[i].resolved
      PROVE  \/ Excused(notices[i].n, p)'
             \/ \E j \in DOMAIN notices' : i < j /\ Resolves(j, p)'
  <2> PICK m : m = notices'[i].n
    OBVIOUS
  <2>1. i + 1 \in DOMAIN notices /\ notices'[i] = notices[i + 1]
    BY <1>2
  <2>2. CASE Excused(m, p)
    <3>1. Excused(m, p)'
      BY <1>4, <2>2
    <3> QED BY <3>1 DEF Excused, Stands
  <2>3. CASE ~Excused(m, p)
    <3>1. PICK j \in DOMAIN notices : i + 1 < j /\ Resolves(j, p)
      BY <1>6, <2>1, <2>3 DEF Freeing
    <3>2. j > 1 /\ i < j - 1
      BY <1>2, <3>1
    <3> QED BY <1>3, <3>1, <3>2
  <2> QED BY <2>2, <2>3
<1> QED BY <1>5, <1>6 DEF Freeing

\* The notice that a task publishes about an incident is excused.
LEMMA PublishedIsExcused ==
  ASSUME Sound, Known, NEW c \in causes, RcaPublish(c)
  PROVE  Excused(c.n, c.ep)'
<1>1. c.n # 0 /\ c.ep \in Endpoints /\ link \in [Endpoints -> States]
  BY NumbersAre DEF CauseType, Sound, Types, EngineTypes
<1>2. c.state = "DOWN" /\ causes \ {c} \subseteq causes' /\ UNCHANGED <<link, told>>
  BY DEF RcaPublish
<1>3. CASE told[c.ep] = c.n
  <2>1. Opposite(link[c.ep]) = "DOWN"
    BY <1>1, <1>2, <1>3 DEF Known
  <2>2. link[c.ep] = "UP"
    BY <1>1, <2>1, Opposites DEF States
  <2> QED BY <1>1, <1>2, <1>3, <2>2 DEF Excused, Stands
<1>4. CASE link[c.ep] # "UP" /\ told[c.ep] = 0
  BY <1>1, <1>2, <1>4 DEF Excused, Stands, States
<1>5. CASE Recoveries(c.ep, {"begun", "updated"}) # {}
  <2>1. PICK x \in causes : x.ep = c.ep /\ x.state = "UP" /\ x.pc \in {"begun", "updated"}
    BY <1>5 DEF Recoveries
  <2>2. x # c
    BY <1>2, <2>1
  <2> QED BY <1>2, <2>1, <2>2 DEF Excused, Recovering
<1>6. CASE c.n \in strays'
  BY <1>6 DEF Excused
<1> QED BY <1>3, <1>4, <1>5, <1>6 DEF RcaPublish, Mark

LEMMA FreeingStep ==
  ASSUME Sound, OneParent, Known, [Next]_vars, "rca fails" \notin seen', "lost event" \notin seen',
         NEW p \in Endpoints, Freeing(p)
  PROVE  Freeing(p)'
<1>0. notices \in Seq(NoticeType) /\ suppressed \in [Endpoints -> MutingType]
  BY DEF Sound, Types, QueueTypes, CacheTypes
<1>1. CASE suppressed' = suppressed /\ notices' = Append(notices, Resolution(p))
  <2>1. Resolution(p) \in NoticeType /\ Resolution(p).resolved /\ Resolution(p).root = p
    BY DEF Resolution, NoticeType
  <2> QED BY <1>0, <1>1, <2>1, FreeingStays
<1>2. CASE ExcusesStay(p) /\ ~Notice
  <2>1. ASSUME notices' = notices PROVE Freeing(p)'
    <3>1. \A e \in Endpoints : suppressed'[e] \in {suppressed[e], NoOne}
      BY <1>2, OthersMuteNobody DEF Sound, Types, EngineTypes
    <3>2. /\ \A e \in Endpoints : suppressed[e].inc \in Nat
          /\ \A i \in DOMAIN notices : notices[i].n \in Nat
      <4>1. \A i \in DOMAIN notices : notices[i] \in NoticeType
        BY ONLY <1>0
      <4>2. \A e \in Endpoints : suppressed[e] \in MutingType
        BY <1>0
      <4> QED BY <4>1, <4>2 DEF MutingType, NoticeType
    <3>3. ASSUME NEW e \in Endpoints, p \in suppressed'[e].parent
          PROVE  Excused(suppressed[e].inc, p)' \/ \E j \in DOMAIN notices' : Resolves(j, p)'
      <4>1. suppressed'[e] # NoOne
        <5>1. NoOne.parent = {}
          BY DEF NoOne
        <5> HIDE DEF NoOne
        <5> QED BY <3>3, <5>1
      <4>2. suppressed'[e] = suppressed[e]
        BY <3>1, <4>1
      <4> PICK m \in Nat : m = suppressed[e].inc
        BY <3>2
      <4>3. Excused(m, p) \/ \E j \in DOMAIN notices : Resolves(j, p)
        BY <3>3, <4>2 DEF Freeing
      <4>4. Excused(m, p) => Excused(m, p)'
        BY <1>2 DEF ExcusesStay
      <4>5. Excused(m, p)' => Excused(suppressed[e].inc, p)'
        BY <4>2 DEF Excused, Stands
      <4> QED BY <2>1, <4>3, <4>4, <4>5 DEF Resolves
    <3>4. ASSUME NEW i \in DOMAIN notices, notices[i].root = p, ~notices[i].resolved
          PROVE  \/ Excused(notices[i].n, p)'
                 \/ \E j \in DOMAIN notices : i < j /\ Resolves(j, p)
      <4> PICK m \in Nat : m = notices[i].n
        BY <3>2
      <4>1. Excused(m, p) \/ \E j \in DOMAIN notices : i < j /\ Resolves(j, p)
        BY <3>4 DEF Freeing
      <4>2. Excused(m, p) => Excused(m, p)'
        BY <1>2 DEF ExcusesStay
      <4>3. Excused(m, p)' => Excused(notices[i].n, p)'
        BY <2>1 DEF Excused, Stands
      <4> QED BY <4>1, <4>2, <4>3
    <3> QED BY <2>1, <3>3, <3>4 DEF Freeing, Resolves
  <2>2. ASSUME NEW c \in causes, CauseStep(c) PROVE Freeing(p)'
    <3>1. suppressed' = suppressed /\ c \in CauseType
      BY <2>2, CauseMoves
    <3>2. CASE RcaPublish(c)
      <4> DEFINE n == [n |-> c.n, root |-> c.ep, resolved |-> FALSE]
      <4>1. n \in NoticeType /\ n.root = c.ep /\ n.n = c.n /\ ~n.resolved
        <5>1. c.n \in Ns /\ c.ep \in Endpoints
          BY <3>1 DEF CauseType
        <5>2. c.n \in Nat
          BY <5>1, NumbersAre
        <5> QED BY <5>1, <5>2 DEF NoticeType
      <4>2. notices' = Append(notices, n)
        BY <3>2 DEF RcaPublish
      <4>3. Excused(c.n, c.ep)'
        BY <3>2, PublishedIsExcused
      <4> HIDE DEF n
      <4>4. n.root = p => Excused(n.n, p)'
        BY <4>1, <4>3
      <4> QED BY <1>0, <1>2, <3>1, <4>1, <4>2, <4>4, FreeingStays
    <3>3. CASE RecoveryCommit(c)
      <4>1. /\ Resolution(c.ep) \in NoticeType /\ Resolution(c.ep).root = c.ep
            /\ Resolution(c.ep).resolved
        BY <3>1 DEF Resolution, NoticeType, CauseType
      <4>2. notices' = Append(notices, Resolution(c.ep))
        BY <3>3 DEF RecoveryCommit
      <4> QED BY <1>0, <1>2, <3>1, <4>1, <4>2, FreeingStays
    <3> QED BY <2>1, <2>2, <3>2, <3>3 DEF CauseStep, RcaCommit, RecoveryUpdate
  <2>3. ASSUME NEW c \in causes PROVE ~CauseFails(c)
    BY DEF CauseFails, Upset
  <2>4. ASSUME NEW e \in Endpoints, Cycle(e) PROVE Freeing(p)'
    BY <2>1, <2>4, CycleMoves
  <2>5. ~Lose
    BY DEF Lose, Upset
  <2> QED BY <1>2, <2>1, <2>2, <2>3, <2>4, <2>5, EngineRests
<1>3. CASE Notice
  BY <1>3, OneParentStep, FreeingNotice
<1> QED BY <1>1, <1>2, <1>3, ExcusesLast

LEMMA MutingStep ==
  ASSUME Sound, Muting, [Next]_vars
  PROVE  Muting'
<1>1. OneParent' /\ Known'
  BY OneParentStep, KnownStep DEF Muting
<1>2. ASSUME "rca fails" \notin seen' PROVE RowsEnd'
  <2>1. Known /\ RowsEnd
    BY <1>2, SeenGrows DEF Muting
  <2> QED BY <1>2, <2>1, RowsEndStep
<1>3. ASSUME "rca fails" \notin seen', "lost event" \notin seen', NEW p \in Endpoints
      PROVE  Freeing(p)'
  <2>1. OneParent /\ Known /\ Freeing(p)
    BY <1>3, SeenGrows DEF Muting
  <2> QED BY <1>3, <2>1, FreeingStep
<1> QED BY <1>1, <1>2, <1>3 DEF Muting

\* Unless a task failed or an event was lost, an endpoint is muted as a symptom, and an
\* incident unresolved, only while there is a cause or news of its end are on their way,
\* but for the incidents of changes that were rolled back and those that came after the
\* recovery: for any tree of endpoints and any overlap of cycles that publish before they
\* commit, the tasks that look into outages and recoveries, and the channel between.
THEOREM MutedOnlyForACause == Spec => []MutedForACause
<1> DEFINE I == Sound /\ Muting
<1>1. Init => I
  <2> SUFFICES ASSUME Init PROVE Muting
    BY InitSound
  <2>1. NoOne.parent = {}
    BY DEF NoOne
  <2>2. /\ suppressed = [e \in Endpoints |-> NoOne] /\ incidents = {} /\ notices = <<>>
        /\ causes = {} /\ told = [e \in Endpoints |-> 0] /\ changes = 0
    BY DEF Init
  <2> HIDE DEF NoOne
  <2>3. \A e \in Endpoints : suppressed[e].parent = {}
    BY <2>1, <2>2
  <2>4. DOMAIN notices = {}
    BY <2>2
  <2>5. Known
    BY <2>2 DEF Known
  <2> QED BY <2>2, <2>3, <2>4, <2>5 DEF Muting, OneParent, RowsEnd, Freeing
<1>2. I /\ [Next]_vars => I'
  BY SoundStep, MutingStep
<1>3. I => MutedForACause
  <2> SUFFICES ASSUME I, "rca fails" \notin seen PROVE
        /\ Quiet /\ "lost event" \notin seen =>
             \A e \in Endpoints : \A p \in suppressed[e].parent :
               Live(suppressed[e]) => link[p] = "DOWN" \/ suppressed[e].inc \in strays
        /\ causes = {} => \A i \in incidents :
             link[i.root] = "DOWN" \/ told[i.root] = i.inc \/ i.inc \in strays
    BY DEF MutedForACause
  <2>1. ASSUME Quiet, "lost event" \notin seen, NEW e \in Endpoints, NEW p \in suppressed[e].parent
        PROVE  link[p] = "DOWN" \/ suppressed[e].inc \in strays
    <3>1. p \in Endpoints
      BY <2>1 DEF Sound, Types, CacheTypes, MutingType
    <3>2. causes = {} /\ DOMAIN notices = {} /\ told[p] = 0
      <4>1. causes = {} /\ notices = <<>>
        BY <2>1 DEF Quiet
      <4>2. told[p] = 0
        BY <2>1, <3>1 DEF Quiet
      <4>3. DOMAIN notices = {}
        BY ONLY <4>1
      <4> QED BY <4>1, <4>2, <4>3
    <3>3. Freeing(p)
      BY <2>1, <3>1 DEF Muting
    <3>4. Excused(suppressed[e].inc, p)
      BY <2>1, <3>2, <3>3 DEF Freeing
    <3> QED BY <3>2, <3>4 DEF Excused, Stands, Recovering
  <2>2. ASSUME causes = {}, NEW i \in incidents
        PROVE  link[i.root] = "DOWN" \/ told[i.root] = i.inc \/ i.inc \in strays
    BY <2>2 DEF Muting, RowsEnd, Stands
  <2> QED BY <2>1, <2>2
<1> QED BY <1>1, <1>2, <1>3, PTL DEF Spec
=============================================================================
