----------------------------- MODULE Topology -----------------------------
(***************************************************************************)
(* The topology graph in one worker of the API, as services/topology.py,   *)
(* services/telemetry_relay.py, services/baseline_route.py and             *)
(* routers/endpoints.py keep it, over the rows of the database, which the  *)
(* monitoring engine and other workers write too.                          *)
(*                                                                         *)
(* The engine announces a transition on two channels before it commits it; *)
(* the relay sets the node's state at either.  Requests and the consumer   *)
(* of the discovery queue commit first, and then rebuild the graph or lay  *)
(* a path anew; a rebuild holds the lock while it reads.  What another     *)
(* worker commits does not reach this one's graph, and neither does the    *)
(* first row of a new endpoint, which the engine does not announce.        *)
(***************************************************************************)
EXTENDS TopologyGraph

CONSTANTS
  Unborn,      \* the endpoints that need not exist at the start
  Requests,    \* slots for concurrent requests and background tasks
  Routes,      \* what a traceroute may find, for each endpoint
  Failures,    \* where the root-cause analysis may find a failure
  MaxChanges, MaxRequests, MaxUpsets  \* bounds on transitions, requests and faults

Consumer == "consumer"
Tasks == Requests \cup {Consumer}
Channels == {"NODE_STATE_CHANGE", "STATE_TRANSITION"}

Found == UNION Range(Routes)

Rows == [status : {"ABSENT", "ACTIVE", "DELETED"}, shown : BOOLEAN,
         parent : Endpoints \cup {None}, event : BOOLEAN, up : BOOLEAN,
         route : {None} \cup Found, incident : Failures \cup {None}]

Rebuilds == [by : Tasks, ok : BOOLEAN, rows : UNION {[read -> Rows] : read \in SUBSET Endpoints},
             clean : SUBSET Endpoints, dirty : SUBSET Endpoints]

ASSUME TopologyAssumption ==
  /\ Consumer \notin Requests /\ Endpoints \cap Routers = {} /\ Silent \notin Hops
  /\ IsFiniteSet(Endpoints) /\ Routes \in [Endpoints -> SUBSET Seq(Hops \cup {Silent})]
  /\ None \notin Hops /\ None \notin BOOLEAN /\ None \notin Found /\ None \notin Rebuilds
  /\ Failures \subseteq Hops \cup {"no hop"}
  /\ Unborn \subseteq Endpoints
  /\ {MaxChanges, MaxRequests, MaxUpsets} \subseteq Nat

VARIABLES
  db,        \* rows: [status, shown, parent, route, incident], with event, has the engine
             \* written of it?, and up, what that says last, or UP
  graph,     \* the manager's
  rebuild,   \* _lock: None, or the rebuild that holds it: [by, rows, clean, dirty]
  coming,    \* what the engine has announced and not committed, or None
  wire,      \* events on the way, by channel
  queue,     \* discovery_route_queue
  discovering, \* discovery_in_progress
  tasks,     \* [at, e, arg, overtaken, then]
  changes, requests, upsets, \* how many there were
  astray,    \* history: endpoints whose state the graph may have missed
  blind      \* history: was a cycle made with no look, or an old one, at the others' parents?

gvars == <<db, graph, rebuild, coming, wire, queue, discovering, tasks, changes, requests,
           upsets, astray, blind>>

Live == {e \in Endpoints : db[e].status = "ACTIVE"}

Idle == [at |-> "idle", e |-> None, arg |-> None, overtaken |-> FALSE, then |-> None]

GInit ==
  /\ \E new \in SUBSET Unborn, up \in [Endpoints -> BOOLEAN] :
       db = [e \in Endpoints |->
               [status |-> IF e \in new THEN "ABSENT" ELSE "ACTIVE", shown |-> TRUE,
                parent |-> None, event |-> e \notin new, up |-> e \in new \/ up[e],
                route |-> None, incident |-> None]]
  \* the start-up rebuilds, before there are requests and before the relay listens
  /\ graph = Build([e \in Live |-> db[e]], <<>>, [endpoints |-> {}, hops |-> {}])
  /\ rebuild = None
  /\ coming = [e \in Endpoints |-> None]
  /\ wire = [c \in Channels |-> <<>>]
  /\ queue = <<>> /\ discovering = {}
  /\ tasks = [t \in Tasks |-> Idle]
  /\ changes = 0 /\ requests = 0 /\ upsets = 0
  /\ astray = {} /\ blind = FALSE

-----------------------------------------------------------------------------
Task(t, task) == tasks' = [tasks EXCEPT ![t] = task]
Step(t, at) == tasks' = [tasks EXCEPT ![t].at = at]
End(t) == tasks' = [tasks EXCEPT ![t] = Idle]

\* Faulty: what was discovered stays marked as in progress.
LeaveMarked(t) == End(t) /\ UNCHANGED discovering

\* A task ends; the consumer has done with its endpoint.
Leave(t) ==
  /\ End(t)
  /\ discovering' = IF t = Consumer THEN discovering \ {tasks[t].e} ELSE discovering

Upset == upsets < MaxUpsets /\ upsets' = upsets + 1

\* History: the graph may miss the state of e, whatever a rebuild under way has read.
Stray(e) ==
  /\ astray' = astray \cup {e}
  /\ rebuild' = IF rebuild = None THEN None ELSE [rebuild EXCEPT !.clean = @ \ {e}]

OnTheWay(e) == \E c \in Channels : \E i \in DOMAIN wire[c] : wire[c][i].e = e

-----------------------------------------------------------------------------
(* The engine *)

Announce(e) ==
  /\ e \in Live /\ db[e].event /\ coming[e] = None /\ changes < MaxChanges
  /\ changes' = changes + 1
  /\ coming' = [coming EXCEPT ![e] = ~db[e].up]
  /\ wire' = [c \in Channels |-> Append(wire[c], [e |-> e, up |-> ~db[e].up])]
  /\ UNCHANGED <<db, graph, rebuild, queue, discovering, tasks, requests, upsets, astray, blind>>

Commit(e) ==
  /\ coming[e] # None
  /\ db' = [db EXCEPT ![e].up = coming[e]]
  /\ coming' = [coming EXCEPT ![e] = None]
  /\ UNCHANGED <<graph, rebuild, wire, queue, discovering, tasks, changes, requests, upsets,
                 astray, blind>>

Rollback(e) ==
  /\ Upset
  /\ coming[e] # None
  /\ coming' = [coming EXCEPT ![e] = None]
  /\ Stray(e)
  /\ UNCHANGED <<db, graph, wire, queue, discovering, tasks, changes, requests, blind>>

\* create_initial_event: the first row of an endpoint is announced to nobody.
FirstRow(e) ==
  /\ db[e].status # "ABSENT" /\ ~db[e].event /\ changes < MaxChanges
  /\ changes' = changes + 1
  /\ \E up \in BOOLEAN :
       /\ db' = [db EXCEPT ![e].event = TRUE, ![e].up = up]
       /\ IF up = db[e].up THEN UNCHANGED <<rebuild, astray>> ELSE Stray(e)
  /\ UNCHANGED <<graph, coming, wire, queue, discovering, tasks, requests, upsets, blind>>

\* The root-cause analysis opens an incident, with the hop where it found the
\* failure or none, and resolves it on recovery.
Diagnose(e) ==
  /\ db[e].up # (db[e].incident = None) /\ changes < MaxChanges
  /\ changes' = changes + 1
  /\ \E hop \in IF db[e].up THEN {None} ELSE Failures :
       db' = [db EXCEPT ![e].incident = hop]
  /\ UNCHANGED <<graph, rebuild, coming, wire, queue, discovering, tasks, requests, upsets,
                 astray, blind>>

-----------------------------------------------------------------------------
(* The relay *)

\* Faulty: it does not wait for the lock.
SetsAtOnce(e, up) ==
  /\ graph' = IF e \in graph.hidden THEN graph
              ELSE SetStatus(graph, e, IF up THEN "UP" ELSE "DOWN")
  /\ rebuild' = IF rebuild # None /\ e \in graph.hidden
                  THEN [rebuild EXCEPT !.dirty = @ \cup {e}] ELSE rebuild

\* update_node_status: it looks at the hidden endpoints before it waits for the lock.
Sets(e, up) ==
  \/ /\ e \in graph.hidden
     /\ rebuild' = IF rebuild = None THEN None ELSE [rebuild EXCEPT !.dirty = @ \cup {e}]
     /\ UNCHANGED graph
  \/ /\ e \notin graph.hidden
     /\ rebuild = None
     /\ graph' = SetStatus(graph, e, IF up THEN "UP" ELSE "DOWN")
     /\ UNCHANGED rebuild

\* _maybe_trigger_auto_discovery
Discovers(e) ==
  IF e \notin discovering /\ (e \notin DOMAIN graph.routes \/ graph.routes[e] = <<>>)
    THEN discovering' = discovering \cup {e} /\ queue' = Append(queue, e)
    ELSE UNCHANGED <<discovering, queue>>

\* _handle_relayed_event
Handle(c) ==
  /\ wire[c] # <<>>
  /\ LET event == Head(wire[c])
     IN  /\ Sets(event.e, event.up)
         /\ IF c = "STATE_TRANSITION" /\ event.up THEN Discovers(event.e)
            ELSE UNCHANGED <<discovering, queue>>
  /\ wire' = [wire EXCEPT ![c] = Tail(@)]
  /\ UNCHANGED <<db, coming, tasks, changes, requests, upsets, astray, blind>>

\* An event is not published, or is published while the relay is not connected.
Lose(c) ==
  /\ Upset
  /\ wire[c] # <<>>
  /\ Stray(Head(wire[c]).e)
  /\ wire' = [wire EXCEPT ![c] = Tail(@)]
  /\ UNCHANGED <<db, graph, coming, queue, discovering, tasks, changes, requests, blind>>

-----------------------------------------------------------------------------
(* full_rebuild *)

Request(t) ==
  /\ t \in Requests /\ tasks[t].at = "idle" /\ requests < MaxRequests
  /\ requests' = requests + 1

\* POST /topology/rebuild
AskRebuild(t) ==
  /\ Request(t)
  /\ Task(t, [Idle EXCEPT !.at = "rebuild"])
  /\ UNCHANGED <<db, graph, rebuild, coming, wire, queue, discovering, changes, upsets, astray,
                 blind>>

\* The query for the endpoints; _safe_execute makes an error an empty answer, and
\* after an error the transaction answers nothing more.
Reads(t) ==
  /\ tasks[t].at = "rebuild" /\ rebuild = None
  /\ \/ /\ UNCHANGED upsets
        /\ rebuild' = [by |-> t, ok |-> TRUE, rows |-> [e \in Live |-> db[e]],
                       clean |-> {e \in Live : coming[e] = None /\ ~OnTheWay(e)},
                       dirty |-> {e \in Live : coming[e] # None /\ ~OnTheWay(e)}]
     \/ /\ Upset
        /\ rebuild' = [by |-> t, ok |-> FALSE, rows |-> <<>>, clean |-> {}, dirty |-> {}]
  /\ Step(t, "building")
  /\ UNCHANGED <<db, graph, coming, wire, queue, discovering, changes, requests, astray, blind>>

\* The queries for routes and for open incidents, of which it gets the first n.
Answers(n) ==
  LET routed == {e \in Endpoints : n > 0 /\ db[e].route # None}
      open == {e \in Endpoints : n > 1 /\ db[e].incident # None}
  IN  [routes |-> [e \in routed |-> db[e].route],
       failed |-> [endpoints |-> open, hops |-> {db[e].incident : e \in open}]]

Builds(t) ==
  /\ tasks[t].at = "building"
  /\ \E n \in 0..2 :
       /\ IF n = (IF rebuild.ok THEN 2 ELSE 0) THEN UNCHANGED upsets ELSE rebuild.ok /\ Upset
       /\ graph' = Build(rebuild.rows, Answers(n).routes, Answers(n).failed)
  /\ astray' = (astray \ rebuild.clean) \cup rebuild.dirty
  /\ rebuild' = None
  /\ Leave(t)
  /\ UNCHANGED <<db, coming, wire, queue, changes, requests, blind>>

-----------------------------------------------------------------------------
(* Requests on an endpoint; one served by another worker rebuilds there. *)

Afterwards(t, at) == \E here \in BOOLEAN : IF here THEN Step(t, at) ELSE End(t)

\* detect_parent_cycle: is e among p and the manual parents above it?
ParentCycle(e, p) == e \in Reach({l \in Endpoints \X Endpoints : db[l[1]].parent = l[2]}, {p})

\* PATCH of manual_parent_id, up to detect_parent_cycle.
CheckParent(t, e, p) ==
  /\ Request(t)
  /\ e \in Live /\ db[p].status # "ABSENT" /\ ~ParentCycle(e, p)
  /\ Task(t, [Idle EXCEPT !.at = "linking", !.e = e, !.arg = p])
  /\ UNCHANGED <<db, graph, rebuild, coming, wire, queue, discovering, changes, upsets, astray,
                 blind>>

\* The other changes of parents that were checked have been overtaken.
Overtaking(t) ==
  [u \in Tasks |-> IF u # t /\ tasks[u].at = "linking" THEN [tasks[u] EXCEPT !.overtaken = TRUE]
                   ELSE tasks[u]]

SetParent(t) ==
  /\ tasks[t].at = "linking"
  /\ LET e == tasks[t].e
     IN  IF e \in Live
           THEN /\ db' = [db EXCEPT ![e].parent = tasks[t].arg]
                /\ blind' = (blind \/ (tasks[t].overtaken /\ ParentCycle(e, tasks[t].arg)))
           ELSE UNCHANGED <<db, blind>>
  /\ \E here \in BOOLEAN :
       tasks' = [Overtaking(t) EXCEPT ![t] = IF here THEN [Idle EXCEPT !.at = "rebuild"] ELSE Idle]
  /\ UNCHANGED <<graph, rebuild, coming, wire, queue, discovering, changes, requests, upsets,
                 astray>>

\* PATCH of allow_topology_discovery
SetShown(t, e) ==
  /\ Request(t) /\ e \in Live
  /\ db' = [db EXCEPT ![e].shown = ~@]
  /\ Afterwards(t, "rebuild")
  /\ UNCHANGED <<graph, rebuild, coming, wire, queue, discovering, changes, upsets, astray, blind>>

Delete(t, e) ==
  /\ Request(t) /\ e \in Live
  /\ db' = [db EXCEPT ![e].status = "DELETED"]
  /\ Afterwards(t, "rebuild")
  /\ UNCHANGED <<graph, rebuild, coming, wire, queue, discovering, changes, upsets, astray, blind>>

\* POST of a new endpoint, or of the address of a deleted one, which is restored: any
\* parent there is is taken, and its route is discovered in the background.
Create(t, e, p) ==
  /\ Request(t) /\ e \notin Live
  /\ p # None => db[p].status # "ABSENT"
  /\ db' = [db EXCEPT ![e].status = "ACTIVE", ![e].shown = TRUE, ![e].parent = p]
  /\ blind' = (blind \/ ParentCycle(e, p))
  /\ \E here \in BOOLEAN :
       tasks' = [Overtaking(t) EXCEPT ![t] =
         IF here THEN [Idle EXCEPT !.at = "tracing", !.e = e] ELSE Idle]
  /\ UNCHANGED <<graph, rebuild, coming, wire, queue, discovering, changes, upsets, astray>>

-----------------------------------------------------------------------------
(* Route discovery *)

\* refresh_baseline_route, up to its look at the route it has, which stays when no
\* hop answered: what task t then writes, and its next step.  The wait for the
\* traceroute, before, is not a state: nothing is kept across it.
Traced(t, e, next) ==
  \E found \in Routes[e] :
    LET had == db[e].route
        keep == Clean(found) = <<>> /\ had # None /\ Clean(had) # <<>>
    IN  Task(t, [Idle EXCEPT !.at = "traced", !.e = e,
                             !.arg = IF keep THEN had ELSE found, !.then = next])

\* POST of refresh-baseline
AskRefresh(t, e) ==
  /\ Request(t) /\ e \in Live
  /\ Traced(t, e, "path")
  /\ UNCHANGED <<db, graph, rebuild, coming, wire, queue, discovering, changes, upsets, astray,
                 blind>>

\* _bg_run_initial_discovery
Trace(t) ==
  /\ tasks[t].at = "tracing"
  /\ Traced(t, tasks[t].e, "rebuild")
  /\ UNCHANGED <<db, graph, rebuild, coming, wire, queue, discovering, changes, requests,
                 upsets, astray, blind>>

\* enqueue_scheduled_discovery, at midnight or for POST of discover-all
EnqueueAll ==
  /\ requests < MaxRequests /\ requests' = requests + 1
  /\ LET due == {e \in Live : db[e].up} \ discovering
     IN  /\ due # {}
         /\ \E order \in SetToSeqs(due) : queue' = queue \o order
         /\ discovering' = discovering \cup due
  /\ UNCHANGED <<db, graph, rebuild, coming, wire, tasks, changes, upsets, astray, blind>>

Dequeue ==
  /\ tasks[Consumer].at = "idle" /\ queue # <<>>
  /\ Traced(Consumer, Head(queue), "path")
  /\ queue' = Tail(queue)
  /\ UNCHANGED <<db, graph, rebuild, coming, wire, discovering, changes, requests, upsets,
                 astray, blind>>

\* The rest of it, and the commit.
Store(t) ==
  /\ tasks[t].at = "traced"
  /\ db' = [db EXCEPT ![tasks[t].e].route = tasks[t].arg]
  /\ IF t = Consumer THEN Step(t, tasks[t].then) ELSE Afterwards(t, tasks[t].then)
  /\ UNCHANGED <<graph, rebuild, coming, wire, queue, discovering, changes, requests, upsets,
                 astray, blind>>

StoreFails(t) ==
  /\ tasks[t].at = "traced"
  /\ Upset
  /\ Leave(t)
  /\ UNCHANGED <<db, graph, rebuild, coming, wire, queue, changes, requests, astray, blind>>

\* update_endpoint_path; the consumer rebuilds when its queue is empty.
LayPath(t) ==
  /\ tasks[t].at = "path"
  /\ \/ tasks[t].e \in graph.hidden /\ UNCHANGED graph
     \/ /\ tasks[t].e \notin graph.hidden /\ rebuild = None
        /\ graph' = Restitch(graph, tasks[t].e, tasks[t].arg)
  /\ IF t = Consumer /\ queue = <<>> THEN Step(t, "rebuild") /\ UNCHANGED discovering
     ELSE Leave(t)
  /\ UNCHANGED <<db, rebuild, coming, wire, queue, changes, requests, upsets, astray, blind>>

-----------------------------------------------------------------------------
Quiet ==
  /\ \A t \in Tasks : tasks[t].at = "idle"
  /\ \A e \in Endpoints : coming[e] = None /\ ~OnTheWay(e)
  /\ queue = <<>>
Done == Quiet /\ UNCHANGED gvars

GNext ==
  \/ \E e \in Endpoints : Announce(e) \/ Commit(e) \/ Rollback(e) \/ FirstRow(e) \/ Diagnose(e)
  \/ \E c \in Channels : Handle(c) \/ Lose(c)
  \/ \E t \in Tasks :
       \/ Reads(t) \/ Builds(t) \/ SetParent(t) \/ Trace(t) \/ Store(t) \/ StoreFails(t)
       \/ LayPath(t) \/ AskRebuild(t)
  \/ \E t \in Tasks, e \in Endpoints :
       \/ SetShown(t, e) \/ Delete(t, e) \/ AskRefresh(t, e)
       \/ \E p \in Endpoints : CheckParent(t, e, p)
       \/ \E p \in Endpoints \cup {None} : Create(t, e, p)
  \/ EnqueueAll \/ Dequeue
  \/ Done

GSpec == GInit /\ [][GNext]_gvars

-----------------------------------------------------------------------------
\* Rows, graph, tasks and queue are what they should be; an endpoint whose
\* discovery is under way is queued once or with the consumer.
TypeOK ==
  /\ db \in [Endpoints -> Rows]
  /\ graph.state \in [DOMAIN graph.state -> States] /\ Root \in DOMAIN graph.state
  /\ EndsOf(graph.edges) \subseteq DOMAIN graph.state
  /\ Known(graph) \cap graph.hidden = {} /\ DOMAIN graph.parent = Known(graph)
  /\ coming \in [Endpoints -> BOOLEAN \cup {None}]
  /\ LET at == tasks[Consumer]
     IN  /\ discovering = ToSet(queue) \cup (IF at.at = "idle" THEN {} ELSE {at.e})
         /\ IsInjective(queue) /\ at.e \notin ToSet(queue)

\* The endpoints below a cycle of manual parents, as the last rebuild read them.
Knotted ==
  {e \in Known(graph) :
    LET parents(f) == IF graph.parent[f] \in Known(graph) THEN {graph.parent[f]} ELSE {}
        edges == {l \in Known(graph) \X Known(graph) : l[2] \in parents(l[1])}
    IN  \E c \in Reach(edges, {e}) : c \in Reach(edges, parents(c))}

\* Whatever paths were pruned and laid anew, the root reaches every endpoint in
\* the graph, but those below a cycle of manual parents, which takes a parent
\* that was set with no look at the others, or an old one.
Connected ==
  LET below == Reach(graph.edges, {Root})
  IN  \A e \in Known(graph) : Monitored(e) \in below \/ (blind /\ e \in Knotted)

\* When no event or commit is outstanding, an endpoint is shown up as its row says,
\* unless since the graph last took its row a transition was rolled back, an event
\* lost, or its first row said DOWN, which nobody is told, or the row was read between
\* its announcement and its commit, or an event passed over as the endpoint was being
\* unhidden; and a router with nothing up below it is never shown up.
GraphFollows ==
  /\ \A e \in Known(graph) \ astray :
       coming[e] = None /\ ~OnTheWay(e) => (graph.state[Monitored(e)] = "UP" <=> db[e].up)
  /\ \A n \in DOMAIN graph.state :
       n[1] = "transit" /\ graph.state[n] = "UP" =>
         LET below == Downstream(graph.edges, n)
         IN  below = {} \/ \E m \in below : graph.state[m] \notin Down
=============================================================================
