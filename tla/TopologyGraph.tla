--------------------------- MODULE TopologyGraph ---------------------------
(***************************************************************************)
(* The graph of services/topology.py and what is done to it: it is built   *)
(* from the database, a node's state is set, an endpoint's path is laid    *)
(* anew.                                                                   *)
(*                                                                         *)
(* An address is an endpoint's name or a router's.  All endpoints are in   *)
(* one /24.  _transit_children is the edges, and _monitored_by_ip the      *)
(* monitored nodes: every change keeps them so.                            *)
(***************************************************************************)
EXTENDS Integers, FiniteSetsExt, SequencesExt

CONSTANTS Endpoints, Routers, None

Silent == "*"                \* a hop that does not answer
Hops == Endpoints \cup Routers

Root == <<"root">>
Hub == <<"subnet hub">>
Monitored(e) == <<"monitored", e>>
Router(ip) == <<"transit", ip>>
Anonymous(tag, e) == <<"anon", tag, e>>
IsMonitored(n) == n[1] = "monitored"

Down == {"DOWN", "FAILURE_POINT"}
States == Down \cup {"UP", "INFERRED_DOWN"}

-----------------------------------------------------------------------------
\* sanitize_traceroute_hops: no silent hops at the end, one for several in a row.
EndsSilent(way) == way # <<>> /\ Last(way) = Silent

Collapsed(way, hop) == IF hop = Silent /\ EndsSilent(way) THEN way ELSE Append(way, hop)

Clean(hops) ==
  LET way == FoldLeft(Collapsed, <<>>, hops)
  IN  IF EndsSilent(way) THEN Front(way) ELSE way

\* The nodes on the way to e.
HopNode(e, hops, i, known) ==
  IF hops[i] = Silent THEN Anonymous(IF i = 1 THEN "root" ELSE hops[i - 1], e)
  ELSE IF hops[i] \in known THEN Monitored(hops[i]) ELSE Router(hops[i])
Way(e, hops, known) == [i \in DOMAIN hops |-> HopNode(e, hops, i, known)]

Links(path) ==
  {l \in {<<path[i], path[i + 1]>> : i \in 1..(Len(path) - 1)} : l[1] # l[2]}
PathLinks(e, hops, known) == Links(<<Root>> \o Way(e, hops, known) \o <<Monitored(e)>>)
EndsOf(edges) == UNION {{l[1], l[2]} : l \in edges}

\* All that edges lead to from the nodes in start.
Reach(edges, start) ==
  LET f[S \in SUBSET (start \cup EndsOf(edges))] ==
        LET T == S \cup {l[2] : l \in {x \in edges : x[1] \in S}}
        IN  IF T = S THEN S ELSE f[T]
  IN  f[start]

\* get_all_downstream_monitored
Downstream(edges, n) ==
  {m \in Reach({l \in edges : ~IsMonitored(l[1])}, {n}) : IsMonitored(m)}

\* _propagate_inferred_down
Propagate(g) ==
  LET dark(n) ==
        /\ n[1] = "transit" /\ g.state[n] # "FAILURE_POINT"
        /\ LET below == Downstream(g.edges, n)
           IN  below # {} /\ \A m \in below : g.state[m] \in Down
  IN  [g EXCEPT !.state = [n \in DOMAIN @ |-> IF dark(n) THEN "INFERRED_DOWN" ELSE @[n]]]

Known(g) == {e \in Endpoints : Monitored(e) \in DOMAIN g.state}

-----------------------------------------------------------------------------
(* full_rebuild *)

\* Step 4: a manual parent, when it is in the graph, or the hops of the route.
StepLinks(e, rows, routes, known) ==
  IF rows[e].parent \in known
    THEN {<<Monitored(rows[e].parent), Monitored(e)>>}
    ELSE PathLinks(e, IF e \in DOMAIN routes THEN Clean(routes[e]) ELSE <<>>, known)

\* Step 4b: two or more endpoints right below the root move below a hub.
Cluster(edges, known) ==
  LET direct == {Monitored(e) : e \in known} \cap {l[2] : l \in {x \in edges : x[1] = Root}}
  IN  IF Cardinality(direct) >= 2
        THEN (edges \ ({Root} \X direct)) \cup {<<Root, Hub>>} \cup ({Hub} \X direct)
        ELSE edges

\* failed: the endpoints with an open incident, and the hops where they found it.
StateOf(n, rows, failed) ==
  LET point == n[2] \in failed.hops \/ (IsMonitored(n) /\ n[2] \in failed.endpoints)
  IN  CASE IsMonitored(n) /\ rows[n[2]].up -> "UP"
        [] IsMonitored(n) /\ ~rows[n[2]].up -> (IF point THEN "FAILURE_POINT" ELSE "DOWN")
        [] n[1] = "transit" -> (IF point THEN "FAILURE_POINT" ELSE "UP")
        [] OTHER -> "UP"

\* rows: those that are not DELETED.
Build(rows, routes, failed) ==
  LET known == {e \in DOMAIN rows : rows[e].shown}
      edges == Cluster(UNION {StepLinks(e, rows, routes, known) : e \in known}, known)
      nodes == {Root} \cup {Monitored(e) : e \in known} \cup EndsOf(edges)
  IN  Propagate([state |-> [n \in nodes |-> StateOf(n, rows, failed)], edges |-> edges,
                 hidden |-> DOMAIN rows \ known, routes |-> routes,
                 parent |-> [e \in known |-> rows[e].parent]])

-----------------------------------------------------------------------------
\* update_node_status, past its look at the hidden endpoints
SetStatus(g, e, state) ==
  IF e \in Known(g) THEN Propagate([g EXCEPT !.state[Monitored(e)] = state]) ELSE g

\* Faulty: an anonymous hop is not taken for active.
RoutersOnly(routes, known) ==
  {n \in UNION {ToSet(Way(e, Clean(routes[e]), known)) : e \in DOMAIN routes} : n[1] # "anon"}

\* The transit nodes on any route.
Active(routes, known) ==
  UNION {ToSet(Way(e, Clean(routes[e]), known)) : e \in DOMAIN routes}

\* update_endpoint_path, past its look at the hidden endpoints
Restitch(g, e, hops) ==
  LET known == Known(g)
      way == Clean(hops)
      routes == [f \in {e} \cup DOMAIN g.routes |-> IF f = e THEN way ELSE g.routes[f]]
      laid == IF e \in known THEN PathLinks(e, way, known)
              ELSE Links(<<Root>> \o Way(e, way, known))
      edges == {l \in g.edges : l[2] # Monitored(e)} \cup laid
      ghost(n) == n[1] \in {"transit", "anon"} /\ n \notin Active(routes, known)
      nodes == {n \in DOMAIN g.state \cup EndsOf(laid) : ~ghost(n)}
  IN  Propagate([g EXCEPT
        !.state = [n \in nodes |-> IF n \in DOMAIN @ THEN @[n] ELSE "UP"],
        !.edges = {l \in edges : l[1] \in nodes /\ l[2] \in nodes},
        !.routes = routes])
=============================================================================
