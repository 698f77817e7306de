--------------------------- MODULE IncidentTraces ---------------------------
(***************************************************************************)
(* The diagnostic traces of monitoring/engine.py, in the registry whose    *)
(* sweeps start them and whose removals cancel them.                       *)
(*                                                                         *)
(* A cycle with a failed ping starts a trace when fewer than Limit are     *)
(* registered.  A trace waits for one of Slots, runs up to three commands  *)
(* (services/diagnostics.py), pauses, gives its slot back and saves a row. *)
(* Other users of the slots (baseline routes, root-cause analysis) are not *)
(* modelled, nor are the toggle allow_incident_trace, which is one more    *)
(* reason for a cycle not to start a trace, and round-trip times.          *)
(***************************************************************************)
EXTENDS EndpointRegistry, FiniteSetsExt, SequencesExt

CONSTANTS
  Limit,        \* registered traces at most: 10
  Slots,        \* trace_semaphore: 3
  Local,        \* the endpoints on a subnet of this host
  Outputs(_),   \* what a command may print about an endpoint: lines [n, from]
  Silent,       \* from, when nobody answers at hop n
  MaxTraces     \* bound on the traces started

ASSUME TraceAssumption ==
  Limit \in Nat /\ Slots \in Nat /\ Local \subseteq Endpoints /\ Silent \notin Endpoints

\* A command's hops are counted from 1, and printed in the order of their numbers.
ASSUME OutputsAssumption ==
  \A e \in Endpoints : \A lines \in Outputs(e) :
    /\ lines \in Seq(ToSet(lines))
    /\ \A l \in ToSet(lines) : l.n \in Nat \ {0}
    /\ \A i, j \in DOMAIN lines : i < j => lines[i].n <= lines[j].n

VARIABLES
  traces,    \* the traces in the order they were started
  tracked,   \* _diagnostic_tasks
  queue      \* the waiters of trace_semaphore

tvars == <<vars, traces, tracked, queue>>

Commands == {"icmp", "udp", "tracepath"}

InFlight(i) == traces[i].at # "over"

TInit == Init /\ traces = <<>> /\ tracked = None /\ queue = <<>>

-----------------------------------------------------------------------------
(* A trace's result.                                                       *)

\* is_local_subnet_destination.
OnLink(e) == e \in Local

\* Faulty: every line that starts with a hop number is a hop.
Verbatim(lines) == lines

\* _parse_trace_output: the first line of each hop number counts.
Parsed(lines) ==
  FoldLeft(LAMBDA hops, l : IF \E i \in DOMAIN hops : hops[i].n = l.n
                            THEN hops ELSE Append(hops, l), <<>>, lines)

\* sanitize_traceroute_hops: one silent hop for several, and the target last.
Collapsed(hops) ==
  FoldLeft(LAMBDA kept, h : IF kept # <<>> /\ Last(kept).from = Silent /\ h.from = Silent
                            THEN kept ELSE Append(kept, h), <<>>, hops)

Sanitized(hops, e) ==
  LET kept == Collapsed(hops)
  IN  IF kept # <<>> /\ Last(kept).from = e THEN kept
      ELSE Append(kept, [n |-> IF kept = <<>> THEN 1 ELSE Last(kept).n + 1, from |-> e])

\* The routes a trace of an endpoint can find, and the one it falls back on.
Routes == [e \in Endpoints |-> {Sanitized(Parsed(lines), e) : lines \in Outputs(e)}]
Direct == [e \in Endpoints |-> Sanitized(<<>>, e)]

-----------------------------------------------------------------------------
(* The registry.                                                           *)

\* Faulty: the set goes with its first trace, as _on_done drops a sweep's entry.
Emptied(i) == [tracked EXCEPT ![traces[i].of] = {}]

\* _cleanup: the trace leaves its endpoint's set, whichever set that is by now.
Untracked(i) == [tracked EXCEPT ![traces[i].of] = @ \ {i}]

\* What remove_endpoint does to a trace: its task is asked to end.
Cut(i) ==
  IF InFlight(i) /\ \E e \in Gone : i \in tracked[e]
  THEN [traces[i] EXCEPT !.cut = "asked"] ELSE traces[i]

\* The waiters of traces that are not cancelled, in their turn.
Waiting(ts) ==
  FoldLeft(LAMBDA kept, i : IF ts[i].cut = "no" THEN Append(kept, i) ELSE kept, <<>>, queue)

\* The loop's pass, with the second half of remove_endpoint.  A waiter that is
\* cancelled loses its place at once.
SyncTraces ==
  /\ Sync
  /\ traces' = [i \in DOMAIN traces |-> Cut(i)]
  /\ tracked' = [e \in Endpoints |-> IF e \in Gone THEN {} ELSE tracked[e]]
  /\ queue' = Waiting(traces')

\* A cycle of a sweep has a failed ping: between the count and the entry there
\* is no await.
Trigger(e) ==
  LET i == Len(traces) + 1
  IN  /\ i <= MaxTraces
      /\ sweeping[e] \ young[e] # {}
      /\ Cardinality(UNION {tracked[f] : f \in Endpoints}) < Limit
      /\ traces' = Append(traces, [of |-> e, at |-> "queued", cut |-> "no", hops |-> <<>>])
      /\ tracked' = [tracked EXCEPT ![e] = @ \cup {i}]
      /\ queue' = Append(queue, i)
      /\ UNCHANGED vars

-----------------------------------------------------------------------------
(* A trace.                                                                *)

Holders == {i \in DOMAIN traces : traces[i].at \in Commands \cup {"pause"}}

\* run_throttled_traceroute has its turn; a local target needs no command.
Acquire ==
  /\ queue # <<>> /\ Cardinality(Holders) < Slots
  /\ queue' = Tail(queue)
  /\ LET i == Head(queue)  e == traces[i].of
     IN  traces' = [traces EXCEPT ![i] =
           IF OnLink(e) THEN [@ EXCEPT !.at = "pause", !.hops = <<[n |-> 1, from |-> e]>>]
                        ELSE [@ EXCEPT !.at = "icmp"]]
  /\ UNCHANGED <<vars, tracked>>

\* Up to Python 3.11 wait_for returns a result that is there and forgets the
\* cancellation that came with it.
Swallowed(cut) == IF cut = "asked" THEN "ignored" ELSE cut

\* The command prints something.
Answers(i) ==
  /\ traces[i].at \in Commands
  /\ \E route \in Routes[traces[i].of] :
       traces' = [traces EXCEPT ![i].at = "pause", ![i].hops = route,
                                ![i].cut = Swallowed(@)]
  /\ UNCHANGED <<vars, tracked, queue>>

\* Faulty: the second command falls back on the first.
Alternating(at) == IF at = "icmp" THEN "udp" ELSE "icmp"

After(at) == CASE at = "icmp" -> "udp" [] at = "udp" -> "tracepath" [] OTHER -> "pause"

\* The command cannot be run, fails, prints nothing, or is given up after 60 s:
\* the next is tried.  After the last the target alone is the route.
NoAnswer(i) ==
  /\ traces[i].at \in Commands
  /\ traces' = [traces EXCEPT ![i].at = After(@), ![i].cut = Swallowed(@),
                              ![i].hops = IF traces[i].at = "tracepath"
                                          THEN Direct[traces[i].of] ELSE @]
  /\ UNCHANGED <<vars, tracked, queue>>

\* Half a second later the slot is free.
Pause(i) ==
  /\ traces[i].at = "pause" /\ traces[i].cut # "asked"
  /\ traces' = [traces EXCEPT ![i].at = "save"]
  /\ UNCHANGED <<vars, tracked, queue>>

Over(i) ==
  /\ traces' = [traces EXCEPT ![i].at = "over", ![i].hops = <<>>]
  /\ tracked' = Untracked(i)
  /\ UNCHANGED <<vars, queue>>

\* The row is committed, or an error is logged and it is not.
Save(i) == traces[i].at = "save" /\ traces[i].cut # "asked" /\ Over(i)

\* The cancellation reaches the trace.
Ends(i) == InFlight(i) /\ traces[i].cut = "asked" /\ Over(i)

-----------------------------------------------------------------------------
RegistryOnly ==
  /\ \/ \E e \in Endpoints : Change(e) \/ Begin(e) \/ Fail(e) \/ End(e)
     \/ Select
  /\ UNCHANGED <<traces, tracked, queue>>

TNext ==
  \/ RegistryOnly \/ SyncTraces
  \/ \E e \in Endpoints : Trigger(e)
  \/ Acquire
  \/ \E i \in DOMAIN traces : Answers(i) \/ NoAnswer(i) \/ Pause(i) \/ Save(i) \/ Ends(i)

TSpec == TInit /\ [][TNext]_tvars

\* The loop passes, cancelled tasks end, a command ends within 60 seconds, the
\* semaphore serves its waiters in turn and the database answers.
TFairSpec ==
  /\ TSpec
  /\ WF_tvars(Select /\ UNCHANGED <<traces, tracked, queue>>) /\ WF_tvars(SyncTraces)
  /\ \A e \in Endpoints : WF_tvars(End(e) /\ UNCHANGED <<traces, tracked, queue>>)
  /\ WF_tvars(Acquire)
  /\ \A i \in 1..MaxTraces :
       WF_tvars(i \in DOMAIN traces
                  /\ (Answers(i) \/ NoAnswer(i) \/ Pause(i) \/ Save(i) \/ Ends(i)))

-----------------------------------------------------------------------------
(* Properties.                                                             *)

\* A trace that was never cancelled is in the set that remove_endpoint would
\* cancel, its endpoint is still registered, or swept by a sweep that lost its entry,
\* and there are at most Limit such traces, whatever was removed, reactivated or ended
\* late.  (Traces that are cancelled and not over yet are not counted.)
TracesAreTracked ==
  LET live == {i \in DOMAIN traces : InFlight(i) /\ traces[i].cut = "no"}
  IN  /\ Cardinality(live) <= Limit
      /\ \A i \in live : LET e == traces[i].of
                         IN  i \in tracked[e] /\ (e \in known \/ sweeping[e] \cap stray[e] # {})

\* The route a trace is about to save counts its hops upwards, has no two silent
\* ones in a row and leads to the endpoint, whichever command it comes from.
RoutesAreWhole ==
  \A i \in DOMAIN traces : traces[i].at = "save" =>
    LET hops == traces[i].hops
    IN  /\ hops # <<>> /\ Last(hops).from = traces[i].of
        /\ \A j \in 1..(Len(hops) - 1) : /\ hops[j].n < hops[j + 1].n
                                         /\ {hops[j].from, hops[j + 1].from} # {Silent}

\* Every trace comes to an end: none keeps its slot or waits for ever, with
\* commands that hang, cancellations that are ignored and endpoints that are
\* removed and reactivated.
TracesEnd == \A i \in 1..MaxTraces : (i \in DOMAIN traces) ~> (Len(traces) >= i /\ ~InFlight(i))

=============================================================================
