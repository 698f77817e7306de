--------------------------- MODULE FlowCollector ----------------------------
(***************************************************************************)
(* monitoring/flow/collector.py with the parsers it feeds: datagrams of    *)
(* NetFlow v5, v9 and IPFIX become flows, data sets wait for the template  *)
(* that describes them, and flows wait in memory for a batch to Redis, from *)
(* where FlowAggregator reads them.                                        *)
(*                                                                         *)
(* A source is an exporter with its protocol and source or domain id.  A   *)
(* flow is the record k of the set i of the log of all sets received.      *)
(***************************************************************************)
EXTENDS Naturals, SequencesExt, Bags

CONSTANTS
  Sources, Ipfix,  \* sources, and those that speak IPFIX
  Tids,            \* template ids
  Datagrams,       \* what may arrive: a source and its sets
  TemplateTtl, OrphanTtl,  \* ticks a template and a data set without one are kept
  Orphans,         \* how many such data sets of a source are kept
  MaxQueue, BatchSize,     \* MAX_QUEUE_SIZE and batch_size
  MaxSets, MaxTime, MaxErrors  \* bounds on sets received, the clock and errors of Redis

\* The layouts a template may give: fields with both addresses, without one of them,
\* none at all, or (IPFIX) with a field of variable length.
Layouts == {"plain", "no address", "empty", "variable"}

Sets == [is : {"template"}, tid : Tids, layout : Layouts]
        \cup [is : {"data"}, tid : Tids, n : Nat] \cup [is : {"v5"}, n : Nat]

ASSUME CollectorAssumption ==
  /\ Ipfix \subseteq Sources /\ Datagrams \subseteq [src : Sources, sets : Seq(Sets)]
  /\ {TemplateTtl, OrphanTtl, MaxSets, MaxTime, MaxErrors} \subseteq Nat
  /\ {Orphans, MaxQueue, BatchSize} \subseteq Nat \ {0}

VARIABLES
  now,        \* the clock
  templates,  \* _templates of both parsers: layout, "none" if there is none, and age
  buffer,     \* _orphan_buffer of both: per source the sets that wait, oldest first
  queue,      \* _queue: flows that wait for a flush
  spawned,    \* flush tasks created by handle_packet that did not run yet
  flights,    \* batches on their way to Redis, with the flush that sends them
  loop,       \* the flush loop: "sleep", "sending", "off"
  daemon,     \* the daemon: "running", "stopping", "closing", "stopped", "exited"
  sent,       \* how often each flow was added to the stream in Redis
  errors,     \* how many errors of Redis there were
  log,        \* history: every set received, with source and time
  decoded,    \* history: every flow the parsers returned
  dropped,    \* history: flows the queue had no room for
  broken      \* history: flows of batches that ended in an error or were cut off

cvars == <<now, templates, buffer, queue, spawned, flights, loop, daemon, sent, errors, log,
           decoded, dropped, broken>>

Keys == Sources \X Tids

CInit ==
  /\ now = 0
  /\ templates = [k \in Keys |-> [layout |-> "none", at |-> 0]]
  /\ buffer = [s \in Sources |-> <<>>]
  /\ queue = {} /\ spawned = 0 /\ flights = {} /\ loop = "sleep" /\ daemon = "running"
  /\ sent = EmptyBag /\ errors = 0
  /\ log = <<>> /\ decoded = {} /\ dropped = {} /\ broken = {}

-----------------------------------------------------------------------------
(* The parsers.  p is what they work on: templates, buffer, log and flows.  *)

\* Can data be decoded with the template?
Usable(layout) == layout \notin {"none", "empty"}

Numbered(i, n) == [k \in 1..n |-> <<i, k>>]

\* The flows of set i with n records: a record without both addresses is none.
V9Flows(layout, i, n) == IF layout = "plain" THEN Numbered(i, n) ELSE <<>>

\* In IPFIX a variable length is read as 65535 bytes: no record is ever that long.
IpfixFlows(layout, i, n) ==
  IF layout \in {"no address", "variable"} THEN <<>> ELSE Numbered(i, n)

FlowsOf(s, layout, i, n) ==
  IF s \in Ipfix THEN IpfixFlows(layout, i, n) ELSE V9Flows(layout, i, n)

\* _cleanup_expired, when a packet comes.
Unexpired(t) ==
  [k \in Keys |-> IF now - t[k].at > TemplateTtl THEN [layout |-> "none", at |-> 0] ELSE t[k]]

Young(item) == now - item.at <= OrphanTtl

\* Faulty: what waits for another template is forgotten.
DrainAll(p, s, tid) ==
  LET layout == p.templates[<<s, tid>>].layout
      Adding(flows, item) ==
        IF Young(item) /\ item.tid = tid /\ Usable(layout)
        THEN flows \o FlowsOf(s, layout, item.i, item.n) ELSE flows
  IN  [p EXCEPT !.flows = FoldLeft(Adding, @, p.buffer[s]), !.buffer[s] = <<>>]

\* _drain_orphans: the sets that wait for the template are decoded, the others stay.
WithOrphan(p, s, tid, item) ==
  LET layout == p.templates[<<s, tid>>].layout
  IN  IF ~Young(item) THEN p
      ELSE IF item.tid # tid THEN [p EXCEPT !.buffer[s] = Append(@, item)]
      ELSE IF Usable(layout) THEN [p EXCEPT !.flows = @ \o FlowsOf(s, layout, item.i, item.n)]
      ELSE p

Drain(p, s, tid) ==
  LET Adding(q, item) == WithOrphan(q, s, tid, item)
  IN  FoldLeft(Adding, [p EXCEPT !.buffer[s] = <<>>], p.buffer[s])

WithTemplate(p, s, set) ==
  Drain([p EXCEPT !.templates[<<s, set.tid>>] = [layout |-> set.layout, at |-> now]], s, set.tid)

\* A deque of bounded length forgets its oldest element.
Bounded(q) == IF Len(q) > Orphans THEN Tail(q) ELSE q

WithData(p, s, set) ==
  LET layout == p.templates[<<s, set.tid>>].layout
      i == Len(p.log)
  IN  IF Usable(layout) THEN [p EXCEPT !.flows = @ \o FlowsOf(s, layout, i, set.n)]
      ELSE [p EXCEPT !.buffer[s] =
              Bounded(Append(@, [at |-> now, tid |-> set.tid, i |-> i, n |-> set.n]))]

\* parse_v5_packet: a version 5 record needs no template.
WithV5(p, set) == [p EXCEPT !.flows = @ \o Numbered(Len(p.log), set.n)]

WithSet(p, s, set) ==
  LET q == [p EXCEPT !.log = Append(@, [set |-> set, src |-> s, at |-> now])]
  IN  CASE set.is = "template" -> WithTemplate(q, s, set)
        [] set.is = "data" -> WithData(q, s, set)
        [] set.is = "v5" -> WithV5(q, set)

Parsed(d) ==
  LET Adding(p, set) == WithSet(p, d.src, set)
  IN  FoldLeft(Adding, [templates |-> Unexpired(templates), buffer |-> buffer, log |-> log,
                        flows |-> <<>>], d.sets)

-----------------------------------------------------------------------------
(* The collector.                                                          *)

\* handle_packet: what fits into the queue is queued, and a full batch is flushed.
Packet(d) ==
  /\ daemon \in {"running", "stopping"} /\ Len(log) + Len(d.sets) <= MaxSets
  /\ LET p == Parsed(d)
         room == MaxQueue - Cardinality(queue)
         taken == ToSet(SubSeq(p.flows, 1, IF Len(p.flows) > room THEN room ELSE Len(p.flows)))
     IN  /\ templates' = p.templates /\ buffer' = p.buffer /\ log' = p.log
         /\ queue' = queue \cup taken
         /\ decoded' = decoded \cup ToSet(p.flows)
         /\ dropped' = dropped \cup (ToSet(p.flows) \ taken)
         /\ spawned' = IF taken # {} /\ Cardinality(queue') >= BatchSize
                       THEN spawned + 1 ELSE spawned
  /\ UNCHANGED <<now, flights, loop, daemon, sent, errors, broken>>

\* A flush begins: what is queued is taken out, then sent.
Flight(by) == IF queue = {} THEN {} ELSE {[by |-> by, batch |-> queue]}

\* Faulty: the queue is emptied when the batch has been sent.
TakeLate(by) ==
  /\ flights' = flights \cup Flight(by)
  /\ UNCHANGED queue

Take(by) ==
  /\ flights' = flights \cup Flight(by)
  /\ queue' = {}

RunTask ==
  /\ spawned > 0 /\ daemon # "exited"
  /\ spawned' = spawned - 1
  /\ Take("task")
  /\ UNCHANGED <<now, templates, buffer, loop, daemon, sent, errors, log, decoded, dropped,
                 broken>>

\* _flush_loop, after its sleep.
Wake ==
  /\ loop = "sleep" /\ queue # {}
  /\ Take("loop") /\ loop' = "sending"
  /\ UNCHANGED <<now, templates, buffer, spawned, daemon, sent, errors, log, decoded, dropped,
                 broken>>

\* Faulty: the loop is over after its first batch.
LoopEnds(f) ==
  /\ flights' = flights \ {f}
  /\ loop' = IF f.by = "loop" THEN "off" ELSE loop
  /\ daemon' = IF f.by = "stop" THEN "stopped" ELSE daemon
  /\ UNCHANGED <<now, templates, buffer, queue, spawned, log, decoded, dropped>>

\* A batch is out: the loop sleeps again, the flush of stop is over.
Landed(f) ==
  /\ flights' = flights \ {f}
  /\ loop' = IF f.by = "loop" THEN "sleep" ELSE loop
  /\ daemon' = IF f.by = "stop" THEN "stopped" ELSE daemon
  /\ UNCHANGED <<now, templates, buffer, queue, spawned, log, decoded, dropped>>

Answer(f) ==
  /\ sent' = sent (+) SetToBag(f.batch)
  /\ Landed(f) /\ UNCHANGED <<errors, broken>>

\* The pipeline is a transaction: after an error all of it was executed, or nothing.
RedisError(f) ==
  /\ errors < MaxErrors /\ errors' = errors + 1
  /\ sent' \in {sent, sent (+) SetToBag(f.batch)}
  /\ broken' = broken \cup f.batch
  /\ Landed(f)

\* stop cancels the loop, in its sleep or in the middle of a batch.
StopCollector ==
  /\ daemon = "running" /\ daemon' = "stopping"
  /\ loop' = "off"
  /\ LET cut == {f \in flights : f.by = "loop"}
         flows == UNION {f.batch : f \in cut}
     IN  /\ flights' = flights \ cut
         /\ broken' = broken \cup flows
         /\ sent' \in {sent, sent (+) SetToBag(flows)}
  /\ UNCHANGED <<now, templates, buffer, queue, spawned, errors, log, decoded, dropped>>

\* The sockets are closed and what is queued is flushed.
Close ==
  /\ daemon = "stopping"
  /\ daemon' = IF queue = {} THEN "stopped" ELSE "closing"
  /\ Take("stop")
  /\ UNCHANGED <<now, templates, buffer, spawned, loop, sent, errors, log, decoded, dropped,
                 broken>>

\* The daemon ends, with any flush tasks that are left.
ExitCollector ==
  /\ daemon = "stopped" /\ daemon' = "exited"
  /\ \E done \in SUBSET flights :
       sent' = sent (+) SetToBag(UNION {f.batch : f \in done})
  /\ broken' = broken \cup UNION {f.batch : f \in flights}
  /\ flights' = {} /\ spawned' = 0
  /\ UNCHANGED <<now, templates, buffer, queue, loop, errors, log, decoded, dropped>>

Tick ==
  /\ now < MaxTime /\ now' = now + 1
  /\ UNCHANGED <<templates, buffer, queue, spawned, flights, loop, daemon, sent, errors, log,
                 decoded, dropped, broken>>

Answered == \E f \in flights : Answer(f)

CNext ==
  \/ \E d \in Datagrams : Packet(d)
  \/ RunTask \/ Wake \/ Answered \/ (\E f \in flights : RedisError(f))
  \/ StopCollector \/ Close \/ ExitCollector \/ Tick

\* Tasks run, Redis answers, and a daemon that stops closes.
CSpec == CInit /\ [][CNext]_cvars /\ WF_cvars(RunTask) /\ WF_cvars(Wake) /\ WF_cvars(Answered)
        /\ WF_cvars(Close)

-----------------------------------------------------------------------------
(* Properties.                                                             *)

\* What the parsers must do with set i, said of the whole log.
IsData(i) == log[i].set.is = "data"

Same(i, k) == log[k].src = log[i].src /\ log[k].set.tid = log[i].set.tid

TemplatesFor(i) == {k \in 1..Len(log) : log[k].set.is = "template" /\ Same(i, k)}

\* The layout set i has to be decoded with when it arrives, or "none".
Current(i) ==
  LET before == {k \in TemplatesFor(i) : k < i}
      last == Max(before)
  IN  IF before = {} \/ log[i].at - log[last].at > TemplateTtl THEN "none"
      ELSE log[last].set.layout

Orphan(i) == IsData(i) /\ ~Usable(Current(i))

\* The template an orphan was waiting for, if that came in time.
Rescuer(i) ==
  LET after == {k \in TemplatesFor(i) : k > i}
      first == Min(after)
  IN  IF after = {} \/ log[first].at - log[i].at > OrphanTtl \/ log[first].set.layout = "empty"
      THEN {} ELSE {first}

\* Orphans of the same source that came while i waited for k.
Rivals(i, k) == {j \in i + 1..k - 1 : Orphan(j) /\ log[j].src = log[i].src}

Whole(i, layout) == \A x \in ToSet(FlowsOf(log[i].src, layout, i, log[i].set.n)) : x \in decoded

\* A data set is decoded when it arrives if its template is known, and else as soon as
\* the template comes, if that is in time and fewer sets than the buffer holds came
\* without a template in between; no other set is decoded.
OrphansAreDecoded ==
  /\ \A i \in 1..Len(log) : IsData(i) =>
       /\ Usable(Current(i)) => Whole(i, Current(i))
       /\ Orphan(i) => \A k \in Rescuer(i) :
                         Cardinality(Rivals(i, k)) < Orphans => Whole(i, log[k].set.layout)
  /\ \A x \in decoded : Orphan(x[1]) => Rescuer(x[1]) # {}

InFlight == UNION {f.batch : f \in flights}

TimesSent(x) == IF BagIn(x, sent) THEN sent[x] ELSE 0

\* Every flow that was decoded waits in the queue, is on its way, or is in the stream,
\* once and in one of these places only, unless the queue was full or its batch broken.
FlowsAreKept ==
  /\ \A x \in decoded \ (dropped \cup broken) :
       Cardinality({p \in {"queue"} : x \in queue}) + Cardinality({f \in flights : x \in f.batch})
         + TimesSent(x) = 1
  /\ \A x \in dropped \cup broken : x \notin queue \cup InFlight /\ TimesSent(x) <= 1

\* No flow waits in the queue for ever, however few there are.
QueueDrains == []<>(queue = {})
=============================================================================
