---------------------------- MODULE AlertElection ----------------------------
(***************************************************************************)
(* services/alert_dispatcher.py, the part every API worker runs: the       *)
(* election of the worker that alerts through a session advisory lock of   *)
(* PostgreSQL, the standby loop of the others, the subscription of the     *)
(* leader to the event broker, its queue and the tasks that dispatch the   *)
(* queued events, and the order in which stop() ends all that.             *)
(*                                                                         *)
(* The lock belongs to a session.  When that session dies the leader does  *)
(* not notice: it never uses the connection again before stop().           *)
(* What dispatching an event does is in AlertDispatcher.                   *)
(***************************************************************************)
EXTENDS Naturals, Sequences

CONSTANTS
  Workers,    \* processes of the API
  Capacity,   \* maxsize of a worker's queue
  Upsets,     \* the kinds of fault and stop that may happen
  MaxEvents, MaxUpsets  \* bounds on the events published and on the upsets

UpsetKinds == {"connect", "session", "broker", "listen", "stop", "crash"}

ASSUME ElectionAssumption ==
  /\ Capacity \in Nat \ {0} /\ MaxEvents \in Nat /\ MaxUpsets \in Nat
  /\ Upsets \subseteq UpsetKinds

VARIABLES
  phase,      \* of each worker: down, starting, standby, leader, closing, closed
  lock,       \* workers whose session holds the advisory lock
  listening,  \* workers subscribed to the broker
  deaf,       \* workers whose LISTEN connection died: their subscription waits for ever
  queue,      \* _queue of each worker
  flying,     \* _dispatch_tasks: the events each worker is dispatching
  published,  \* how many events were published
  heard,      \* history: the workers whose queue took each event
  sent,       \* history: the workers that dispatched each event
  upsets,     \* how many upsets have happened
  seen        \* history: the kinds of those

vars == <<phase, lock, listening, deaf, queue, flying, published, heard, sent, upsets, seen>>

Events == 1..MaxEvents

Upset(kind) ==
  /\ kind \in Upsets /\ upsets < MaxUpsets
  /\ upsets' = upsets + 1
  /\ seen' = seen \cup {kind}

Init ==
  /\ phase = [w \in Workers |-> "down"]
  /\ lock = {} /\ listening = {} /\ deaf = {}
  /\ queue = [w \in Workers |-> <<>>] /\ flying = [w \in Workers |-> {}]
  /\ published = 0
  /\ heard = [e \in Events |-> {}] /\ sent = [e \in Events |-> {}]
  /\ upsets = 0 /\ seen = {}

-----------------------------------------------------------------------------
(* Start and election.                                                     *)

\* The worker runs and its queue consumer waits; it has yet to try the lock.
Start(w) ==
  /\ phase[w] = "down"
  /\ phase' = [phase EXCEPT ![w] = "starting"]
  /\ UNCHANGED <<lock, listening, deaf, queue, flying, published, heard, sent, upsets, seen>>

\* Faulty: the answer of pg_try_advisory_lock is not looked at.
Anyway(w) ==
  /\ lock' = IF lock = {} THEN {w} ELSE lock
  /\ phase' = [phase EXCEPT ![w] = "leader"]

\* pg_try_advisory_lock: granted to one session at a time.
TryLock(w) ==
  IF lock = {}
  THEN lock' = {w} /\ phase' = [phase EXCEPT ![w] = "leader"]
  ELSE lock' = lock /\ phase' = [phase EXCEPT ![w] = "standby"]

\* start() tries once ...
Elect(w) ==
  /\ phase[w] = "starting"
  /\ TryLock(w)
  /\ UNCHANGED <<listening, deaf, queue, flying, published, heard, sent, upsets, seen>>

\* ... and closes its connection and stands by when that fails.
ElectFails(w) ==
  /\ phase[w] = "starting"
  /\ Upset("connect")
  /\ phase' = [phase EXCEPT ![w] = "standby"]
  /\ UNCHANGED <<lock, listening, deaf, queue, flying, published, heard, sent>>

\* Faulty: the first attempt that fails ends the loop.
Resigns(w) ==
  /\ phase[w] = "standby" /\ lock = {} /\ "connect" \notin seen
  /\ TryLock(w)
  /\ UNCHANGED <<listening, deaf, queue, flying, published, heard, sent, upsets, seen>>

\* _standby_election_loop: every 2.5 seconds, attempts that fail included.
Retry(w) ==
  /\ phase[w] = "standby" /\ lock = {}
  /\ TryLock(w)
  /\ UNCHANGED <<listening, deaf, queue, flying, published, heard, sent, upsets, seen>>

\* The session that holds the lock ends on the server: a restart of PostgreSQL,
\* a network failure, a limit on sessions idle in a transaction.
SessionDies(w) ==
  /\ w \in lock
  /\ Upset("session")
  /\ lock' = lock \ {w}
  /\ UNCHANGED <<phase, listening, deaf, queue, flying, published, heard, sent>>

-----------------------------------------------------------------------------
(* Events.                                                                 *)

\* _listen_broker subscribes, unless its subscription is still waiting ...
Subscribe(w) ==
  /\ phase[w] = "leader" /\ w \notin listening \cup deaf
  /\ listening' = listening \cup {w}
  /\ UNCHANGED <<phase, lock, deaf, queue, flying, published, heard, sent, upsets, seen>>

\* ... and subscribes again three seconds after the subscription failed, as that of
\* Redis does when its connection breaks.
Unsubscribed(w) ==
  /\ w \in listening
  /\ Upset("broker")
  /\ listening' = listening \ {w}
  /\ UNCHANGED <<phase, lock, deaf, queue, flying, published, heard, sent>>

\* That of PostgreSQL does not fail when its LISTEN connection dies: it waits for its
\* local queue, which nothing fills any more.
Deafened(w) ==
  /\ w \in listening
  /\ Upset("listen")
  /\ listening' = listening \ {w}
  /\ deaf' = deaf \cup {w}
  /\ UNCHANGED <<phase, lock, queue, flying, published, heard, sent>>

\* The subscribers whose queue takes an event (enqueue_event): they run, lead
\* and have room; the others drop it.
Takers == {w \in listening : phase[w] = "leader" /\ Len(queue[w]) < Capacity}

\* The engine publishes an event to whoever is subscribed.
Publish ==
  /\ published < MaxEvents
  /\ published' = published + 1
  /\ queue' = [w \in Workers |-> IF w \in Takers THEN Append(queue[w], published + 1)
                                                 ELSE queue[w]]
  /\ heard' = [heard EXCEPT ![published + 1] = Takers]
  /\ UNCHANGED <<phase, lock, listening, deaf, flying, sent, upsets, seen>>

\* Faulty: what waits behind the event is dropped with it.
Drains(w) ==
  /\ phase[w] \in {"starting", "standby", "leader"} /\ queue[w] # <<>>
  /\ queue' = [queue EXCEPT ![w] = <<>>]
  /\ flying' = [flying EXCEPT ![w] = @ \cup {Head(queue[w])}]
  /\ UNCHANGED <<phase, lock, listening, deaf, published, heard, sent, upsets, seen>>

\* _process_queue: every event is dispatched in a task of its own.
Dequeue(w) ==
  /\ phase[w] \in {"starting", "standby", "leader"} /\ queue[w] # <<>>
  /\ queue' = [queue EXCEPT ![w] = Tail(@)]
  /\ flying' = [flying EXCEPT ![w] = @ \cup {Head(queue[w])}]
  /\ UNCHANGED <<phase, lock, listening, deaf, published, heard, sent, upsets, seen>>

\* A task is done with an event; _worker_dispatch swallows its exceptions.
Dispatch(w) ==
  /\ \E e \in flying[w] : /\ flying' = [flying EXCEPT ![w] = @ \ {e}]
                          /\ sent' = [sent EXCEPT ![e] = @ \cup {w}]
  /\ UNCHANGED <<phase, lock, listening, deaf, queue, published, heard, upsets, seen>>

-----------------------------------------------------------------------------
(* The end of a worker.                                                    *)

\* Faulty: the lock is released before the tasks have ended.
UnlocksFirst(w) ==
  /\ phase[w] \in {"standby", "leader"}
  /\ Upset("stop")
  /\ phase' = [phase EXCEPT ![w] = IF @ = "leader" THEN "closing" ELSE "closed"]
  /\ lock' = lock \ {w}
  /\ UNCHANGED <<listening, deaf, queue, flying, published, heard, sent>>

\* stop() clears _running, from when on events are dropped, and ends the standby
\* loop.
Stop(w) ==
  /\ phase[w] \in {"standby", "leader"}
  /\ Upset("stop")
  /\ phase' = [phase EXCEPT ![w] = IF @ = "leader" THEN "closing" ELSE "closed"]
  /\ UNCHANGED <<lock, listening, deaf, queue, flying, published, heard, sent>>

\* It cancels the listeners and the consumer, then the dispatching tasks, and
\* waits for them.
Cancel(w) ==
  /\ phase[w] = "closing"
  /\ phase' = [phase EXCEPT ![w] = "closed"]
  /\ listening' = listening \ {w} /\ deaf' = deaf \ {w}
  /\ flying' = [flying EXCEPT ![w] = {}]
  /\ UNCHANGED <<lock, queue, published, heard, sent, upsets, seen>>

\* Then it releases the lock, whether or not it still has it, and the session;
\* the process ends, and what is in its queue is gone.
Unlock(w) ==
  /\ phase[w] = "closed"
  /\ lock' = lock \ {w}
  /\ phase' = [phase EXCEPT ![w] = "down"]
  /\ queue' = [queue EXCEPT ![w] = <<>>]
  /\ UNCHANGED <<listening, deaf, flying, published, heard, sent, upsets, seen>>

\* The process dies: PostgreSQL ends its sessions.
Crash(w) ==
  /\ phase[w] # "down"
  /\ Upset("crash")
  /\ phase' = [phase EXCEPT ![w] = "down"]
  /\ lock' = lock \ {w} /\ listening' = listening \ {w} /\ deaf' = deaf \ {w}
  /\ queue' = [queue EXCEPT ![w] = <<>>] /\ flying' = [flying EXCEPT ![w] = {}]
  /\ UNCHANGED <<published, heard, sent>>

-----------------------------------------------------------------------------
Work(w) ==
  \/ Elect(w) \/ Retry(w) \/ Subscribe(w) \/ Dequeue(w) \/ Dispatch(w)
  \/ Cancel(w) \/ Unlock(w)

Next ==
  \/ \E w \in Workers : \/ Start(w) \/ Work(w) \/ ElectFails(w) \/ SessionDies(w)
                        \/ Unsubscribed(w) \/ Deafened(w) \/ Stop(w) \/ Crash(w)
  \/ Publish

Spec == Init /\ [][Next]_vars

\* Each of these is a step of a task of its own that asyncio schedules; a
\* standby that retries for ever finds the lock free if it stays free.
FairSpec ==
  /\ Spec
  /\ \A w \in Workers : /\ WF_vars(Start(w)) /\ WF_vars(Elect(w)) /\ WF_vars(Retry(w))
                        /\ WF_vars(Subscribe(w)) /\ WF_vars(Dequeue(w)) /\ WF_vars(Dispatch(w))
                        /\ WF_vars(Cancel(w)) /\ WF_vars(Unlock(w))

-----------------------------------------------------------------------------
(* Properties.                                                             *)

\* Every variable has the type its comment gives; a queue never outgrows its
\* capacity.
TypeOK ==
  /\ phase \in [Workers -> {"down", "starting", "standby", "leader", "closing", "closed"}]
  /\ lock \subseteq Workers /\ listening \subseteq Workers /\ deaf \subseteq Workers
  /\ queue \in [Workers -> Seq(Events)] /\ flying \in [Workers -> SUBSET Events]
  /\ \A w \in Workers : Len(queue[w]) <= Capacity
  /\ published \in 0..MaxEvents
  /\ heard \in [Events -> SUBSET Workers] /\ sent \in [Events -> SUBSET Workers]
  /\ upsets \in Nat /\ seen \subseteq UpsetKinds

\* A worker is alerting while it leads, and until its tasks have ended.
Alerting(w) == phase[w] \in {"leader", "closing"}

\* At most one worker is alerting, through starts, stops, crashes and failed
\* elections, as long as no session that holds the lock dies under its worker.
OneLeader ==
  "session" \notin seen => \A v, w \in Workers : Alerting(v) /\ Alerting(w) => v = w

\* So no event is dispatched by two workers: nobody is alerted twice because
\* the leader changed.
SentByOne ==
  "session" \notin seen => \A e \in Events : \A v, w \in sent[e] : v = w

\* What a queue took is dispatched in the end, unless its worker stopped or
\* crashed before.
HeardIsSent ==
  <>[](seen \cap {"stop", "crash"} = {} => \A e \in Events : sent[e] = heard[e])

\* When upsets cease some worker leads and listens: a standby takes over from a leader
\* that stopped or crashed, a leader whose subscription failed subscribes again.  Only
\* a leader whose LISTEN connection died stays, and nobody hears, until it is stopped.
Failover == <>[](\E w \in Workers : phase[w] = "leader" /\ w \in listening \cup deaf)

-----------------------------------------------------------------------------
(* The inductive strengthening: whoever alerts holds the lock.             *)

LockInv ==
  /\ \A v, w \in lock : v = w
  /\ "session" \notin seen => \A w \in Workers : Alerting(w) => w \in lock

HeardInv ==
  /\ \A e \in Events : sent[e] \subseteq heard[e]
  /\ \A w \in Workers : /\ \A e \in flying[w] : w \in heard[e]
                        /\ \A i \in 1..Len(queue[w]) : w \in heard[queue[w][i]]
  /\ "session" \notin seen => \A e \in Events : \A v, w \in heard[e] : v = w
  /\ \A e \in Events : e > published => heard[e] = {}
=============================================================================
