--------------------------- MODULE FlowAggregator ---------------------------
(***************************************************************************)
(* monitoring/flow/aggregator.py: the consumer task that reads flow        *)
(* records from the Redis stream and adds them up in memory, the flush     *)
(* task that moves the sums to TimescaleDB and then acknowledges the       *)
(* records, and the shutdown and restart of the daemon around them.        *)
(*                                                                         *)
(* A record is the set of rollup rows it counts in: its row of             *)
(* flow_minute_rollups and those of its interfaces; a record that is       *)
(* dropped as malformed counts in none.  A row's sums are modelled by its  *)
(* flow_count, which the other columns follow.                             *)
(***************************************************************************)
EXTENDS Naturals, Sequences, FiniteSets

CONSTANTS
  Rows,      \* rollup rows
  Kinds,     \* the records exporters send: sets of rows
  Batch,     \* COUNT of xreadgroup
  AckBatch,  \* records acknowledged by one xack
  MaxLen,    \* the length the collector's xadd trims the stream to
  Upsets,    \* the kinds of fault, trim and stop that may happen
  MaxRecords, MaxUpsets  \* bounds on the records sent and on the upsets

UpsetKinds ==
  {"rollback", "lost answer", "xack", "reply", "trim", "stop", "interrupt", "crash"}

ASSUME KindsAssumption == Kinds \subseteq SUBSET Rows
ASSUME BatchAssumption == Batch \in Nat \ {0} /\ AckBatch \in Nat \ {0} /\ MaxLen \in Nat
ASSUME UpsetsAssumption ==
  Upsets \subseteq UpsetKinds /\ MaxRecords \in Nat /\ MaxUpsets \in Nat

VARIABLES
  stream,  \* every record ever added, by id
  unread,  \* ids in the stream after the group's last-delivered id
  acked,   \* ids acknowledged by the group
  db,      \* flow_count of each row in TimescaleDB
  acc,     \* _accumulator and _interface_accumulator
  pend,    \* _pending_msg_ids
  flush,   \* the flush under _flush_lock: where it is and its snapshots
  phase,   \* the daemon: running, stopping (tasks cancelled), last flush, down
  mem,     \* history: ids whose counts are in acc
  stored,  \* history: ids whose counts were committed
  upsets,  \* how many upsets have happened
  seen     \* history: the kinds of those

vars == <<stream, unread, acked, db, acc, pend, flush, phase, mem, stored, upsets, seen>>

-----------------------------------------------------------------------------
Ids == 1..Len(stream)

\* How many of the records S count in row r.
Count(S, r) == Cardinality({i \in S : r \in stream[i]})

\* The n oldest of the ids S.
Oldest(S, n) == {i \in S : Cardinality({j \in S : j < i}) < n}

Zero == [r \in Rows |-> 0]

Idle == [pc |-> "idle", snap |-> Zero, ids |-> {}, todo |-> {}, batch |-> {}]

Upset(kind) ==
  /\ kind \in Upsets /\ upsets < MaxUpsets
  /\ upsets' = upsets + 1
  /\ seen' = seen \cup {kind}

Init ==
  /\ stream = <<>> /\ unread = {} /\ acked = {}
  /\ db = Zero
  /\ acc = Zero /\ pend = {} /\ flush = Idle
  /\ phase = "running"
  /\ mem = {} /\ stored = {}
  /\ upsets = 0 /\ seen = {}

-----------------------------------------------------------------------------
(* The stream.                                                             *)

\* The collector adds a record, and Redis may trim the stream to its length.
Send(k) ==
  /\ phase = "running" /\ Len(stream) < MaxRecords
  /\ stream' = Append(stream, k)
  /\ LET all == unread \cup {Len(stream) + 1}
     IN  unread' \in {all, {i \in all : i + MaxLen > Len(stream) + 1}}
         /\ seen' = IF unread' = all THEN seen ELSE seen \cup {"trim"}
  /\ UNCHANGED <<acked, db, acc, pend, flush, phase, mem, stored, upsets>>

\* _stream_trim_loop: records unread for two hours are gone.
Trim ==
  /\ phase = "running"
  /\ Upset("trim")
  /\ \E n \in unread : unread' = {i \in unread : i > n}
  /\ UNCHANGED <<stream, acked, db, acc, pend, flush, phase, mem, stored>>

-----------------------------------------------------------------------------
(* _consume_stream.                                                        *)

\* A batch is delivered and added up without an await in between.
Consume ==
  /\ phase = "running" /\ unread # {}
  /\ LET new == Oldest(unread, Batch)
     IN  /\ unread' = unread \ new
         /\ pend' = pend \cup new
         /\ acc' = [r \in Rows |-> acc[r] + Count(new, r)]
         /\ mem' = mem \cup {i \in new : stream[i] # {}}
  /\ UNCHANGED <<stream, acked, db, flush, phase, stored, upsets, seen>>

\* Redis delivers a batch and the reply is lost with the connection, or with
\* the task that waited for it: only never-delivered records (">") are read.
ConsumeLost ==
  /\ phase = "running" /\ unread # {}
  /\ Upset("reply")
  /\ unread' = unread \ Oldest(unread, Batch)
  /\ UNCHANGED <<stream, acked, db, acc, pend, flush, phase, mem, stored>>

-----------------------------------------------------------------------------
(* flush_to_timescaledb, by the flush task or, last, by stop.              *)

Snapshot == [pc   |-> IF acc = Zero THEN "ack" ELSE "commit",
             snap |-> acc, ids |-> pend, todo |-> pend, batch |-> mem]

FlushBegin ==
  /\ flush.pc = "idle" /\ phase \in {"running", "stopping"}
  /\ acc # Zero \/ pend # {}
  /\ flush' = Snapshot
  /\ phase' = IF phase = "running" THEN "running" ELSE "last"
  /\ UNCHANGED <<stream, unread, acked, db, acc, pend, mem, stored, upsets, seen>>

\* Faulty: all sums are cleared; or none is.
Cleared == Zero

Kept == acc

\* What was flushed is deducted; what came in meanwhile stays.
Remaining == [r \in Rows |-> acc[r] - flush.snap[r]]

\* The upserts of both tables, in one transaction.
Upsert ==
  /\ db' = [r \in Rows |-> db[r] + flush.snap[r]]
  /\ stored' = stored \cup flush.batch

Commit ==
  /\ flush.pc = "commit"
  /\ Upsert
  /\ flush' = [flush EXCEPT !.pc = "deduct"]
  /\ UNCHANGED <<stream, unread, acked, acc, pend, phase, mem, upsets, seen>>

\* The transaction fails: the sums are kept and nothing is acknowledged.
CommitFails ==
  /\ flush.pc = "commit"
  /\ Upset("rollback")
  /\ flush' = Idle
  /\ UNCHANGED <<stream, unread, acked, db, acc, pend, phase, mem, stored>>

\* The transaction commits and its answer is lost: handled as a failure.
CommitUnanswered ==
  /\ flush.pc = "commit"
  /\ Upset("lost answer")
  /\ Upsert
  /\ flush' = Idle
  /\ UNCHANGED <<stream, unread, acked, acc, pend, phase, mem>>

Deduct ==
  /\ flush.pc = "deduct"
  /\ acc' = Remaining
  /\ mem' = mem \ flush.batch
  /\ flush' = [flush EXCEPT !.pc = "ack"]
  /\ UNCHANGED <<stream, unread, acked, db, pend, phase, stored, upsets, seen>>

\* One xack; after the last one the ids are forgotten.
Ack ==
  /\ flush.pc = "ack"
  /\ LET chunk == Oldest(flush.todo, AckBatch)
     IN  /\ acked' = acked \cup chunk
         /\ IF flush.todo = chunk
            THEN /\ pend' = pend \ flush.ids
                 /\ flush' = Idle
            ELSE /\ flush' = [flush EXCEPT !.todo = @ \ chunk]
                 /\ UNCHANGED pend
  /\ UNCHANGED <<stream, unread, db, acc, phase, mem, stored, upsets, seen>>

\* Faulty: what follows the commit is done again.
AckRetries ==
  /\ flush.pc = "ack"
  /\ Upset("xack")
  /\ flush' = [flush EXCEPT !.pc = "deduct"]
  /\ UNCHANGED <<stream, unread, acked, db, acc, pend, phase, mem, stored>>

\* An xack fails, before or after Redis acted on it: all ids are kept, and
\* acknowledged again by the next flush.
AckFails ==
  /\ flush.pc = "ack"
  /\ Upset("xack")
  /\ acked' \in {acked, acked \cup Oldest(flush.todo, AckBatch)}
  /\ flush' = Idle
  /\ UNCHANGED <<stream, unread, db, acc, pend, phase, mem, stored>>

-----------------------------------------------------------------------------
(* The daemon.                                                             *)

\* stop cancels the tasks; a flush cancelled before its transaction commits or
\* after its sums are deducted leaves nothing behind.
Stop ==
  /\ phase = "running" /\ flush.pc # "deduct"
  /\ Upset("stop")
  /\ phase' = "stopping"
  /\ flush' = Idle
  /\ UNCHANGED <<stream, unread, acked, db, acc, pend, mem, stored>>

\* The flush is cancelled while its COMMIT takes effect, or while the session
\* closes after it: CancelledError passes every handler and the deduction.
StopInterrupts ==
  /\ phase = "running" /\ flush.pc \in {"commit", "deduct"}
  /\ Upset("interrupt")
  /\ IF flush.pc = "commit" THEN Upsert ELSE UNCHANGED <<db, stored>>
  /\ phase' = "stopping"
  /\ flush' = Idle
  /\ UNCHANGED <<stream, unread, acked, acc, pend, mem>>

Vanish ==
  /\ phase' = "down"
  /\ acc' = Zero /\ pend' = {} /\ flush' = Idle /\ mem' = {}
  /\ UNCHANGED <<stream, unread, acked, db, stored>>

\* Faulty: the process ends without a last flush.
ExitAtOnce ==
  /\ phase = "stopping"
  /\ Vanish
  /\ UNCHANGED <<upsets, seen>>

\* The process ends after its last flush, whether that succeeded or not.
Exit ==
  /\ flush.pc = "idle"
  /\ phase = "last" \/ (phase = "stopping" /\ acc = Zero /\ pend = {})
  /\ Vanish
  /\ UNCHANGED <<upsets, seen>>

Crash ==
  /\ phase # "down"
  /\ Upset("crash")
  /\ Vanish

Start ==
  /\ phase = "down"
  /\ phase' = "running"
  /\ UNCHANGED <<stream, unread, acked, db, acc, pend, flush, mem, stored, upsets, seen>>

-----------------------------------------------------------------------------
FlushStep == FlushBegin \/ Commit \/ Deduct \/ Ack

Next ==
  \/ \E k \in Kinds : Send(k)
  \/ Trim
  \/ Consume \/ ConsumeLost
  \/ FlushStep \/ CommitFails \/ CommitUnanswered \/ AckFails
  \/ Stop \/ StopInterrupts \/ Exit \/ Crash \/ Start

Spec == Init /\ [][Next]_vars

\* The consumer blocks in xreadgroup, unless Redis stays over 85% of its memory,
\* and the flush task wakes every flush interval; systemd, or the operator who
\* stopped it, starts the daemon again.
FairSpec ==
  /\ Spec
  /\ WF_vars(Consume) /\ WF_vars(FlushStep) /\ WF_vars(Exit) /\ WF_vars(Start)

-----------------------------------------------------------------------------
(* Properties.                                                             *)

\* Every variable has the type its comment gives; in particular no deduction
\* takes more from a sum than it holds.
TypeOK ==
  /\ stream \in Seq(Kinds)
  /\ unread \subseteq Ids /\ acked \subseteq Ids
  /\ pend \subseteq Ids /\ mem \subseteq Ids /\ stored \subseteq Ids
  /\ db \in [Rows -> Nat] /\ acc \in [Rows -> Nat]
  /\ flush \in [pc : {"idle", "commit", "deduct", "ack"}, snap : [Rows -> Nat],
                ids : SUBSET Ids, todo : SUBSET Ids, batch : SUBSET Ids]
  /\ phase \in {"running", "stopping", "last", "down"}
  /\ upsets \in Nat /\ seen \subseteq UpsetKinds

\* No record is counted twice in a rollup: whatever failed, was retried or was
\* restarted, a row never holds more than the records delivered for it, as long
\* as COMMITs are answered and no flush is interrupted at its COMMIT.
NeverOvercounted ==
  seen \cap {"lost answer", "interrupt"} = {} =>
    \A r \in Rows : db[r] <= Count(Ids \ unread, r)

\* A record is acknowledged only after it was counted: the rows hold at least
\* all acknowledged records, whatever happens.
AckedIsStored == \A r \in Rows : Count(acked, r) <= db[r]

\* Failed transactions and xacks are retried, and a stop flushes first: after
\* any of these all records are counted exactly once in the end, unless the
\* last flush of a stop may have failed or something else went wrong.
ExactlyOnce ==
  <>[](seen \subseteq {"rollback", "xack"} \/ seen \subseteq {"stop", "xack"} =>
         \A r \in Rows : db[r] = Count(Ids, r))

-----------------------------------------------------------------------------
(* The inductive strengthenings: sums are the counts of sets of records, a  *)
(* flush deducts what it stored and acknowledges only what is stored.       *)

Malformed == {i \in Ids : stream[i] = {}}

Settled == stored \cup Malformed

SumsInv ==
  /\ \A r \in Rows : acc[r] = Count(mem, r) /\ Count(stored, r) <= db[r]
  /\ flush.pc # "idle" => \A r \in Rows : flush.snap[r] = Count(flush.batch, r)
  /\ flush.pc \in {"commit", "deduct"} => flush.batch \subseteq mem
  /\ unread \cap (mem \cup stored) = {}
  /\ mem \cap Malformed = {}

AckInv ==
  /\ acked \subseteq Settled
  /\ pend \subseteq mem \cup Settled
  /\ flush.pc = "commit" => flush.ids \subseteq flush.batch \cup Settled
  /\ flush.pc = "deduct" => flush.batch \subseteq stored
  /\ flush.pc \in {"deduct", "ack"} => flush.ids \subseteq Settled
  /\ flush.todo \subseteq flush.ids

OnceInv ==
  seen \cap {"lost answer", "interrupt"} = {} =>
    /\ \A r \in Rows : db[r] = Count(stored, r)
    /\ mem \cap stored = IF flush.pc = "deduct" THEN flush.batch ELSE {}
=============================================================================
