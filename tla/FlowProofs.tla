------------------------------ MODULE FlowProofs ------------------------------
(***************************************************************************)
(* Proofs about FlowAggregator, for every set of rows and records, every   *)
(* batch size and every bound; and about FlowCollector, for all datagrams, *)
(* ages, buffers and queues.                                               *)
(***************************************************************************)
EXTENDS FlowAggregator, FlowCollector, SequenceTheorems, FiniteSetTheorems, TLAPS

-----------------------------------------------------------------------------
(* Counting records.                                                       *)

\* A set of records counts a number in every row.
LEMMA CountType ==
  ASSUME stream \in Seq(Kinds), NEW S \in SUBSET Ids, NEW r
  PROVE  Count(S, r) \in Nat /\ IsFiniteSet({i \in S : r \in stream[i]})
<1>1. IsFiniteSet(Ids)
  BY LenProperties, FS_Interval DEF Ids
<1>2. {i \in S : r \in stream[i]} \in SUBSET Ids
  OBVIOUS
<1>3. IsFiniteSet({i \in S : r \in stream[i]})
  BY <1>1, <1>2, FS_Subset
<1> QED BY <1>3, FS_CardinalityType DEF Count

\* Nothing counts in no row.
LEMMA CountNone == \A r : Count({}, r) = 0
<1>1. \A r : {i \in {} : r \in stream[i]} = {}
  OBVIOUS
<1> QED BY <1>1, FS_EmptySet DEF Count

\* Two sets of records count, together, at most the sum of what they count, and
\* exactly that when no record is in both.
LEMMA CountUnion ==
  ASSUME stream \in Seq(Kinds), NEW S \in SUBSET Ids, NEW T \in SUBSET Ids, NEW r
  PROVE  /\ Count(S \cup T, r) <= Count(S, r) + Count(T, r)
         /\ S \cap T = {} => Count(S \cup T, r) = Count(S, r) + Count(T, r)
<1> DEFINE A == {i \in S : r \in stream[i]}
           B == {i \in T : r \in stream[i]}
<1>1. IsFiniteSet(A) /\ IsFiniteSet(B)
  BY CountType
<1>2. {i \in S \cup T : r \in stream[i]} = A \cup B
  OBVIOUS
<1>3. Cardinality(A \cup B) = Cardinality(A) + Cardinality(B) - Cardinality(A \cap B)
  BY <1>1, FS_Union
<1>4. IsFiniteSet(A \cap B) /\ Cardinality(A \cap B) \in Nat
  BY <1>1, FS_Intersection, FS_CardinalityType
<1>5. Cardinality(A) \in Nat /\ Cardinality(B) \in Nat
  BY <1>1, FS_CardinalityType
<1>6. S \cap T = {} => Cardinality(A \cap B) = 0
  BY <1>4, FS_EmptySet
<1>7. /\ Count(S, r) = Cardinality(A) /\ Count(T, r) = Cardinality(B)
      /\ Count(S \cup T, r) = Cardinality(A \cup B)
  BY <1>2 DEF Count
<1> HIDE DEF A, B
<1> QED BY <1>3, <1>4, <1>5, <1>6, <1>7

\* Fewer records count no more, and taking records away takes their count away.
LEMMA CountDifference ==
  ASSUME stream \in Seq(Kinds), NEW S \in SUBSET Ids, NEW T \in SUBSET S, NEW r
  PROVE  /\ Count(T, r) <= Count(S, r)
         /\ Count(S \ T, r) = Count(S, r) - Count(T, r)
<1>1. T \in SUBSET Ids /\ S \ T \in SUBSET Ids
  OBVIOUS
<1>2. (S \ T) \cup T = S /\ (S \ T) \cap T = {}
  OBVIOUS
<1>3. Count(S, r) = Count(S \ T, r) + Count(T, r)
  BY <1>1, <1>2, CountUnion
<1>4. Count(S, r) \in Nat /\ Count(T, r) \in Nat /\ Count(S \ T, r) \in Nat
  BY <1>1, CountType
<1> QED BY <1>3, <1>4

\* Well-formed records that count nowhere are none at all.
LEMMA CountZero ==
  ASSUME stream \in Seq(Kinds), NEW S \in SUBSET Ids, S \cap Malformed = {},
         \A r \in Rows : Count(S, r) = 0
  PROVE  S = {}
<1> SUFFICES ASSUME NEW i \in S PROVE FALSE
  OBVIOUS
<1>1. i \in 1..Len(stream) /\ stream[i] # {}
  BY DEF Malformed, Ids
<1>2. stream[i] \in Kinds
  BY <1>1, ElementOfSeq
<1>3. PICK r \in Rows : r \in stream[i]
  BY <1>1, <1>2, KindsAssumption
<1>4. {j \in S : r \in stream[j]} # {}
  BY <1>3
<1> QED BY <1>3, <1>4, CountType, FS_EmptySet DEF Count

\* The oldest ids of a set are ids of that set.
LEMMA OldestSubset == \A S, n : Oldest(S, n) \subseteq S
BY DEF Oldest

\* What a set of records counts does not change when the stream does not, or
\* only grows.
LEMMA CountKept ==
  ASSUME TypeOK, stream' = stream
  PROVE  /\ \A S, r : Cardinality({i \in S : r \in stream'[i]}) = Count(S, r)
         /\ Ids' = Ids /\ Malformed' = Malformed
BY DEF Count, Ids, Malformed

LEMMA CountGrown ==
  ASSUME TypeOK, NEW k \in Kinds, stream' = Append(stream, k)
  PROVE  /\ stream' \in Seq(Kinds)
         /\ Ids' = Ids \cup {Len(stream) + 1} /\ Len(stream) + 1 \notin Ids
         /\ \A i \in Ids : stream'[i] = stream[i]
         /\ \A S \in SUBSET Ids : \A r :
              Cardinality({i \in S : r \in stream'[i]}) = Count(S, r)
<1>1. stream \in Seq(Kinds) /\ Len(stream) \in Nat
  BY LenProperties DEF TypeOK
<1>2. /\ stream' \in Seq(Kinds) /\ Len(stream') = Len(stream) + 1
      /\ \A i \in 1..Len(stream) : stream'[i] = stream[i]
  BY <1>1, AppendProperties
<1>3. \A i \in Ids : stream'[i] = stream[i]
  BY <1>2 DEF Ids
<1>4. ASSUME NEW S \in SUBSET Ids, NEW r
      PROVE  Cardinality({i \in S : r \in stream'[i]}) = Count(S, r)
  <2>1. {i \in S : r \in stream'[i]} = {i \in S : r \in stream[i]}
    BY <1>3
  <2> QED BY <2>1 DEF Count
<1>5. Ids' = Ids \cup {Len(stream) + 1} /\ Len(stream) + 1 \notin Ids
  BY <1>1, <1>2 DEF Ids
<1> QED BY <1>2, <1>3, <1>4, <1>5

-----------------------------------------------------------------------------
(* The invariant.                                                          *)

Inv == TypeOK /\ SumsInv /\ AckInv /\ OnceInv

\* A step in which the history of upsets stays or grows.
UpsetsGrow == upsets' \in Nat /\ seen \subseteq seen' /\ seen' \subseteq UpsetKinds

\* What may have stored a record twice.
Repeated == seen \cap {"lost answer", "interrupt"} # {}

\* Nothing is counted at the start.
LEMMA InitInv == Init => Inv
<1> SUFFICES ASSUME Init PROVE Inv
  OBVIOUS
<1> USE DEF Init
<1>1. TypeOK
  <2>1. stream \in Seq(Kinds) /\ Ids = {}
    BY EmptySeq DEF Ids
  <2> QED BY <2>1 DEF TypeOK, Zero, Idle
<1>2. \A r \in Rows : db[r] = 0 /\ acc[r] = 0
  BY DEF Zero
<1>3. \A r : Count(mem, r) = 0 /\ Count(stored, r) = 0
  BY CountNone
<1>4. SumsInv
  BY <1>2, <1>3 DEF SumsInv, Idle
<1>5. AckInv
  BY DEF AckInv, Idle
<1>6. OnceInv
  BY <1>2, <1>3 DEF OnceInv, Idle
<1> QED BY <1>1, <1>4, <1>5, <1>6 DEF Inv

\* A new record changes no count.
LEMMA SendInv ==
  ASSUME Inv, NEW k \in Kinds, Send(k)
  PROVE  Inv'
<1> USE DEF Inv
<1>1. /\ stream' = Append(stream, k)
      /\ unread' \subseteq unread \cup {Len(stream) + 1}
      /\ UNCHANGED <<acked, db, acc, pend, flush, phase, mem, stored, upsets>>
      /\ seen' \in {seen, seen \cup {"trim"}}
  BY DEF Send
<1>2. /\ stream' \in Seq(Kinds)
      /\ Ids' = Ids \cup {Len(stream) + 1} /\ Len(stream) + 1 \notin Ids
      /\ \A i \in Ids : stream'[i] = stream[i]
      /\ \A S \in SUBSET Ids : \A r :
           Cardinality({i \in S : r \in stream'[i]}) = Count(S, r)
  BY <1>1, CountGrown
<1>3. TypeOK'
  <2>1. flush' \in [pc : {"idle", "commit", "deduct", "ack"}, snap : [Rows -> Nat],
                    ids : SUBSET Ids', todo : SUBSET Ids', batch : SUBSET Ids']
    BY <1>1, <1>2 DEF TypeOK
  <2>2. unread' \subseteq Ids' /\ seen' \subseteq UpsetKinds
    BY <1>1, <1>2 DEF TypeOK, UpsetKinds
  <2> QED BY <1>1, <1>2, <2>1, <2>2 DEF TypeOK
<1>4. mem \subseteq Ids /\ stored \subseteq Ids /\ flush.batch \subseteq Ids
  BY DEF TypeOK
<1>5. \A r : /\ Count(mem, r)' = Count(mem, r)
             /\ Count(stored, r)' = Count(stored, r)
             /\ Count(flush.batch, r)' = Count(flush.batch, r)
  <2>1. \A r : /\ Count(mem, r)' = Cardinality({i \in mem : r \in stream'[i]})
               /\ Count(stored, r)' = Cardinality({i \in stored : r \in stream'[i]})
               /\ Count(flush.batch, r)' = Cardinality({i \in flush.batch : r \in stream'[i]})
    BY <1>1 DEF Count
  <2> QED BY <1>2, <1>4, <2>1
<1>6. Malformed \subseteq Malformed' /\ Malformed' \cap Ids \subseteq Malformed
  BY <1>2 DEF Malformed
<1>7. SumsInv'
  BY <1>1, <1>2, <1>4, <1>5, <1>6 DEF SumsInv
<1>8. AckInv'
  BY <1>1, <1>6 DEF AckInv, Settled
<1>9. OnceInv'
  <2>1. seen \subseteq seen'
    BY <1>1
  <2> QED BY <1>1, <1>5, <2>1 DEF OnceInv
<1> QED BY <1>3, <1>7, <1>8, <1>9

\* Delivered records are counted where they were not before.
LEMMA ConsumeInv ==
  ASSUME Inv, Consume
  PROVE  Inv'
<1> USE DEF Inv
<1> DEFINE new == Oldest(unread, Batch)
           good == {i \in new : stream[i] # {}}
<1>1. /\ unread' = unread \ new /\ pend' = pend \cup new
      /\ acc' = [r \in Rows |-> acc[r] + Count(new, r)]
      /\ mem' = mem \cup good
      /\ UNCHANGED <<stream, acked, db, flush, phase, stored, upsets, seen>>
  BY DEF Consume
<1>2. new \subseteq unread /\ good \subseteq new /\ unread \subseteq Ids
  BY OldestSubset DEF TypeOK
<1>3. \A r : Count(new, r) = Count(good, r)
  <2>1. \A r : {i \in new : r \in stream[i]} = {i \in good : r \in stream[i]}
    OBVIOUS
  <2> QED BY <2>1 DEF Count
<1> HIDE DEF new
<1>4. mem \cap good = {} /\ stored \cap good = {} /\ good \cap Malformed = {}
  BY <1>2 DEF SumsInv, Malformed
<1>5. new \subseteq good \cup Malformed
  BY <1>2 DEF Malformed
<1>6. \A S, r : Cardinality({i \in S : r \in stream'[i]}) = Count(S, r)
  BY <1>1, CountKept
<1>7. Ids' = Ids /\ Malformed' = Malformed
  BY <1>1, CountKept
<1> HIDE DEF good
<1>8. ASSUME NEW r \in Rows
      PROVE  /\ acc'[r] = Count(mem', r) /\ acc'[r] \in Nat
             /\ Count(mem, r)' = Count(mem', r)
             /\ Count(stored, r)' = Count(stored, r)
             /\ Count(flush.batch, r)' = Count(flush.batch, r)
  <2>0. stream \in Seq(Kinds) /\ mem \in SUBSET Ids /\ good \in SUBSET Ids
    BY <1>2 DEF TypeOK
  <2>1. Count(mem \cup good, r) = Count(mem, r) + Count(good, r)
    BY <2>0, <1>4, CountUnion
  <2>2. acc'[r] = acc[r] + Count(new, r)
    BY <1>1
  <2>3. acc[r] = Count(mem, r) /\ acc[r] \in Nat
    BY DEF SumsInv, TypeOK
  <2>4. Count(good, r) \in Nat
    BY <1>2, CountType DEF TypeOK
  <2>5. /\ Count(mem, r)' = Cardinality({i \in mem' : r \in stream'[i]})
        /\ Count(stored, r)' = Cardinality({i \in stored : r \in stream'[i]})
        /\ Count(flush.batch, r)' = Cardinality({i \in flush.batch : r \in stream'[i]})
    BY <1>1 DEF Count
  <2> QED BY <1>1, <1>3, <1>6, <2>1, <2>2, <2>3, <2>4, <2>5
<1>9. TypeOK'
  <2>1. acc' \in [Rows -> Nat]
    BY <1>1, <1>8
  <2>2. mem' \subseteq Ids /\ pend' \subseteq Ids /\ unread' \subseteq Ids
    BY <1>1, <1>2 DEF TypeOK
  <2> QED BY <1>1, <1>7, <2>1, <2>2 DEF TypeOK
<1>10. SumsInv'
  BY <1>1, <1>2, <1>4, <1>7, <1>8 DEF SumsInv
<1>11. AckInv'
  BY <1>1, <1>5, <1>7 DEF AckInv, Settled
<1>12. OnceInv'
  BY <1>1, <1>4, <1>8 DEF OnceInv, SumsInv, TypeOK
<1> QED BY <1>9, <1>10, <1>11, <1>12

\* What is trimmed, or lost with a reply, is not counted.
LEMMA UnreadInv ==
  ASSUME Inv, unread' \subseteq unread,
         UNCHANGED <<stream, acked, db, acc, pend, flush, mem, stored>>,
         phase' \in {"running", "stopping", "last", "down"}, UpsetsGrow
  PROVE  Inv'
<1> USE DEF Inv
<1>1. /\ \A S, r : Cardinality({i \in S : r \in stream'[i]}) = Count(S, r)
      /\ Ids' = Ids /\ Malformed' = Malformed
  BY CountKept
<1>2. \A r : /\ Count(mem, r)' = Count(mem, r)
             /\ Count(stored, r)' = Count(stored, r)
             /\ Count(flush.batch, r)' = Count(flush.batch, r)
  BY <1>1 DEF Count
<1>3. TypeOK'
  BY <1>1 DEF TypeOK, UpsetsGrow
<1>4. SumsInv'
  BY <1>1, <1>2 DEF SumsInv
<1>5. AckInv'
  BY <1>1 DEF AckInv, Settled
<1>6. OnceInv'
  BY <1>2 DEF OnceInv, UpsetsGrow
<1> QED BY <1>3, <1>4, <1>5, <1>6

\* A snapshot takes the sums and the ids together: with nothing to store, all
\* its ids are settled.
LEMMA FlushBeginInv ==
  ASSUME Inv, FlushBegin
  PROVE  Inv'
<1> USE DEF Inv
<1>1. /\ flush.pc = "idle" /\ flush' = Snapshot
      /\ phase' \in {"running", "last"}
      /\ UNCHANGED <<stream, unread, acked, db, acc, pend, mem, stored, upsets, seen>>
  BY DEF FlushBegin
<1>2. /\ \A S, r : Cardinality({i \in S : r \in stream'[i]}) = Count(S, r)
      /\ Ids' = Ids /\ Malformed' = Malformed
  BY <1>1, CountKept
<1>3. \A r : /\ Count(mem, r)' = Count(mem, r)
             /\ Count(stored, r)' = Count(stored, r)
             /\ Count(flush.batch, r)' = Count(mem, r)
  BY <1>1, <1>2 DEF Count, Snapshot
<1>4. flush'.pc \in {"commit", "ack"} /\ (acc # Zero => flush'.pc = "commit")
  BY <1>1 DEF Snapshot
<1>5. /\ flush'.snap = acc /\ flush'.ids = pend /\ flush'.todo = pend
      /\ flush'.batch = mem
  BY <1>1 DEF Snapshot
<1>6. acc = Zero => mem = {}
  <2>1. stream \in Seq(Kinds) /\ mem \in SUBSET Ids /\ mem \cap Malformed = {}
    BY DEF TypeOK, SumsInv
  <2>2. acc = Zero => \A r \in Rows : Count(mem, r) = 0
    BY DEF SumsInv, Zero
  <2> QED BY <2>1, <2>2, CountZero
<1>7. TypeOK'
  <2>1. flush' \in [pc : {"idle", "commit", "deduct", "ack"}, snap : [Rows -> Nat],
                    ids : SUBSET Ids, todo : SUBSET Ids, batch : SUBSET Ids]
    BY <1>1 DEF Snapshot, TypeOK
  <2> QED BY <1>1, <1>2, <2>1 DEF TypeOK
<1>8. SumsInv'
  BY <1>1, <1>2, <1>3, <1>5 DEF SumsInv
<1>9. AckInv'
  BY <1>1, <1>2, <1>4, <1>5, <1>6 DEF AckInv, Settled
<1>10. OnceInv'
  BY <1>1, <1>3, <1>4 DEF OnceInv
<1> QED BY <1>7, <1>8, <1>9, <1>10

\* The transaction stores the counts of the batch of the flush.
LEMMA UpsertCounts ==
  ASSUME Inv, flush.pc = "commit", Upsert
  PROVE  /\ db' \in [Rows -> Nat] /\ stored' = stored \cup flush.batch
         /\ stored' \subseteq Ids /\ unread \cap stored' = {}
         /\ \A r \in Rows : Count(stored', r) <= db'[r]
         /\ ~Repeated => \A r \in Rows : db'[r] = Count(stored', r)
<1> USE DEF Inv
<1>1. /\ db' = [r \in Rows |-> db[r] + flush.snap[r]]
      /\ stored' = stored \cup flush.batch
  BY DEF Upsert
<1>2. /\ stream \in Seq(Kinds) /\ stored \in SUBSET Ids /\ flush.batch \in SUBSET Ids
      /\ db \in [Rows -> Nat]
  BY DEF TypeOK
<1>3. flush.snap \in [Rows -> Nat]
  BY DEF TypeOK
<1>4. stored' \subseteq Ids /\ unread \cap stored' = {}
  BY <1>1, <1>2 DEF SumsInv
<1>5. ASSUME NEW r \in Rows
      PROVE  /\ db'[r] = db[r] + Count(flush.batch, r) /\ db'[r] \in Nat
             /\ Count(stored, r) <= db[r] /\ db[r] \in Nat
  <2>1. flush.snap[r] = Count(flush.batch, r) /\ Count(stored, r) <= db[r]
    BY DEF SumsInv
  <2>2. flush.snap[r] \in Nat /\ db[r] \in Nat
    BY <1>2, <1>3
  <2> QED BY <1>1, <2>1, <2>2
<1>6. ASSUME NEW r \in Rows
      PROVE  /\ Count(stored', r) <= db'[r]
             /\ ~Repeated => db'[r] = Count(stored', r)
  <2>1. /\ Count(stored', r) <= Count(stored, r) + Count(flush.batch, r)
        /\ stored \cap flush.batch = {}
             => Count(stored', r) = Count(stored, r) + Count(flush.batch, r)
    BY <1>1, <1>2, CountUnion
  <2>2. ~Repeated => stored \cap flush.batch = {} /\ db[r] = Count(stored, r)
    BY DEF OnceInv, SumsInv, Repeated
  <2>3. /\ Count(stored, r) \in Nat /\ Count(flush.batch, r) \in Nat
        /\ Count(stored', r) \in Nat
    BY <1>2, <1>4, CountType
  <2> QED BY <1>5, <2>1, <2>2, <2>3
<1>7. db' \in [Rows -> Nat]
  BY <1>1, <1>5
<1> QED BY <1>1, <1>4, <1>6, <1>7

\* A committed flush has its batch in the rows and, still, in the sums.
LEMMA CommitInv ==
  ASSUME Inv, Commit
  PROVE  Inv'
<1> USE DEF Inv
<1>1. /\ flush.pc = "commit" /\ flush' = [flush EXCEPT !.pc = "deduct"] /\ Upsert
      /\ UNCHANGED <<stream, unread, acked, acc, pend, phase, mem, upsets, seen>>
  BY DEF Commit
<1>2. /\ \A S, r : Cardinality({i \in S : r \in stream'[i]}) = Count(S, r)
      /\ Ids' = Ids /\ Malformed' = Malformed
  BY <1>1, CountKept
<1>3. /\ db' \in [Rows -> Nat] /\ stored' = stored \cup flush.batch
      /\ stored' \subseteq Ids /\ unread \cap stored' = {}
      /\ \A r \in Rows : Count(stored', r) <= db'[r]
      /\ ~Repeated => \A r \in Rows : db'[r] = Count(stored', r)
  BY <1>1, UpsertCounts
<1>4. /\ flush'.pc = "deduct" /\ flush'.snap = flush.snap /\ flush'.ids = flush.ids
      /\ flush'.todo = flush.todo /\ flush'.batch = flush.batch
  BY <1>1 DEF TypeOK
<1>5. \A r : /\ Count(mem, r)' = Count(mem, r)
             /\ Count(stored, r)' = Count(stored', r)
             /\ Count(flush.batch, r)' = Count(flush.batch, r)
  BY <1>1, <1>2, <1>4 DEF Count
<1>6. TypeOK'
  <2>1. flush' \in [pc : {"idle", "commit", "deduct", "ack"}, snap : [Rows -> Nat],
                    ids : SUBSET Ids, todo : SUBSET Ids, batch : SUBSET Ids]
    BY <1>1 DEF TypeOK
  <2> QED BY <1>1, <1>2, <1>3, <2>1 DEF TypeOK
<1>7. SumsInv'
  BY <1>1, <1>2, <1>3, <1>4, <1>5 DEF SumsInv
<1>8. AckInv'
  BY <1>1, <1>2, <1>3, <1>4 DEF AckInv, Settled
<1>9. OnceInv'
  BY <1>1, <1>3, <1>4, <1>5 DEF OnceInv, SumsInv, Repeated
<1> QED BY <1>6, <1>7, <1>8, <1>9

\* A flush that ends early keeps all sums and ids for the next one.
LEMMA AbandonInv ==
  ASSUME Inv, flush' = Idle, acked' \subseteq Settled,
         UNCHANGED <<stream, unread, db, acc, pend, mem, stored>>,
         phase' \in {"running", "stopping", "last", "down"}, UpsetsGrow,
         flush.pc # "deduct" \/ Repeated'
  PROVE  Inv'
<1> USE DEF Inv
<1>1. /\ \A S, r : Cardinality({i \in S : r \in stream'[i]}) = Count(S, r)
      /\ Ids' = Ids /\ Malformed' = Malformed
  BY CountKept
<1>2. \A r : /\ Count(mem, r)' = Count(mem, r)
             /\ Count(stored, r)' = Count(stored, r)
  BY <1>1 DEF Count
<1>3. TypeOK'
  BY <1>1 DEF TypeOK, UpsetsGrow, Idle, Zero, Settled, Malformed
<1>4. SumsInv'
  BY <1>1, <1>2 DEF SumsInv, Idle
<1>5. AckInv'
  BY <1>1 DEF AckInv, Settled, Idle
<1>6. OnceInv'
  BY <1>2 DEF OnceInv, Idle, UpsetsGrow, Repeated
<1> QED BY <1>3, <1>4, <1>5, <1>6

\* So does one whose transaction committed unnoticed.
LEMMA UnnoticedInv ==
  ASSUME Inv, flush.pc = "commit", Upsert, flush' = Idle,
         UNCHANGED <<stream, unread, acked, acc, pend, mem>>,
         phase' \in {"running", "stopping", "last", "down"}, UpsetsGrow, Repeated'
  PROVE  Inv'
<1> USE DEF Inv
<1>1. /\ \A S, r : Cardinality({i \in S : r \in stream'[i]}) = Count(S, r)
      /\ Ids' = Ids /\ Malformed' = Malformed
  BY CountKept
<1>2. /\ db' \in [Rows -> Nat] /\ stored' = stored \cup flush.batch
      /\ stored' \subseteq Ids /\ unread \cap stored' = {}
      /\ \A r \in Rows : Count(stored', r) <= db'[r]
  BY UpsertCounts
<1>3. \A r : /\ Count(mem, r)' = Count(mem, r)
             /\ Count(stored, r)' = Count(stored', r)
  BY <1>1 DEF Count
<1>4. TypeOK'
  BY <1>1, <1>2 DEF TypeOK, UpsetsGrow, Idle, Zero
<1>5. SumsInv'
  BY <1>1, <1>2, <1>3 DEF SumsInv, Idle
<1>6. AckInv'
  BY <1>1, <1>2 DEF AckInv, Settled, Idle
<1>7. OnceInv'
  BY DEF OnceInv, Repeated
<1> QED BY <1>4, <1>5, <1>6, <1>7

\* What is left of the sums counts the records left in memory.
LEMMA DeductInv ==
  ASSUME Inv, Deduct
  PROVE  Inv'
<1> USE DEF Inv
<1>1. /\ flush.pc = "deduct" /\ flush' = [flush EXCEPT !.pc = "ack"]
      /\ acc' = [r \in Rows |-> acc[r] - flush.snap[r]]
      /\ mem' = mem \ flush.batch
      /\ UNCHANGED <<stream, unread, acked, db, pend, phase, stored, upsets, seen>>
  BY DEF Deduct, Remaining
<1>2. /\ \A S, r : Cardinality({i \in S : r \in stream'[i]}) = Count(S, r)
      /\ Ids' = Ids /\ Malformed' = Malformed
  BY <1>1, CountKept
<1>3. /\ flush'.pc = "ack" /\ flush'.snap = flush.snap /\ flush'.ids = flush.ids
      /\ flush'.todo = flush.todo /\ flush'.batch = flush.batch
  BY <1>1 DEF TypeOK
<1>4. \A r : /\ Count(mem, r)' = Count(mem', r)
             /\ Count(stored, r)' = Count(stored, r)
             /\ Count(flush.batch, r)' = Count(flush.batch, r)
  BY <1>1, <1>2, <1>3 DEF Count
<1>5. /\ stream \in Seq(Kinds) /\ mem \in SUBSET Ids /\ flush.batch \in SUBSET mem
      /\ mem' \in SUBSET Ids
  BY <1>1 DEF TypeOK, SumsInv
<1>6. ASSUME NEW r \in Rows PROVE acc'[r] = Count(mem', r) /\ acc'[r] \in Nat
  <2>1. Count(mem', r) = Count(mem, r) - Count(flush.batch, r)
    BY <1>1, <1>5, CountDifference
  <2>2. acc[r] = Count(mem, r) /\ flush.snap[r] = Count(flush.batch, r)
    BY <1>1 DEF SumsInv
  <2>3. Count(mem', r) \in Nat
    BY <1>5, CountType
  <2>4. acc'[r] = acc[r] - flush.snap[r]
    BY <1>1
  <2> QED BY <2>1, <2>2, <2>3, <2>4
<1>7. TypeOK'
  <2>1. flush' \in [pc : {"idle", "commit", "deduct", "ack"}, snap : [Rows -> Nat],
                    ids : SUBSET Ids, todo : SUBSET Ids, batch : SUBSET Ids]
    BY <1>1 DEF TypeOK
  <2>2. acc' \in [Rows -> Nat]
    BY <1>1, <1>6
  <2> QED BY <1>1, <1>2, <1>5, <2>1, <2>2 DEF TypeOK
<1>8. SumsInv'
  BY <1>1, <1>2, <1>3, <1>4, <1>6 DEF SumsInv
<1>9. AckInv'
  BY <1>1, <1>2, <1>3 DEF AckInv, Settled
<1>10. OnceInv'
  BY <1>1, <1>3, <1>4 DEF OnceInv
<1> QED BY <1>7, <1>8, <1>9, <1>10

\* Only what is settled is acknowledged.
LEMMA AckStepInv ==
  ASSUME Inv, Ack
  PROVE  Inv'
<1> USE DEF Inv
<1> DEFINE chunk == Oldest(flush.todo, AckBatch)
<1>1. /\ flush.pc = "ack" /\ acked' = acked \cup chunk
      /\ UNCHANGED <<stream, unread, db, acc, phase, mem, stored, upsets, seen>>
      /\ \/ pend' = pend \ flush.ids /\ flush' = Idle
         \/ flush' = [flush EXCEPT !.todo = @ \ chunk] /\ pend' = pend
  BY DEF Ack
<1>2. chunk \subseteq flush.todo /\ flush.todo \subseteq flush.ids /\ flush.ids \subseteq Settled
  BY <1>1, OldestSubset DEF AckInv
<1> HIDE DEF chunk
<1>3. Settled \subseteq Ids
  BY DEF Settled, Malformed, TypeOK
<1>4. CASE flush' = Idle /\ pend' = pend \ flush.ids
  <2>1. /\ \A S, r : Cardinality({i \in S : r \in stream'[i]}) = Count(S, r)
        /\ Ids' = Ids /\ Malformed' = Malformed
    BY <1>1, CountKept
  <2>2. \A r : /\ Count(mem, r)' = Count(mem, r)
               /\ Count(stored, r)' = Count(stored, r)
    BY <1>1, <2>1 DEF Count
  <2>3. TypeOK'
    BY <1>1, <1>2, <1>3, <1>4, <2>1 DEF TypeOK, Idle, Zero
  <2>4. SumsInv'
    BY <1>1, <1>4, <2>1, <2>2 DEF SumsInv, Idle
  <2>5. AckInv'
    BY <1>1, <1>2, <1>4, <2>1 DEF AckInv, Settled, Idle
  <2>6. OnceInv'
    BY <1>1, <1>4, <2>2 DEF OnceInv, Idle
  <2> QED BY <2>3, <2>4, <2>5, <2>6
<1>5. CASE flush' = [flush EXCEPT !.todo = @ \ chunk] /\ pend' = pend
  <2>1. /\ \A S, r : Cardinality({i \in S : r \in stream'[i]}) = Count(S, r)
        /\ Ids' = Ids /\ Malformed' = Malformed
    BY <1>1, CountKept
  <2>2. /\ flush'.pc = flush.pc /\ flush'.snap = flush.snap /\ flush'.ids = flush.ids
        /\ flush'.todo = flush.todo \ chunk /\ flush'.batch = flush.batch
    BY <1>5 DEF TypeOK
  <2>3. \A r : /\ Count(mem, r)' = Count(mem, r)
               /\ Count(stored, r)' = Count(stored, r)
               /\ Count(flush.batch, r)' = Count(flush.batch, r)
    BY <1>1, <2>1, <2>2 DEF Count
  <2>4. TypeOK'
    <3>1. flush' \in [pc : {"idle", "commit", "deduct", "ack"}, snap : [Rows -> Nat],
                      ids : SUBSET Ids, todo : SUBSET Ids, batch : SUBSET Ids]
      BY <1>5 DEF TypeOK
    <3> QED BY <1>1, <1>2, <1>3, <1>5, <2>1, <3>1 DEF TypeOK
  <2>5. SumsInv'
    BY <1>1, <2>1, <2>2, <2>3 DEF SumsInv
  <2>6. AckInv'
    BY <1>1, <1>2, <1>5, <2>1, <2>2 DEF AckInv, Settled
  <2>7. OnceInv'
    BY <1>1, <2>2, <2>3 DEF OnceInv
  <2> QED BY <2>4, <2>5, <2>6, <2>7
<1> QED BY <1>1, <1>4, <1>5

\* The end of the process loses what was not stored: nothing is in memory.
LEMMA VanishInv ==
  ASSUME Inv, Vanish, UpsetsGrow
  PROVE  Inv'
<1> USE DEF Inv
<1>1. /\ phase' = "down" /\ acc' = Zero /\ pend' = {} /\ flush' = Idle /\ mem' = {}
      /\ UNCHANGED <<stream, unread, acked, db, stored>>
  BY DEF Vanish
<1>2. /\ \A S, r : Cardinality({i \in S : r \in stream'[i]}) = Count(S, r)
      /\ Ids' = Ids /\ Malformed' = Malformed
  BY <1>1, CountKept
<1>3. \A r : Count(mem, r)' = 0 /\ Count(stored, r)' = Count(stored, r)
  <2>1. \A r : Count(mem, r)' = Count({}, r)
    BY <1>1, <1>2 DEF Count
  <2> QED BY <1>1, <1>2, <2>1, CountNone DEF Count
<1>4. TypeOK'
  BY <1>1, <1>2 DEF TypeOK, UpsetsGrow, Idle, Zero
<1>5. SumsInv'
  <2>1. \A r \in Rows : acc'[r] = 0
    BY <1>1 DEF Zero
  <2> QED BY <1>1, <1>2, <1>3, <2>1 DEF SumsInv, Idle
<1>6. AckInv'
  BY <1>1, <1>2 DEF AckInv, Settled, Idle
<1>7. OnceInv'
  BY <1>1, <1>3 DEF OnceInv, Idle, UpsetsGrow
<1> QED BY <1>4, <1>5, <1>6, <1>7

-----------------------------------------------------------------------------
(* The theorems.                                                           *)

\* Every step keeps the invariant.
LEMMA StepInv ==
  ASSUME Inv, [Next]_vars
  PROVE  Inv'
<1> USE DEF Inv
<1>0. /\ UNCHANGED <<upsets, seen>> => UpsetsGrow
      /\ \A kind : Upset(kind) => UpsetsGrow /\ kind \in seen'
  BY UpsetsAssumption DEF TypeOK, Upset, UpsetsGrow
<1>1. ASSUME NEW k \in Kinds, Send(k) PROVE Inv'
  BY <1>1, SendInv
<1>2. CASE Trim \/ ConsumeLost
  <2>1. /\ unread' \subseteq unread /\ phase' = phase /\ phase = "running"
        /\ UNCHANGED <<stream, acked, db, acc, pend, flush, mem, stored>>
        /\ UpsetsGrow
    BY <1>0, <1>2 DEF Trim, ConsumeLost
  <2> QED BY <2>1, UnreadInv
<1>3. CASE Consume
  BY <1>3, ConsumeInv
<1>4. CASE FlushBegin
  BY <1>4, FlushBeginInv
<1>5. CASE Commit
  BY <1>5, CommitInv
<1>6. CASE Deduct
  BY <1>6, DeductInv
<1>7. CASE Ack
  BY <1>7, AckStepInv
<1>8. CASE CommitFails \/ AckFails \/ Stop
  <2>1. /\ flush' = Idle /\ flush.pc # "deduct"
        /\ UNCHANGED <<stream, unread, db, acc, pend, mem, stored>>
        /\ phase' \in {"running", "stopping", "last", "down"} /\ UpsetsGrow
    BY <1>0, <1>8 DEF CommitFails, AckFails, Stop, TypeOK
  <2>2. acked' \subseteq Settled
    <3>1. CASE CommitFails \/ Stop
      BY <3>1 DEF CommitFails, Stop, AckInv
    <3>2. CASE AckFails
      <4>1. flush.pc = "ack" /\ acked' \in {acked, acked \cup Oldest(flush.todo, AckBatch)}
        BY <3>2 DEF AckFails
      <4>2. Oldest(flush.todo, AckBatch) \subseteq Settled
        BY <4>1, OldestSubset DEF AckInv
      <4> QED BY <4>1, <4>2 DEF AckInv
    <3> QED BY <1>8, <3>1, <3>2
  <2> QED BY <2>1, <2>2, AbandonInv
<1>9. CASE CommitUnanswered
  <2>1. /\ flush.pc = "commit" /\ Upsert /\ flush' = Idle
        /\ UNCHANGED <<stream, unread, acked, acc, pend, mem>>
        /\ phase' \in {"running", "stopping", "last", "down"}
        /\ UpsetsGrow /\ Repeated'
    BY <1>0, <1>9 DEF CommitUnanswered, TypeOK, Repeated
  <2> QED BY <2>1, UnnoticedInv
<1>10. CASE StopInterrupts
  <2>1. /\ flush' = Idle /\ phase' = "stopping"
        /\ UNCHANGED <<stream, unread, acked, acc, pend, mem>>
        /\ UpsetsGrow /\ Repeated'
    BY <1>0, <1>10 DEF StopInterrupts, Repeated
  <2>2. CASE flush.pc = "commit"
    BY <1>10, <2>1, <2>2, UnnoticedInv DEF StopInterrupts
  <2>3. CASE flush.pc # "commit"
    <3>1. UNCHANGED <<db, stored>> /\ acked' \subseteq Settled
      BY <1>10, <2>1, <2>3 DEF StopInterrupts, AckInv
    <3> QED BY <2>1, <3>1, AbandonInv
  <2> QED BY <2>2, <2>3
<1>11. CASE Exit \/ Crash
  <2>1. Vanish /\ UpsetsGrow
    BY <1>0, <1>11 DEF Exit, Crash
  <2> QED BY <2>1, VanishInv
<1>12. CASE Start \/ UNCHANGED vars
  <2>1. /\ UNCHANGED <<stream, unread, acked, db, acc, pend, flush, mem, stored, upsets, seen>>
        /\ phase' \in {"running", "stopping", "last", "down"}
    BY <1>12 DEF Start, vars, TypeOK
  <2> QED BY <1>0, <2>1, UnreadInv
<1> QED
  BY <1>1, <1>2, <1>3, <1>4, <1>5, <1>6, <1>7, <1>8, <1>9, <1>10, <1>11, <1>12
  DEF Next, FlushStep

\* The invariant holds whatever happens.
THEOREM InvHolds == Spec => []Inv
<1>1. Init => Inv
  BY InitInv
<1>2. Inv /\ [Next]_vars => Inv'
  BY StepInv
<1> QED BY <1>1, <1>2, PTL DEF Spec

\* All variables keep their types; the sums in memory never go below zero.
THEOREM TypesHold == Spec => []TypeOK
<1>1. Inv => TypeOK
  BY DEF Inv
<1> QED BY <1>1, InvHolds, PTL

\* Whatever fails, is retried, trimmed or restarted, the rows hold at least all
\* the records that were acknowledged.
THEOREM AcknowledgedRecordsAreStored == Spec => []AckedIsStored
<1>1. Inv => AckedIsStored
  <2> SUFFICES ASSUME Inv, NEW r \in Rows PROVE Count(acked, r) <= db[r]
    BY DEF AckedIsStored
  <2> USE DEF Inv
  <2>1. /\ stream \in Seq(Kinds) /\ stored \in SUBSET Ids /\ acked \in SUBSET Ids
        /\ db[r] \in Nat
    BY DEF TypeOK
  <2>2. {i \in acked : r \in stream[i]} \subseteq {i \in stored : r \in stream[i]}
    BY DEF AckInv, Settled, Malformed
  <2>3. Count(acked, r) <= Count(stored, r)
    BY <2>1, <2>2, CountType, FS_Subset DEF Count
  <2>4. Count(stored, r) <= db[r]
    BY DEF SumsInv
  <2>5. Count(acked, r) \in Nat /\ Count(stored, r) \in Nat
    BY <2>1, CountType
  <2> QED BY <2>1, <2>3, <2>4, <2>5
<1> QED BY <1>1, InvHolds, PTL

\* Unless an answer to COMMIT was lost or a flush interrupted at its COMMIT, no
\* row holds more than the records delivered for it.
THEOREM NothingIsCountedTwice == Spec => []NeverOvercounted
<1>1. Inv => NeverOvercounted
  <2> SUFFICES ASSUME Inv, seen \cap {"lost answer", "interrupt"} = {}, NEW r \in Rows
               PROVE  db[r] <= Count(Ids \ unread, r)
    BY DEF NeverOvercounted
  <2> USE DEF Inv
  <2>1. /\ stream \in Seq(Kinds) /\ stored \in SUBSET (Ids \ unread)
        /\ Ids \ unread \in SUBSET Ids
    BY DEF TypeOK, SumsInv
  <2>2. Count(stored, r) <= Count(Ids \ unread, r)
    BY <2>1, CountDifference
  <2> QED BY <2>2 DEF OnceInv
<1> QED BY <1>1, InvHolds, PTL

-----------------------------------------------------------------------------
(* Folds over lists: induction over finite sets, as the existence of a      *)
(* minimal set.                                                            *)

\* Of the subsets of a finite set, a minimal one can be picked.
LEMMA MinimalSubset ==
  ASSUME NEW S, IsFiniteSet(S), NEW T, T \subseteq SUBSET S, T # {}
  PROVE  \E s \in T : \A t \in T : t \subseteq s => t = s
<1>1. IsWellFoundedOn(StrictSubsetOrdering(S), SUBSET S)
  BY FS_StrictSubsetOrderingWellFounded, FS_FiniteSubsetsOfFinite
<1>2. \E s \in T : \A t \in T : ~ (<<t, s>> \in StrictSubsetOrdering(S))
  BY <1>1, WFMin
<1> QED BY <1>2 DEF StrictSubsetOrdering

\* The greatest number of a finite set that is not empty.
LEMMA MaxIs ==
  ASSUME NEW S, IsFiniteSet(S)
  PROVE  S \subseteq Int /\ S # {} => Max(S) \in S /\ \A y \in S : Max(S) >= y
<1> DEFINE Bad == {s \in SUBSET S : s # {} /\ ~ \E x \in s : \A y \in s : x >= y}
<1>1. Bad # {} => \E s \in Bad : \A t \in Bad : t \subseteq s => t = s
  <2>1. Bad \subseteq SUBSET S
    OBVIOUS
  <2> HIDE DEF Bad
  <2> QED BY <2>1, MinimalSubset
<1>2. ASSUME S \subseteq Int, Bad # {} PROVE FALSE
  <2>1. PICK s \in Bad : \A t \in Bad : t \subseteq s => t = s
    BY <1>1, <1>2, Zenon
  <2>2. PICK x \in s : TRUE
    OBVIOUS
  <2>3. CASE s \ {x} = {}
    BY <1>2, <2>2, <2>3
  <2>4. CASE s \ {x} # {}
    <3>1. s \ {x} \in SUBSET S /\ s \ {x} # s
      BY <2>2
    <3>2. PICK g \in s \ {x} : \A y \in s \ {x} : g >= y
      BY <2>1, <2>4, <3>1
    <3>3. \A y \in s : y = x \/ y \in s \ {x}
      OBVIOUS
    <3>4. x >= g \/ g >= x
      BY <1>2, <2>2, <3>2
    <3> QED BY <1>2, <2>2, <3>2, <3>3, <3>4
  <2> QED BY <2>3, <2>4
<1>3. ASSUME S \subseteq Int, S # {} PROVE \E x \in S : \A y \in S : x >= y
  BY <1>2, <1>3
<1> QED BY <1>3 DEF Max

\* f folds the members of s, taken at the places of every subset of U, with g.
Folds(f, U, base, s, g) ==
  \A T \in SUBSET U :
    f[T] = IF T = {} THEN base ELSE g[<<f[T \ {Max(T)}], s[Max(T)]>>]

LEMMA FoldExists ==
  ASSUME NEW n \in Nat, NEW A, NEW B, NEW base \in A, NEW s \in [1..n -> B],
         NEW g \in [A \X B -> A]
  PROVE  \E f \in [SUBSET (1..n) -> A] : Folds(f, 1..n, base, s, g)
<1> DEFINE S == 1..n
           Good(U) == \E f \in [SUBSET U -> A] : Folds(f, U, base, s, g)
           Bad == {U \in SUBSET S : ~Good(U)}
<1>1. IsFiniteSet(S)
  BY FS_Interval
<1>2. Bad # {} => \E U \in Bad : \A V \in Bad : V \subseteq U => V = U
  <2>1. Bad \subseteq SUBSET S
    OBVIOUS
  <2> HIDE DEF Bad, S
  <2> QED BY <1>1, <2>1, MinimalSubset
<1>3. ASSUME Bad # {} PROVE FALSE
  <2>1. PICK U \in Bad : \A V \in Bad : V \subseteq U => V = U
    BY <1>2, <1>3, Zenon
  <2>2. U \in SUBSET S /\ ~Good(U)
    OBVIOUS
  <2>3. CASE U = {}
    <3> DEFINE f == [T \in {{}} |-> base]
    <3>1. Folds(f, U, base, s, g) /\ f \in [SUBSET U -> A]
      BY <2>3 DEF Folds
    <3> HIDE DEF f
    <3> QED BY <2>2, <3>1
  <2>4. CASE U # {}
    <3> DEFINE m == Max(U)
               V == U \ {m}
    <3>1. \A T \in SUBSET U : T # {} => Max(T) \in T /\ \A y \in T : Max(T) >= y
      <4> SUFFICES ASSUME NEW T \in SUBSET U, T # {}
                   PROVE  Max(T) \in T /\ \A y \in T : Max(T) >= y
        OBVIOUS
      <4>1. T \subseteq Int
        BY <2>2
      <4>2. IsFiniteSet(T)
        <5> HIDE DEF S
        <5> QED BY <1>1, <2>2, FS_Subset
      <4> QED BY <4>1, <4>2, MaxIs
    <3>2. m \in U /\ \A T \in SUBSET U : m \in T => Max(T) = m
      <4>1. m \in U /\ \A y \in U : m >= y
        BY <2>4, <3>1
      <4>2. \A y \in U : y \in Int
        BY <2>2
      <4> HIDE DEF m
      <4>3. ASSUME NEW T \in SUBSET U, m \in T PROVE Max(T) = m
        <5>1. Max(T) \in U /\ Max(T) >= m
          BY <3>1, <4>3
        <5>2. Max(T) \in Int /\ m \in Int /\ m >= Max(T)
          BY <4>1, <4>2, <5>1
        <5> QED BY <5>1, <5>2
      <4> QED BY <4>1, <4>3
    <3>3. Good(V)
      <4>1. V \in SUBSET S /\ V # U /\ V \subseteq U
        BY <2>2, <3>2
      <4> HIDE DEF V, Good
      <4> QED BY <2>1, <4>1
    <3>4. PICK f \in [SUBSET V -> A] : Folds(f, V, base, s, g)
      BY <3>3
    <3> DEFINE h == [T \in SUBSET U |-> IF m \notin T THEN f[T] ELSE g[<<f[T \ {m}], s[m]>>]]
    <3> HIDE DEF m
    <3>5. ASSUME NEW T \in SUBSET U
          PROVE  /\ h[T] = IF T = {} THEN base ELSE g[<<h[T \ {Max(T)}], s[Max(T)]>>]
                 /\ h[T] \in A
      <4>1. CASE m \in T
        <5>1. Max(T) = m /\ T \ {m} \in SUBSET U /\ T \ {m} \in SUBSET V
          BY <3>2, <4>1
        <5>2. h[T \ {m}] = f[T \ {m}] /\ f[T \ {m}] \in A
          BY <3>4, <5>1
        <5>3. s[m] \in B
          BY <2>2, <3>2
        <5>4. h[T] = g[<<f[T \ {m}], s[m]>>]
          BY <4>1
        <5>5. g[<<f[T \ {m}], s[m]>>] \in A
          BY <5>2, <5>3
        <5> HIDE DEF h
        <5> QED BY <4>1, <5>1, <5>2, <5>4, <5>5
      <4>2. CASE m \notin T
        <5>1. T \in SUBSET V
          BY <4>2
        <5>2. f[T] = IF T = {} THEN base ELSE g[<<f[T \ {Max(T)}], s[Max(T)]>>]
          BY <3>4, <5>1 DEF Folds
        <5>3. T # {} => h[T \ {Max(T)}] = f[T \ {Max(T)}]
          BY <4>2
        <5>4. f[T] \in A /\ h[T] = f[T]
          BY <3>4, <4>2, <5>1
        <5> HIDE DEF h
        <5> QED BY <4>2, <5>2, <5>3, <5>4
      <4> QED BY <4>1, <4>2
    <3>6. h \in [SUBSET U -> A]
      <4>1. DOMAIN h = SUBSET U /\ h = [T \in SUBSET U |-> h[T]]
        OBVIOUS
      <4> HIDE DEF h
      <4> QED BY <3>5, <4>1
    <3>7. Folds(h, U, base, s, g)
      <4> HIDE DEF h
      <4> QED BY <3>5 DEF Folds
    <3> HIDE DEF h
    <3> QED BY <2>2, <3>6, <3>7
  <2> QED BY <2>3, <2>4
<1>4. Good(S)
  BY <1>3
<1> QED BY <1>4

\* The last number of an interval.
LEMMA UpTo ==
  ASSUME NEW i \in Nat
  PROVE  /\ Max(1..(i + 1)) = i + 1 /\ 1..(i + 1) \ {i + 1} = 1..i
         /\ 1..(i + 1) # {} /\ i + 1 \in 1..(i + 1)
<1>1. i + 1 \in 1..(i + 1) /\ (\A y \in 1..(i + 1) : i + 1 >= y) /\ 1..(i + 1) # {}
  OBVIOUS
<1>2. IsFiniteSet(1..(i + 1)) /\ 1..(i + 1) \subseteq Int
  <2>1. 1 \in Int /\ i + 1 \in Int /\ 1..(i + 1) \subseteq Int
    OBVIOUS
  <2> QED BY <2>1, FS_Interval
<1>3. Max(1..(i + 1)) \in 1..(i + 1) /\ \A y \in 1..(i + 1) : Max(1..(i + 1)) >= y
  BY <1>1, <1>2, MaxIs
<1>4. Max(1..(i + 1)) = i + 1
  BY <1>1, <1>3
<1>5. 1..(i + 1) \ {i + 1} = 1..i
  OBVIOUS
<1> QED BY <1>1, <1>4, <1>5

\* What holds of the first member's start and is kept from each member to the next holds
\* of the whole list: Z relates how many members are folded to what they are folded to.
LEMMA FoldReaches ==
  ASSUME NEW n \in Nat, NEW f, NEW Z, <<0, f[{}]>> \in Z,
         \A i \in 0..(n - 1) : <<i, f[1..i]>> \in Z => <<i + 1, f[1..(i + 1)]>> \in Z
  PROVE  <<n, f[1..n]>> \in Z
<1> DEFINE G == {i \in 0..n : \A j \in 0..i : <<j, f[1..j]>> \in Z}
<1>1. G \subseteq Int /\ IsFiniteSet(G) /\ 0 \in G
  <2>1. IsFiniteSet(0..n)
    <3>1. 0 \in Int /\ n \in Int
      OBVIOUS
    <3> HIDE DEF G
    <3> QED BY <3>1, FS_Interval
  <2>2. IsFiniteSet(G)
    <3>1. G \subseteq 0..n
      OBVIOUS
    <3> HIDE DEF G
    <3> QED BY <2>1, <3>1, FS_Subset
  <2>3. 1..0 = {} /\ \A j \in 0..0 : j = 0
    OBVIOUS
  <2>4. \A j \in 0..0 : <<j, f[1..j]>> \in Z
    BY <2>3
  <2> QED BY <2>2, <2>4
<1>2. Max(G) \in G /\ \A y \in G : Max(G) >= y
  <2> HIDE DEF G
  <2> QED BY <1>1, MaxIs
<1> DEFINE m == Max(G)
<1> HIDE DEF m
<1>3. m \in 0..n /\ (\A j \in 0..m : <<j, f[1..j]>> \in Z) /\ \A y \in G : m >= y
  BY <1>2 DEF m
<1>4. m = n
  <2> SUFFICES ASSUME m < n PROVE FALSE
    BY <1>3
  <2>1. m \in 0..(n - 1) /\ m \in 0..m /\ m + 1 \in 0..n
    BY <1>3
  <2>2. <<m + 1, f[1..(m + 1)]>> \in Z
    <3> HIDE DEF G
    <3> QED BY <1>3, <2>1
  <2>3. \A j \in 0..(m + 1) : <<j, f[1..j]>> \in Z
    <3>1. \A j \in 0..(m + 1) : j \in 0..m \/ j = m + 1
      BY <2>1
    <3> HIDE DEF G
    <3> QED BY <1>3, <2>2, <3>1
  <2>4. m + 1 \in G
    BY <2>1, <2>3
  <2>5. ~(m >= m + 1)
    BY <2>1
  <2> HIDE DEF G
  <2> QED BY <1>3, <2>4, <2>5
<1>5. n \in 0..n
  OBVIOUS
<1> QED BY <1>3, <1>4, <1>5


-----------------------------------------------------------------------------
(* FlowCollector: what is said of the log, for any log, and how it changes  *)
(* when a set is received.                                                 *)

Items == [at : Nat, tid : Tids, i : Nat, n : Nat]
Entries == [set : Sets, src : Sources, at : Nat]
KeptTemplates == [layout : Layouts \cup {"none"}, at : Nat]

\* What the parsers work on.
Working == [templates : [Keys -> KeptTemplates], buffer : [Sources -> Seq(Items)], log : Seq(Entries),
            flows : Seq(Nat \X Nat)]

TemplatesOf(lg, s, tid) ==
  {k \in 1..Len(lg) : lg[k].set.is = "template" /\ lg[k].src = s /\ lg[k].set.tid = tid}

TemplatesFrom(lg, i) == TemplatesOf(lg, lg[i].src, lg[i].set.tid)

Before(lg, i) == {k \in TemplatesFrom(lg, i) : k < i}
After(lg, i) == {k \in TemplatesFrom(lg, i) : k > i}

CurrentIn(lg, i) ==
  IF Before(lg, i) = {} \/ lg[i].at - lg[Max(Before(lg, i))].at > TemplateTtl THEN "none"
  ELSE lg[Max(Before(lg, i))].set.layout

OrphanIn(lg, i) == lg[i].set.is = "data" /\ ~Usable(CurrentIn(lg, i))

RescuerIn(lg, i) ==
  IF \/ After(lg, i) = {} \/ lg[Min(After(lg, i))].at - lg[i].at > OrphanTtl
     \/ lg[Min(After(lg, i))].set.layout = "empty"
  THEN {} ELSE {Min(After(lg, i))}

RivalsIn(lg, i, k) == {j \in i + 1..k - 1 : OrphanIn(lg, j) /\ lg[j].src = lg[i].src}

WholeIn(lg, dec, i, layout) ==
  \A x \in ToSet(FlowsOf(lg[i].src, layout, i, lg[i].set.n)) : x \in dec

\* The parsers' templates are the last ones received, or expired.
Follows(tm, lg, t) ==
  \A s \in Sources, tid \in Tids :
    LET T == TemplatesOf(lg, s, tid)
    IN  \/ tm[<<s, tid>>].layout = "none" /\ (T = {} \/ t - lg[Max(T)].at > TemplateTtl)
        \/ T # {} /\ tm[<<s, tid>>] = [layout |-> lg[Max(T)].set.layout, at |-> lg[Max(T)].at]

\* No template is expired: so it is while a packet is parsed.
Fresh(tm, t) ==
  \A k \in Keys : tm[k].layout # "none" => t - tm[k].at <= TemplateTtl

\* An orphan that no template came for, as it waits.
Waiting(item, lg, s) ==
  /\ item.i \in 1..Len(lg) /\ OrphanIn(lg, item.i) /\ After(lg, item.i) = {}
  /\ lg[item.i].src = s /\ lg[item.i].at = item.at
  /\ lg[item.i].set.tid = item.tid /\ lg[item.i].set.n = item.n

\* What waits in a buffer, in the order it came.
Waits(bf, lg) ==
  \A s \in Sources :
    /\ Len(bf[s]) <= Orphans
    /\ \A a \in 1..Len(bf[s]) : Waiting(bf[s][a], lg, s)
    /\ \A a, b \in 1..Len(bf[s]) : a < b => bf[s][a].i < bf[s][b].i

\* An orphan no template came for still waits, or was pushed out, or is too old.
Pending(bf, lg, t, i) ==
  \/ \E a \in 1..Len(bf[lg[i].src]) : bf[lg[i].src][a].i = i
  \/ Cardinality(RivalsIn(lg, i, Len(lg) + 1)) >= Orphans
  \/ t - lg[i].at > OrphanTtl

Fates(bf, lg, t, dec) ==
  \A i \in 1..Len(lg) : lg[i].set.is = "data" =>
    /\ Usable(CurrentIn(lg, i)) => WholeIn(lg, dec, i, CurrentIn(lg, i))
    /\ OrphanIn(lg, i) /\ After(lg, i) = {} => Pending(bf, lg, t, i)
    /\ OrphanIn(lg, i) => \A k \in RescuerIn(lg, i) :
         Cardinality(RivalsIn(lg, i, k)) < Orphans => WholeIn(lg, dec, i, lg[k].set.layout)

\* What is decoded was received, and an orphan only if its template came.
Known(dec, lg) ==
  \A x \in dec : /\ x \in Nat \X Nat /\ x[1] \in 1..Len(lg)
                 /\ OrphanIn(lg, x[1]) => RescuerIn(lg, x[1]) # {}

ParseInv(p, dec, t) ==
  /\ p \in Working
  /\ Follows(p.templates, p.log, t) /\ Fresh(p.templates, t)
  /\ Waits(p.buffer, p.log)
  /\ Fates(p.buffer, p.log, t, dec \cup ToSet(p.flows))
  /\ Known(dec \cup ToSet(p.flows), p.log)
  /\ ToSet(p.flows) \cap dec = {}

\* What a set is made of.
LEMMA SetIs ==
  ASSUME NEW set \in Sets
  PROVE  \/ set.is = "template" /\ set.tid \in Tids /\ set.layout \in Layouts
         \/ set.is = "data" /\ set.tid \in Tids /\ set.n \in Nat
         \/ set.is = "v5" /\ set.n \in Nat
BY DEF Sets

\* A template that came is one of its source and id.
LEMMA TemplatesAre ==
  ASSUME NEW lg \in Seq(Entries), NEW s, NEW tid
  PROVE  /\ TemplatesOf(lg, s, tid) \subseteq 1..Len(lg) /\ IsFiniteSet(TemplatesOf(lg, s, tid))
         /\ \A k \in TemplatesOf(lg, s, tid) : lg[k] \in Entries /\ lg[k].set.layout \in Layouts
<1>1. TemplatesOf(lg, s, tid) \subseteq 1..Len(lg) /\ Len(lg) \in Nat
  BY DEF TemplatesOf
<1>2. IsFiniteSet(1..Len(lg))
  <2>1. 1 \in Int /\ Len(lg) \in Int
    BY <1>1
  <2> QED BY <2>1, FS_Interval
<1>3. ASSUME NEW k \in TemplatesOf(lg, s, tid)
      PROVE  lg[k] \in Entries /\ lg[k].set.layout \in Layouts
  <2>1. lg[k] \in Entries /\ lg[k].set.is = "template"
    BY <1>3 DEF TemplatesOf
  <2>2. lg[k].set \in Sets
    BY <2>1 DEF Entries
  <2> QED BY <2>1, <2>2, SetIs
<1> QED BY <1>1, <1>2, <1>3, FS_Subset

\* The least number of a finite set that is not empty.
LEMMA MinIs ==
  ASSUME NEW S, IsFiniteSet(S), S \subseteq Int, S # {}
  PROVE  Min(S) \in S /\ \A y \in S : Min(S) <= y
<1> DEFINE Bad == {s \in SUBSET S : s # {} /\ ~ \E x \in s : \A y \in s : x <= y}
<1>1. Bad # {} => \E s \in Bad : \A t \in Bad : t \subseteq s => t = s
  <2>1. Bad \subseteq SUBSET S
    OBVIOUS
  <2>2. IsFiniteSet(S)
    OBVIOUS
  <2> HIDE DEF Bad
  <2> QED BY ONLY <2>1, <2>2, MinimalSubset
<1>2. ASSUME Bad # {} PROVE FALSE
  <2>1. PICK s \in Bad : \A t \in Bad : t \subseteq s => t = s
    BY <1>1, <1>2, Zenon
  <2>2. s \in SUBSET S /\ s # {} /\ ~ \E x \in s : \A y \in s : x <= y
    OBVIOUS
  <2>3. PICK z \in s : TRUE
    BY <2>2
  <2> DEFINE t == s \ {z}
  <2>4. t \in SUBSET S /\ t \subseteq s /\ t # s
    BY <2>2, <2>3
  <2>5. t = {} \/ \E x \in t : \A y \in t : x <= y
    <3> HIDE DEF t
    <3>1. t \notin Bad
      <4> HIDE DEF Bad
      <4> QED BY <2>1, <2>4
    <3> QED BY <2>4, <3>1
  <2>6. z \in Int /\ \A y \in s : y \in Int
    BY <2>2, <2>3
  <2>7. CASE t = {}
    <3>1. \A y \in s : z <= y
      BY <2>6, <2>7
    <3> QED BY <2>2, <2>3, <3>1
  <2>8. CASE \E x \in t : \A y \in t : x <= y
    <3>1. PICK x \in t : \A y \in t : x <= y
      BY <2>8
    <3>2. x \in s /\ x \in Int /\ \A y \in s : y = z \/ x <= y
      BY <2>6, <3>1
    <3>3. (\A y \in s : x <= y) \/ (\A y \in s : z <= y)
      <4>1. z \in Int /\ x \in Int /\ \A y \in s : y \in Int /\ (y = z \/ x <= y)
        BY <2>6, <3>2
      <4> HIDE DEF t, Bad
      <4>2. CASE x <= z
        BY <4>1, <4>2
      <4>3. CASE z <= x
        BY <4>1, <4>3
      <4> QED BY <4>1, <4>2, <4>3
    <3> QED BY <2>2, <2>3, <3>2, <3>3
  <2> QED BY <2>5, <2>7, <2>8
<1>3. \E x \in S : \A y \in S : x <= y
  BY <1>2
<1> QED BY <1>3 DEF Min

\* The number of a set that is a template for the id.
New(lg, e, s, tid) ==
  IF e.set.is = "template" /\ e.src = s /\ e.set.tid = tid THEN {Len(lg) + 1} ELSE {}

\* A set that comes changes nothing that was said of the earlier ones, but for those that
\* waited for it.
LEMMA LogGrows ==
  ASSUME NEW lg \in Seq(Entries), NEW e \in Entries, NEW r, r = Append(lg, e)
  PROVE  /\ r \in Seq(Entries) /\ Len(r) = Len(lg) + 1 /\ r[Len(lg) + 1] = e
         /\ \A i \in 1..Len(lg) : r[i] = lg[i]
OBVIOUS

LEMMA TemplatesGrow ==
  ASSUME NEW lg \in Seq(Entries), NEW e \in Entries, NEW s, NEW tid
  PROVE  TemplatesOf(Append(lg, e), s, tid) = TemplatesOf(lg, s, tid) \cup New(lg, e, s, tid)
<1> DEFINE r == Append(lg, e)
<1>1. /\ r \in Seq(Entries) /\ Len(r) = Len(lg) + 1 /\ r[Len(lg) + 1] = e /\ Len(lg) \in Nat
      /\ \A i \in 1..Len(lg) : r[i] = lg[i]
  OBVIOUS
<1> HIDE DEF r
<1>2. 1..Len(r) = 1..Len(lg) \cup {Len(lg) + 1}
  BY <1>1
<1>3. \A k \in 1..Len(lg) : k # Len(lg) + 1
  BY <1>1
<1>4. TemplatesOf(r, s, tid) = TemplatesOf(lg, s, tid) \cup New(lg, e, s, tid)
  BY <1>1, <1>2, <1>3 DEF TemplatesOf, New
<1> QED BY <1>4 DEF r

LEMMA EarlierStay ==
  ASSUME NEW lg \in Seq(Entries), NEW e \in Entries, NEW r, r = Append(lg, e)
  PROVE  \A i \in 1..Len(lg) :
           /\ Before(r, i) = Before(lg, i) /\ CurrentIn(r, i) = CurrentIn(lg, i)
           /\ OrphanIn(r, i) <=> OrphanIn(lg, i)
           /\ After(r, i) = After(lg, i) \cup New(lg, e, lg[i].src, lg[i].set.tid)
<1>1. /\ r \in Seq(Entries) /\ Len(r) = Len(lg) + 1 /\ r[Len(lg) + 1] = e /\ Len(lg) \in Nat
      /\ \A i \in 1..Len(lg) : r[i] = lg[i]
  OBVIOUS
<1> SUFFICES ASSUME NEW i \in 1..Len(lg)
             PROVE  /\ Before(r, i) = Before(lg, i) /\ CurrentIn(r, i) = CurrentIn(lg, i)
                    /\ OrphanIn(r, i) <=> OrphanIn(lg, i)
                    /\ After(r, i) = After(lg, i) \cup New(lg, e, lg[i].src, lg[i].set.tid)
  OBVIOUS
<1>2. r[i] = lg[i] /\ i < Len(lg) + 1 /\ ~(Len(lg) + 1 < i)
  BY <1>1
<1>3. TemplatesFrom(r, i) = TemplatesFrom(lg, i) \cup New(lg, e, lg[i].src, lg[i].set.tid)
  <2>1. TemplatesOf(r, lg[i].src, lg[i].set.tid) =
          TemplatesOf(lg, lg[i].src, lg[i].set.tid) \cup New(lg, e, lg[i].src, lg[i].set.tid)
    BY TemplatesGrow, SMTT(60)
  <2> QED BY <1>2, <2>1 DEF TemplatesFrom
<1>4. Before(r, i) = Before(lg, i)
  BY <1>2, <1>3 DEF Before, New
<1>5. After(r, i) = After(lg, i) \cup New(lg, e, lg[i].src, lg[i].set.tid)
  BY <1>2, <1>3 DEF After, New
<1>6. CurrentIn(r, i) = CurrentIn(lg, i)
  <2>1. CASE Before(lg, i) = {}
    BY <1>4, <2>1 DEF CurrentIn
  <2>2. CASE Before(lg, i) # {}
    <3>1. Before(lg, i) \subseteq TemplatesFrom(lg, i) /\ TemplatesFrom(lg, i) \subseteq 1..Len(lg)
          /\ IsFiniteSet(TemplatesFrom(lg, i))
      BY TemplatesAre DEF Before, TemplatesFrom
    <3>2. Before(lg, i) \subseteq Int /\ IsFiniteSet(Before(lg, i))
      BY <1>1, <3>1, FS_Subset
    <3>3. Max(Before(lg, i)) \in Before(lg, i)
      BY <2>2, <3>2, MaxIs
    <3>4. r[Max(Before(lg, i))] = lg[Max(Before(lg, i))]
      BY <1>1, <3>1, <3>3
    <3> QED BY <1>2, <1>4, <3>4 DEF CurrentIn
  <2> QED BY <2>1, <2>2
<1>7. OrphanIn(r, i) <=> OrphanIn(lg, i)
  BY <1>2, <1>6 DEF OrphanIn
<1> QED BY <1>4, <1>5, <1>6, <1>7

\* Orphans that came before a set are the same when it has come.
LEMMA RivalsStay ==
  ASSUME NEW lg \in Seq(Entries), NEW e \in Entries, NEW r, r = Append(lg, e),
         NEW i \in 1..Len(lg), NEW k \in 1..(Len(lg) + 1)
  PROVE  RivalsIn(r, i, k) = RivalsIn(lg, i, k)
<1>1. Len(lg) \in Nat /\ r[i] = lg[i]
  BY LogGrows
<1>2. \A j \in i + 1..k - 1 : j \in 1..Len(lg)
  BY <1>1
<1>3. \A j \in i + 1..k - 1 : r[j] = lg[j] /\ (OrphanIn(r, j) <=> OrphanIn(lg, j))
  <2>1. \A j \in 1..Len(lg) : r[j] = lg[j]
    BY LogGrows
  <2>2. \A j \in 1..Len(lg) : OrphanIn(r, j) <=> OrphanIn(lg, j)
    BY EarlierStay
  <2> QED BY <1>2, <2>1, <2>2
<1> QED BY <1>1, <1>3 DEF RivalsIn

\* What comes after a set came later.
LEMMA AfterAre ==
  ASSUME NEW lg \in Seq(Entries), NEW i \in 1..Len(lg)
  PROVE  /\ IsFiniteSet(After(lg, i)) /\ After(lg, i) \subseteq i + 1..Len(lg)
         /\ After(lg, i) # {} =>
              Min(After(lg, i)) \in After(lg, i) /\ \A y \in After(lg, i) : Min(After(lg, i)) <= y
<1>1. After(lg, i) \subseteq TemplatesFrom(lg, i) /\ TemplatesFrom(lg, i) \subseteq 1..Len(lg)
      /\ IsFiniteSet(TemplatesFrom(lg, i)) /\ Len(lg) \in Nat
  BY TemplatesAre, LenProperties DEF After, TemplatesFrom
<1>2. \A k \in After(lg, i) : k > i /\ k \in 1..Len(lg)
  BY <1>1 DEF After
<1>3. After(lg, i) \subseteq i + 1..Len(lg) /\ After(lg, i) \subseteq Int
  BY <1>1, <1>2
<1>4. IsFiniteSet(After(lg, i))
  BY <1>1, FS_Subset
<1> QED BY <1>3, <1>4, MinIs

\* The template an orphan waited for, once it has come, stays the same.
LEMMA RescuerGrows ==
  ASSUME NEW lg \in Seq(Entries), NEW e \in Entries, NEW r, r = Append(lg, e),
         NEW i \in 1..Len(lg)
  PROVE  LET fits == e.set.is = "template" /\ e.src = lg[i].src /\ e.set.tid = lg[i].set.tid
         IN  /\ After(lg, i) # {} => RescuerIn(r, i) = RescuerIn(lg, i)
             /\ After(lg, i) = {} /\ ~fits => RescuerIn(r, i) = {}
             /\ After(lg, i) = {} /\ fits =>
                  RescuerIn(r, i) = IF e.at - lg[i].at > OrphanTtl \/ e.set.layout = "empty"
                                    THEN {} ELSE {Len(lg) + 1}
<1> DEFINE N == Len(lg)
           fits == e.set.is = "template" /\ e.src = lg[i].src /\ e.set.tid = lg[i].set.tid
<1> USE DEF New
<1>1. N \in Nat /\ r[N + 1] = e /\ r \in Seq(Entries) /\ Len(r) = N + 1 /\ i \in 1..Len(r)
      /\ \A j \in 1..N : r[j] = lg[j]
  BY LogGrows
<1>2. After(r, i) = After(lg, i) \cup (IF fits THEN {N + 1} ELSE {})
  BY EarlierStay
<1>3. CASE After(lg, i) # {}
  <2>1. /\ Min(After(lg, i)) \in After(lg, i) /\ \A y \in After(lg, i) : Min(After(lg, i)) <= y
        /\ After(lg, i) \subseteq i + 1..N
    BY <1>3, AfterAre
  <2>2. /\ Min(After(r, i)) \in After(r, i) /\ \A y \in After(r, i) : Min(After(r, i)) <= y
        /\ After(r, i) \subseteq i + 1..Len(r) /\ After(r, i) # {}
    BY <1>1, <1>2, <1>3, AfterAre
  <2>3. Min(After(r, i)) = Min(After(lg, i))
    <3>1. Min(After(r, i)) <= Min(After(lg, i))
      BY <1>2, <2>1, <2>2
    <3>2. Min(After(lg, i)) \in 1..N /\ Min(After(r, i)) \in 1..(N + 1)
      BY <1>1, <2>1, <2>2
    <3>3. Min(After(r, i)) # N + 1
      BY <1>1, <3>1, <3>2
    <3>4. Min(After(r, i)) \in After(lg, i)
      BY <1>2, <2>2, <3>3
    <3>5. Min(After(lg, i)) <= Min(After(r, i))
      BY <2>1, <3>4
    <3> QED BY <3>1, <3>2, <3>5
  <2>4. r[Min(After(lg, i))] = lg[Min(After(lg, i))] /\ r[i] = lg[i]
    BY <1>1, <2>1
  <2>5. RescuerIn(r, i) = RescuerIn(lg, i)
    BY <1>3, <2>2, <2>3, <2>4 DEF RescuerIn
  <2> QED BY <1>3, <2>5
<1>4. CASE After(lg, i) = {} /\ ~fits
  <2>1. After(r, i) = {}
    BY <1>2, <1>4
  <2>2. RescuerIn(r, i) = {}
    BY <2>1 DEF RescuerIn
  <2> QED BY <1>4, <2>2
<1>5. CASE After(lg, i) = {} /\ fits
  <2>1. After(r, i) = {N + 1}
    BY <1>2, <1>5
  <2>2. Min(After(r, i)) = N + 1
    BY <1>1, <2>1, AfterAre
  <2>3. RescuerIn(r, i) = IF e.at - lg[i].at > OrphanTtl \/ e.set.layout = "empty"
                          THEN {} ELSE {N + 1}
    BY <1>1, <2>1, <2>2 DEF RescuerIn
  <2> QED BY <1>5, <2>3
<1> QED BY <1>3, <1>4, <1>5

\* What is decoded stays known.
LEMMA KnownStays ==
  ASSUME NEW lg \in Seq(Entries), NEW e \in Entries, NEW r, r = Append(lg, e),
         NEW dec, Known(dec, lg)
  PROVE  Known(dec, r)
<1> SUFFICES ASSUME NEW x \in dec
             PROVE  /\ x \in Nat \X Nat /\ x[1] \in 1..Len(r)
                    /\ OrphanIn(r, x[1]) => RescuerIn(r, x[1]) # {}
  BY DEF Known
<1>1. /\ x \in Nat \X Nat /\ x[1] \in 1..Len(lg)
      /\ OrphanIn(lg, x[1]) => RescuerIn(lg, x[1]) # {}
  BY DEF Known
<1>2. PICK i \in 1..Len(lg) : i = x[1]
  BY <1>1
<1>3. OrphanIn(r, i) <=> OrphanIn(lg, i)
  BY EarlierStay
<1>4. i \in 1..Len(r)
  BY LogGrows, LenProperties
<1>5. RescuerIn(lg, i) # {} => After(lg, i) # {}
  BY DEF RescuerIn
<1>6. RescuerIn(lg, i) # {} => RescuerIn(r, i) # {}
  BY <1>5, RescuerGrows
<1> QED BY <1>1, <1>2, <1>3, <1>4, <1>6

\* The fate of a set that came earlier is known, unless it waited for the new one.
LEMMA FatesStay ==
  ASSUME NEW lg \in Seq(Entries), NEW e \in Entries, NEW r, r = Append(lg, e),
         NEW bf, NEW t, NEW dec, NEW more, dec \subseteq more, Fates(bf, lg, t, dec),
         NEW i \in 1..Len(lg), lg[i].set.is = "data"
  PROVE  /\ Usable(CurrentIn(r, i)) => WholeIn(r, more, i, CurrentIn(r, i))
         /\ OrphanIn(r, i) /\ After(r, i) = {} => Pending(bf, lg, t, i)
         /\ OrphanIn(r, i) /\ (After(lg, i) # {} \/ After(r, i) = {}) => \A k \in RescuerIn(r, i) :
              Cardinality(RivalsIn(r, i, k)) < Orphans => WholeIn(r, more, i, r[k].set.layout)
<1>1. r[i] = lg[i] /\ CurrentIn(r, i) = CurrentIn(lg, i) /\ (OrphanIn(r, i) <=> OrphanIn(lg, i))
      /\ After(lg, i) \subseteq After(r, i)
  <2>1. r[i] = lg[i]
    BY LogGrows
  <2>2. /\ CurrentIn(r, i) = CurrentIn(lg, i) /\ (OrphanIn(r, i) <=> OrphanIn(lg, i))
        /\ After(r, i) = After(lg, i) \cup New(lg, e, lg[i].src, lg[i].set.tid)
    BY EarlierStay
  <2> QED BY <2>1, <2>2
<1>2. \A layout : WholeIn(lg, dec, i, layout) => WholeIn(r, more, i, layout)
  BY <1>1 DEF WholeIn
<1>3. Usable(CurrentIn(r, i)) => WholeIn(r, more, i, CurrentIn(r, i))
  BY <1>1, <1>2 DEF Fates
<1>4. OrphanIn(r, i) /\ After(r, i) = {} => Pending(bf, lg, t, i)
  BY <1>1 DEF Fates
<1>5. ASSUME OrphanIn(r, i), After(lg, i) # {}, NEW k \in RescuerIn(r, i),
             Cardinality(RivalsIn(r, i, k)) < Orphans
      PROVE  WholeIn(r, more, i, r[k].set.layout)
  <2>1. k \in RescuerIn(lg, i)
    BY <1>5, RescuerGrows
  <2>2. k \in 1..Len(lg)
    <3>1. k \in After(lg, i)
      BY <1>5, <2>1, AfterAre DEF RescuerIn
    <3> QED BY <3>1, AfterAre
  <2>3. RivalsIn(r, i, k) = RivalsIn(lg, i, k) /\ r[k] = lg[k]
    <3>1. k \in 1..(Len(lg) + 1)
      BY <2>2
    <3>2. RivalsIn(r, i, k) = RivalsIn(lg, i, k)
      BY <3>1, RivalsStay
    <3>3. \A j \in 1..Len(lg) : r[j] = lg[j]
      BY LogGrows
    <3> QED BY <2>2, <3>2, <3>3
  <2>4. WholeIn(lg, dec, i, lg[k].set.layout)
    BY <1>1, <1>5, <2>1, <2>3 DEF Fates
  <2> QED BY <1>2, <2>3, <2>4
<1>6. After(r, i) = {} => RescuerIn(r, i) = {}
  BY DEF RescuerIn
<1> QED BY <1>3, <1>4, <1>5, <1>6

-----------------------------------------------------------------------------
(* The parsers: one set of a packet at a time.                             *)

LEMMA SetOfConcat ==
  ASSUME NEW S, NEW s \in Seq(S), NEW t \in Seq(S)
  PROVE  s \o t \in Seq(S) /\ \A x : x \in ToSet(s \o t) <=> x \in ToSet(s) \/ x \in ToSet(t)
<1> DEFINE r == s \o t
<1>1. /\ r \in Seq(S) /\ Len(r) = Len(s) + Len(t) /\ Len(s) \in Nat /\ Len(t) \in Nat
      /\ \A i \in 1..Len(s) : r[i] = s[i]
      /\ \A i \in 1..Len(t) : r[Len(s) + i] = t[i]
  BY ConcatProperties, LenProperties
<1>2. DOMAIN r = 1..Len(r) /\ DOMAIN s = 1..Len(s) /\ DOMAIN t = 1..Len(t)
  BY <1>1
<1> HIDE DEF r
<1>3. ASSUME NEW x, x \in ToSet(r) PROVE x \in ToSet(s) \/ x \in ToSet(t)
  <2>1. PICK i \in 1..Len(r) : r[i] = x
    BY <1>2, <1>3 DEF ToSet
  <2>2. CASE i <= Len(s)
    BY <1>1, <1>2, <2>1, <2>2 DEF ToSet
  <2>3. CASE i > Len(s)
    <3>1. i - Len(s) \in 1..Len(t) /\ i = Len(s) + (i - Len(s))
      BY <1>1, <2>1, <2>3
    <3>2. x = t[i - Len(s)]
      BY <1>1, <2>1, <3>1
    <3> QED BY <1>2, <3>1, <3>2 DEF ToSet
  <2> QED BY <1>1, <2>1, <2>2, <2>3
<1>4. ASSUME NEW x, x \in ToSet(s) PROVE x \in ToSet(r)
  <2>1. PICK i \in 1..Len(s) : s[i] = x
    BY <1>2, <1>4 DEF ToSet
  <2>2. i \in 1..Len(r) /\ r[i] = x
    BY <1>1, <2>1
  <2> QED BY <1>2, <2>2 DEF ToSet
<1>5. ASSUME NEW x, x \in ToSet(t) PROVE x \in ToSet(r)
  <2>1. PICK i \in 1..Len(t) : t[i] = x
    BY <1>2, <1>5 DEF ToSet
  <2>2. Len(s) + i \in 1..Len(r) /\ r[Len(s) + i] = x
    BY <1>1, <2>1
  <2> QED BY <1>2, <2>2 DEF ToSet
<1>6. r \in Seq(S) /\ \A x : x \in ToSet(r) <=> x \in ToSet(s) \/ x \in ToSet(t)
  BY <1>1, <1>3, <1>4, <1>5
<1> QED BY <1>6 DEF r

LEMMA SetOfAppend ==
  ASSUME NEW S, NEW s \in Seq(S), NEW y \in S
  PROVE  \A x : x \in ToSet(Append(s, y)) <=> x \in ToSet(s) \/ x = y
<1> DEFINE r == Append(s, y)
<1>1. /\ r \in Seq(S) /\ Len(r) = Len(s) + 1 /\ Len(s) \in Nat /\ r[Len(s) + 1] = y
      /\ \A i \in 1..Len(s) : r[i] = s[i]
      /\ DOMAIN r = 1..Len(r) /\ DOMAIN s = 1..Len(s)
  OBVIOUS
<1> HIDE DEF r
<1>2. 1..Len(r) = 1..Len(s) \cup {Len(s) + 1}
  BY <1>1
<1>3. \A x : x \in ToSet(r) <=> x \in ToSet(s) \/ x = y
  BY <1>1, <1>2 DEF ToSet
<1> QED BY <1>3 DEF r

\* The flows of a set are numbered with it.
LEMMA NumberedAre ==
  ASSUME NEW i \in Nat, NEW n \in Nat
  PROVE  /\ Numbered(i, n) \in Seq(Nat \X Nat)
         /\ \A x \in ToSet(Numbered(i, n)) : x \in Nat \X Nat /\ x[1] = i
BY DEF Numbered, ToSet

LEMMA FlowsAre ==
  ASSUME NEW s, NEW layout, NEW i \in Nat, NEW n \in Nat
  PROVE  /\ FlowsOf(s, layout, i, n) \in Seq(Nat \X Nat)
         /\ \A x \in ToSet(FlowsOf(s, layout, i, n)) : x \in Nat \X Nat /\ x[1] = i
<1>1. Numbered(i, n) \in Seq(Nat \X Nat) /\ <<>> \in Seq(Nat \X Nat)
  BY DEF Numbered
<1>2. \A x \in ToSet(Numbered(i, n)) : x \in Nat \X Nat /\ x[1] = i
  BY DEF Numbered, ToSet
<1>3. ToSet(<<>>) = {}
  BY DEF ToSet
<1>4. FlowsOf(s, layout, i, n) = <<>> \/ FlowsOf(s, layout, i, n) = Numbered(i, n)
  BY DEF FlowsOf, V9Flows, IpfixFlows
<1> QED BY <1>1, <1>2, <1>3, <1>4

\* What has become of the first m sets of the buffer.
Drained(p, q, s, tid, m) ==
  /\ p \in Working /\ p.templates = q.templates /\ p.log = q.log
  /\ \A t \in Sources : t # s => p.buffer[t] = q.buffer[t]
  /\ Len(p.buffer[s]) <= m
  /\ \A x : x \in ToSet(p.buffer[s]) <=>
       \E j \in 1..m : x = q.buffer[s][j] /\ Young(x) /\ x.tid # tid
  /\ \A a, b \in 1..Len(p.buffer[s]) : a < b => p.buffer[s][a].i < p.buffer[s][b].i
  /\ \A x : x \in ToSet(p.flows) <=>
       \/ x \in ToSet(q.flows)
       \/ \E j \in 1..m :
            LET item == q.buffer[s][j]
                layout == q.templates[<<s, tid>>].layout
            IN  /\ Young(item) /\ item.tid = tid /\ Usable(layout)
                /\ x \in ToSet(FlowsOf(s, layout, item.i, item.n))

\* The m-th set of the buffer takes p to r.
OneMore(r, p, q, s, tid, m) ==
  LET item == q.buffer[s][m]
      layout == q.templates[<<s, tid>>].layout
  IN  /\ r \in Working /\ r.templates = p.templates /\ r.log = p.log
      /\ \A t \in Sources : t # s => r.buffer[t] = p.buffer[t]
      /\ Len(r.buffer[s]) <= m
      /\ \A x : x \in ToSet(r.buffer[s]) <=>
           x \in ToSet(p.buffer[s]) \/ (x = item /\ Young(x) /\ x.tid # tid)
      /\ \A a, b \in 1..Len(r.buffer[s]) : a < b => r.buffer[s][a].i < r.buffer[s][b].i
      /\ \A x : x \in ToSet(r.flows) <=>
           \/ x \in ToSet(p.flows)
           \/ /\ Young(item) /\ item.tid = tid /\ Usable(layout)
              /\ x \in ToSet(FlowsOf(s, layout, item.i, item.n))

LEMMA DrainedOneMore ==
  ASSUME NEW q, NEW s \in Sources, NEW tid, NEW m \in Nat, NEW p, Drained(p, q, s, tid, m),
         NEW r, OneMore(r, p, q, s, tid, m + 1)
  PROVE  Drained(r, q, s, tid, m + 1)
<1> DEFINE layout == q.templates[<<s, tid>>].layout
           Takes(j, x) == LET item == q.buffer[s][j]
                          IN  /\ Young(item) /\ item.tid = tid /\ Usable(layout)
                              /\ x \in ToSet(FlowsOf(s, layout, item.i, item.n))
           Stays(j, x) == x = q.buffer[s][j] /\ Young(x) /\ x.tid # tid
<1>1. 1..(m + 1) = 1..m \cup {m + 1}
  OBVIOUS
<1>2. /\ \A x : x \in ToSet(p.buffer[s]) <=> \E j \in 1..m : Stays(j, x)
      /\ \A x : x \in ToSet(p.flows) <=> x \in ToSet(q.flows) \/ \E j \in 1..m : Takes(j, x)
  BY DEF Drained
<1>3. /\ \A x : x \in ToSet(r.buffer[s]) <=> x \in ToSet(p.buffer[s]) \/ Stays(m + 1, x)
      /\ \A x : x \in ToSet(r.flows) <=> x \in ToSet(p.flows) \/ Takes(m + 1, x)
  BY DEF OneMore
<1>4. /\ \A x : x \in ToSet(r.buffer[s]) <=> \E j \in 1..(m + 1) : Stays(j, x)
      /\ \A x : x \in ToSet(r.flows) <=> x \in ToSet(q.flows) \/ \E j \in 1..(m + 1) : Takes(j, x)
  <2> HIDE DEF Stays, Takes
  <2> QED BY <1>1, <1>2, <1>3
<1>5. /\ r \in Working /\ r.templates = q.templates /\ r.log = q.log
      /\ \A t \in Sources : t # s => r.buffer[t] = q.buffer[t]
      /\ Len(r.buffer[s]) <= m + 1
      /\ \A a, b \in 1..Len(r.buffer[s]) : a < b => r.buffer[s][a].i < r.buffer[s][b].i
  BY DEF OneMore, Drained
<1> QED BY <1>4, <1>5, Zenon DEF Drained

LEMMA OrphanStep ==
  ASSUME NEW q \in Working, NEW s \in Sources, NEW tid \in Tids,
         \A a, b \in 1..Len(q.buffer[s]) : a < b => q.buffer[s][a].i < q.buffer[s][b].i,
         NEW m \in 0..(Len(q.buffer[s]) - 1), NEW p, Drained(p, q, s, tid, m)
  PROVE  Drained(WithOrphan(p, s, tid, q.buffer[s][m + 1]), q, s, tid, m + 1)
<1> DEFINE bf == q.buffer[s]
           item == bf[m + 1]
           layout == q.templates[<<s, tid>>].layout
           b == p.buffer[s]
           r == WithOrphan(p, s, tid, item)
           Takes(j, x) == /\ Young(bf[j]) /\ bf[j].tid = tid /\ Usable(layout)
                          /\ x \in ToSet(FlowsOf(s, layout, bf[j].i, bf[j].n))
           Stays(j, x) == x = bf[j] /\ Young(x) /\ x.tid # tid
<1>1. /\ bf \in Seq(Items) /\ Len(bf) \in Nat /\ m + 1 \in 1..Len(bf) /\ m \in Nat
      /\ item \in Items
  BY DEF Working
<1>2. /\ p \in Working /\ p.templates = q.templates /\ p.log = q.log
      /\ \A t \in Sources : t # s => p.buffer[t] = q.buffer[t]
      /\ Len(b) <= m /\ b \in Seq(Items) /\ Len(b) \in Nat
      /\ p.flows \in Seq(Nat \X Nat) /\ p.buffer \in [Sources -> Seq(Items)]
      /\ \A a, c \in 1..Len(b) : a < c => b[a].i < b[c].i
  <2>1. /\ p \in Working /\ p.templates = q.templates /\ p.log = q.log
        /\ \A t \in Sources : t # s => p.buffer[t] = q.buffer[t]
        /\ Len(b) <= m
        /\ \A a, c \in 1..Len(b) : a < c => b[a].i < b[c].i
    BY DEF Drained
  <2>2. p.buffer \in [Sources -> Seq(Items)] /\ p.flows \in Seq(Nat \X Nat)
    BY <2>1 DEF Working
  <2>3. b \in Seq(Items)
    BY <2>2
  <2>4. Len(b) \in Nat
    BY <2>3
  <2> HIDE DEF b
  <2> QED BY <2>1, <2>2, <2>3, <2>4
<1>3. /\ \A x : x \in ToSet(b) <=> \E j \in 1..m : Stays(j, x)
      /\ \A x : x \in ToSet(p.flows) <=> x \in ToSet(q.flows) \/ \E j \in 1..m : Takes(j, x)
  BY DEF Drained
<1>4. p.templates[<<s, tid>>].layout = layout
  BY <1>2
<1>5. 1..(m + 1) = 1..m \cup {m + 1}
  BY <1>1
<1>6. r = IF ~Young(item) THEN p
          ELSE IF item.tid # tid THEN [p EXCEPT !.buffer[s] = Append(@, item)]
          ELSE IF Usable(layout)
               THEN [p EXCEPT !.flows = @ \o FlowsOf(s, layout, item.i, item.n)] ELSE p
  BY <1>4 DEF WithOrphan
<1> HIDE DEF r
<1> DEFINE More == OneMore(r, p, q, s, tid, m + 1)
<1>8. ASSUME r = p, ~(Young(item) /\ item.tid # tid),
             ~(Young(item) /\ item.tid = tid /\ Usable(layout))
      PROVE  More
  <2>1. \A x : ~Stays(m + 1, x) /\ ~Takes(m + 1, x)
    BY <1>8
  <2>2. Len(r.buffer[s]) <= m + 1
    BY <1>1, <1>2, <1>8
  <2>3. /\ r \in Working /\ r.templates = p.templates /\ r.log = p.log
        /\ \A t \in Sources : t # s => r.buffer[t] = p.buffer[t]
        /\ \A a, c \in 1..Len(r.buffer[s]) : a < c => r.buffer[s][a].i < r.buffer[s][c].i
    BY <1>2, <1>8
  <2> HIDE DEF Stays, Takes
  <2>4. /\ \A x : x \in ToSet(r.buffer[s]) <=> x \in ToSet(b) \/ Stays(m + 1, x)
        /\ \A x : x \in ToSet(r.flows) <=> x \in ToSet(p.flows) \/ Takes(m + 1, x)
    BY <1>8, <2>1
  <2> HIDE DEF b
  <2> QED BY <2>2, <2>3, <2>4 DEF OneMore, b, Stays, Takes
<1>9. ASSUME Young(item) /\ item.tid # tid PROVE More
  <2>1. r = [p EXCEPT !.buffer[s] = Append(@, item)]
    BY <1>6, <1>9
  <2>2. /\ r.templates = p.templates /\ r.log = p.log /\ r.flows = p.flows
        /\ r.buffer = [p.buffer EXCEPT ![s] = Append(b, item)]
    BY <1>2, <2>1 DEF Working
  <2>3. r.buffer[s] = Append(b, item) /\ \A t \in Sources : t # s => r.buffer[t] = p.buffer[t]
    BY <1>2, <2>2
  <2> DEFINE d == Append(b, item)
  <2>4. /\ d \in Seq(Items) /\ Len(d) = Len(b) + 1 /\ d[Len(b) + 1] = item
        /\ \A a \in 1..Len(b) : d[a] = b[a]
    BY <1>1, <1>2
  <2>5. r \in Working
    <3>1. r.buffer \in [Sources -> Seq(Items)]
      BY <1>2, <2>2, <2>4
    <3>2. r = [templates |-> p.templates, buffer |-> r.buffer, log |-> p.log, flows |-> p.flows]
      BY <1>2, <2>1 DEF Working
    <3> QED BY <1>2, <3>1, <3>2 DEF Working
  <2>6. \A x : x \in ToSet(d) <=> x \in ToSet(b) \/ x = item
    BY <1>1, <1>2, SetOfAppend
  <2>7. \A a \in 1..Len(b) : b[a].i < item.i
    <3> SUFFICES ASSUME NEW a \in 1..Len(b) PROVE b[a].i < item.i
      OBVIOUS
    <3>1. b[a] \in ToSet(b)
      BY <1>2 DEF ToSet
    <3>2. PICK j \in 1..m : b[a] = bf[j]
      BY <1>3, <3>1
    <3>3. j \in 1..Len(bf) /\ m + 1 \in 1..Len(bf) /\ j < m + 1
      BY <1>1
    <3> QED BY <3>2, <3>3
  <2>8. \A x : Stays(m + 1, x) <=> x = item
    BY <1>9
  <2>9. \A x : ~Takes(m + 1, x)
    BY <1>9
  <2> HIDE DEF b, item, d
  <2>10. \A a, c \in 1..Len(d) : a < c => d[a].i < d[c].i
    <3> SUFFICES ASSUME NEW a \in 1..Len(d), NEW c \in 1..Len(d), a < c
                 PROVE  d[a].i < d[c].i
      OBVIOUS
    <3>1. a \in 1..Len(b) /\ (c \in 1..Len(b) \/ c = Len(b) + 1)
      <4>1. Len(b) \in Nat /\ Len(d) = Len(b) + 1
        BY <1>2, <2>4
      <4> HIDE DEF r
      <4> QED BY <4>1
    <3> QED BY <1>2, <2>4, <2>7, <3>1
  <2>11. r.buffer[s] = d
    BY <2>3 DEF d, b, item
  <2>12. Len(r.buffer[s]) <= m + 1
    <3>1. Len(d) <= m + 1
      BY <1>1, <1>2, <2>4
    <3> QED BY <2>11, <3>1
  <2> HIDE DEF Stays, Takes
  <2>13. /\ \A x : x \in ToSet(r.buffer[s]) <=> x \in ToSet(b) \/ Stays(m + 1, x)
         /\ \A x : x \in ToSet(r.flows) <=> x \in ToSet(p.flows) \/ Takes(m + 1, x)
    BY <2>2, <2>6, <2>8, <2>9, <2>11
  <2>14. \A a, c \in 1..Len(r.buffer[s]) : a < c => r.buffer[s][a].i < r.buffer[s][c].i
    BY <2>10, <2>11
  <2> QED BY <2>2, <2>3, <2>5, <2>12, <2>13, <2>14, Zenon DEF OneMore, b, item, Stays, Takes
<1>10. ASSUME Young(item) /\ item.tid = tid /\ Usable(layout) PROVE More
  <2> DEFINE fl == FlowsOf(s, layout, item.i, item.n)
  <2>1. r = [p EXCEPT !.flows = @ \o fl]
    BY <1>6, <1>10
  <2>2. fl \in Seq(Nat \X Nat)
    <3>1. item.i \in Nat /\ item.n \in Nat
      BY <1>1 DEF Items
    <3> QED BY <3>1, FlowsAre
  <2> HIDE DEF fl
  <2>3. /\ r.templates = p.templates /\ r.log = p.log /\ r.flows = p.flows \o fl
        /\ r.buffer = p.buffer
    BY <1>2, <2>1 DEF Working
  <2>4. p.flows \o fl \in Seq(Nat \X Nat)
        /\ \A x : x \in ToSet(p.flows \o fl) <=> x \in ToSet(p.flows) \/ x \in ToSet(fl)
    BY <1>2, <2>2, SetOfConcat
  <2>5. r \in Working
    <3>1. r = [templates |-> p.templates, buffer |-> p.buffer, log |-> p.log,
               flows |-> p.flows \o fl]
      BY <1>2, <2>1 DEF Working
    <3> QED BY <1>2, <2>4, <3>1 DEF Working
  <2>6. \A x : ~Stays(m + 1, x)
    BY <1>10
  <2>7. \A x : Takes(m + 1, x) <=> x \in ToSet(fl)
    BY <1>10 DEF fl
  <2>8. /\ Len(r.buffer[s]) <= m + 1
        /\ \A t \in Sources : t # s => r.buffer[t] = p.buffer[t]
        /\ \A a, c \in 1..Len(r.buffer[s]) : a < c => r.buffer[s][a].i < r.buffer[s][c].i
    <3>1. r.buffer[s] = b
      BY <2>3
    <3> QED BY <1>1, <1>2, <2>3, <3>1
  <2> HIDE DEF Stays, Takes
  <2>9. /\ \A x : x \in ToSet(r.buffer[s]) <=> x \in ToSet(b) \/ Stays(m + 1, x)
        /\ \A x : x \in ToSet(r.flows) <=> x \in ToSet(p.flows) \/ Takes(m + 1, x)
    BY <2>3, <2>4, <2>6, <2>7
  <2> HIDE DEF b
  <2> QED BY <2>3, <2>5, <2>8, <2>9, Zenon DEF OneMore, b, Stays, Takes
<1>11. r = p \/ (Young(item) /\ item.tid # tid) \/ (Young(item) /\ item.tid = tid /\ Usable(layout))
  BY <1>6
<1>12. More
  <2> HIDE DEF item, layout, More
  <2> QED BY <1>8, <1>9, <1>10, <1>11
<1>13. Drained(r, q, s, tid, m + 1)
  <2> HIDE DEF item, layout, b, bf
  <2> QED BY <1>1, <1>12, DrainedOneMore
<1> QED BY <1>13 DEF r

\* A set that waited leaves the parsers what they are.
LEMMA WithOrphanType ==
  ASSUME NEW p \in Working, NEW s \in Sources, NEW tid \in Tids, NEW item \in Items
  PROVE  WithOrphan(p, s, tid, item) \in Working
<1> DEFINE layout == p.templates[<<s, tid>>].layout
           fl == FlowsOf(s, layout, item.i, item.n)
<1>1. /\ p.templates \in [Keys -> KeptTemplates] /\ p.buffer \in [Sources -> Seq(Items)]
      /\ p.log \in Seq(Entries) /\ p.flows \in Seq(Nat \X Nat)
      /\ p = [templates |-> p.templates, buffer |-> p.buffer, log |-> p.log, flows |-> p.flows]
  BY DEF Working
<1>2. fl \in Seq(Nat \X Nat)
  <2>1. item.i \in Nat /\ item.n \in Nat
    BY DEF Items
  <2> QED BY <2>1, FlowsAre
<1> HIDE DEF fl
<1>3. [p EXCEPT !.flows = @ \o fl] \in Working
  <2>1. p.flows \o fl \in Seq(Nat \X Nat)
    BY <1>1, <1>2, ConcatProperties
  <2>2. [p EXCEPT !.flows = @ \o fl] = [templates |-> p.templates, buffer |-> p.buffer,
                                        log |-> p.log, flows |-> p.flows \o fl]
    <3> DEFINE r == [p EXCEPT !.flows = @ \o fl]
    <3>1. r = [p EXCEPT !.flows = p.flows \o fl]
      OBVIOUS
    <3> HIDE DEF r
    <3>2. r = [templates |-> p.templates, buffer |-> p.buffer, log |-> p.log,
               flows |-> p.flows \o fl]
      BY <3>1 DEF Working
    <3> QED BY <3>2 DEF r
  <2> QED BY <1>1, <2>1, <2>2 DEF Working
<1>4. [p EXCEPT !.buffer[s] = Append(@, item)] \in Working
  <2> DEFINE d == [p.buffer EXCEPT ![s] = Append(p.buffer[s], item)]
  <2>1. d \in [Sources -> Seq(Items)]
    <3>1. Append(p.buffer[s], item) \in Seq(Items)
      BY <1>1, AppendProperties
    <3> QED BY <1>1, <3>1
  <2>2. [p EXCEPT !.buffer[s] = Append(@, item)] =
          [templates |-> p.templates, buffer |-> d, log |-> p.log, flows |-> p.flows]
    <3> DEFINE r == [p EXCEPT !.buffer[s] = Append(@, item)]
    <3>1. r = [p EXCEPT !.buffer = d]
      BY DEF Working
    <3> HIDE DEF d, r
    <3>2. r = [templates |-> p.templates, buffer |-> d, log |-> p.log, flows |-> p.flows]
      BY <3>1 DEF Working
    <3> QED BY <3>2 DEF r
  <2> HIDE DEF d
  <2> QED BY <1>1, <2>1, <2>2 DEF Working
<1> QED BY <1>3, <1>4 DEF WithOrphan, fl

\* All of the buffer is gone through.
LEMMA DrainIs ==
  ASSUME NEW q \in Working, NEW s \in Sources, NEW tid \in Tids,
         \A a, b \in 1..Len(q.buffer[s]) : a < b => q.buffer[s][a].i < q.buffer[s][b].i
  PROVE  Drained(Drain(q, s, tid), q, s, tid, Len(q.buffer[s]))
<1> DEFINE bf == q.buffer[s]
           n == Len(bf)
           S == DOMAIN bf
           base == [q EXCEPT !.buffer[s] = <<>>]
           P(f) == f = [T \in SUBSET S |->
                          IF T = {} THEN base
                          ELSE WithOrphan(f[T \ {Max(T)}], s, tid, bf[Max(T)])]
           g == [p \in Working \X Items |-> WithOrphan(p[1], s, tid, p[2])]
<1>1. bf \in Seq(Items) /\ n \in Nat /\ S = 1..n /\ bf \in [1..n -> Items]
  <2>1. bf \in Seq(Items)
    BY DEF Working
  <2> HIDE DEF bf
  <2> QED BY <2>1
<1>2. Drain(q, s, tid) = (CHOOSE f : P(f))[S]
  BY DEF Drain, FoldLeft, MapThenFoldSet
<1>3. Drained(base, q, s, tid, 0)
  <2>1. /\ q.templates \in [Keys -> KeptTemplates] /\ q.buffer \in [Sources -> Seq(Items)]
        /\ q.log \in Seq(Entries) /\ q.flows \in Seq(Nat \X Nat)
        /\ q = [templates |-> q.templates, buffer |-> q.buffer, log |-> q.log, flows |-> q.flows]
    BY DEF Working
  <2> DEFINE d == [q.buffer EXCEPT ![s] = <<>>]
  <2>2. d \in [Sources -> Seq(Items)] /\ d[s] = <<>> /\ \A t \in Sources : t # s => d[t] = q.buffer[t]
    BY <2>1
  <2>3. base = [templates |-> q.templates, buffer |-> d, log |-> q.log, flows |-> q.flows]
    <3> DEFINE r == [q EXCEPT !.buffer[s] = <<>>]
    <3>1. r = [q EXCEPT !.buffer = d]
      BY DEF Working
    <3> HIDE DEF d, r
    <3>2. r = [templates |-> q.templates, buffer |-> d, log |-> q.log, flows |-> q.flows]
      BY <3>1 DEF Working
    <3> QED BY <3>2 DEF r
  <2> HIDE DEF d, base, bf
  <2>4. /\ base.templates = q.templates /\ base.log = q.log /\ base.flows = q.flows
        /\ base.buffer[s] = <<>> /\ \A t \in Sources : t # s => base.buffer[t] = q.buffer[t]
    BY <2>2, <2>3
  <2>5. base \in Working
    BY <2>1, <2>2, <2>3 DEF Working
  <2>6. ToSet(<<>>) = {} /\ Len(<<>>) = 0 /\ 1..0 = {}
    BY DEF ToSet
  <2>7. Len(base.buffer[s]) = 0 /\ ToSet(base.buffer[s]) = {}
    BY <2>4, <2>6
  <2> QED BY <2>4, <2>5, <2>6, <2>7 DEF Drained
<1>4. base \in Working
  BY <1>3 DEF Drained
<1> HIDE DEF base
<1>5. g \in [Working \X Items -> Working]
  BY WithOrphanType
<1>6. \E f : P(f)
  <2>1. PICK f \in [SUBSET (1..n) -> Working] : Folds(f, 1..n, base, bf, g)
    <3> HIDE DEF g, n, bf
    <3> QED BY <1>1, <1>4, <1>5, FoldExists
  <2>2. ASSUME NEW T \in SUBSET S
        PROVE  f[T] = IF T = {} THEN base
                      ELSE WithOrphan(f[T \ {Max(T)}], s, tid, bf[Max(T)])
    <3>1. CASE T = {}
      BY <1>1, <2>1, <3>1 DEF Folds
    <3>2. CASE T # {}
      <4> DEFINE x == Max(T)
                 p == f[T \ {x}]
      <4>1. f[T] = g[<<p, bf[x]>>]
        <5> HIDE DEF g, n, S, bf
        <5> QED BY <1>1, <2>1, <3>2 DEF Folds
      <4>2. x \in T
        <5>1. T \subseteq Int /\ IsFiniteSet(1..n)
          <6>1. 1 \in Int /\ n \in Int
            BY <1>1
          <6> HIDE DEF n, bf
          <6> QED BY <1>1, <6>1, FS_Interval
        <5>2. IsFiniteSet(T)
          <6> HIDE DEF n, S, bf
          <6> QED BY <1>1, <5>1, FS_Subset
        <5> QED BY <3>2, <5>1, <5>2, MaxIs
      <4> HIDE DEF x
      <4>3. bf[x] \in Items /\ p \in Working
        <5> HIDE DEF bf, n
        <5>1. x \in 1..n /\ T \ {x} \in SUBSET (1..n)
          BY <1>1, <4>2
        <5> HIDE DEF S
        <5> QED BY <1>1, <2>1, <5>1
      <4> HIDE DEF p, bf
      <4>4. g[<<p, bf[x]>>] = WithOrphan(p, s, tid, bf[x])
        BY <4>3
      <4>5. f[T] = WithOrphan(p, s, tid, bf[x])
        BY <4>1, <4>4
      <4> QED BY <3>2, <4>5 DEF p, x
    <3> QED BY <3>1, <3>2
  <2> HIDE DEF S, g, n, bf
  <2> DEFINE R(T) == IF T = {} THEN base ELSE WithOrphan(f[T \ {Max(T)}], s, tid, bf[Max(T)])
  <2>3. \A T \in SUBSET S : f[T] = R(T)
    BY <2>2
  <2>4. f = [T \in SUBSET S |-> f[T]]
    BY <1>1, <2>1
  <2>5. f = [T \in SUBSET S |-> R(T)]
    BY <2>3, <2>4, Zenon
  <2>6. P(f)
    BY <2>5
  <2> HIDE DEF P
  <2> QED BY <2>6
<1> DEFINE f == CHOOSE h : P(h)
<1>7. P(f)
  <2> HIDE DEF P
  <2> QED BY <1>6
<1>8. Drain(q, s, tid) = f[S]
  BY <1>2
<1> HIDE DEF f
<1>9. f[{}] = base
  BY <1>7
<1> DEFINE Z == {z \in Nat \X Working : Drained(z[2], q, s, tid, z[1])}
<1>10. <<0, f[{}]>> \in Z
  BY <1>3, <1>4, <1>9
<1>11. ASSUME NEW i \in 0..(n - 1), <<i, f[1..i]>> \in Z
       PROVE  <<i + 1, f[1..(i + 1)]>> \in Z
  <2>1. i \in Nat /\ i + 1 \in 1..n /\ 1..(i + 1) \in SUBSET (1..n)
    <3>1. n \in Nat
      BY <1>1
    <3> HIDE DEF n
    <3> QED BY <3>1
  <2>2. f[1..(i + 1)] = WithOrphan(f[1..i], s, tid, bf[i + 1])
    <3>1. f[1..(i + 1)] = WithOrphan(f[1..(i + 1) \ {Max(1..(i + 1))}], s, tid,
                                     bf[Max(1..(i + 1))])
      <4>1. 1..(i + 1) # {}
        BY <2>1, UpTo
      <4> HIDE DEF bf, n
      <4> QED BY <1>1, <1>7, <2>1, <4>1
    <3>2. Max(1..(i + 1)) = i + 1 /\ 1..(i + 1) \ {i + 1} = 1..i
      BY <2>1, UpTo
    <3> QED BY <3>1, <3>2
  <2>3. f[1..i] \in Working /\ Drained(f[1..i], q, s, tid, i)
    BY <1>11
  <2>4. bf[i + 1] \in Items
    <3> HIDE DEF bf, n
    <3> QED BY <1>1, <2>1
  <2>5. f[1..(i + 1)] \in Working
    BY <2>2, <2>3, <2>4, WithOrphanType
  <2>6. Drained(f[1..(i + 1)], q, s, tid, i + 1)
    <3> DEFINE p == f[1..i]
    <3>1. i \in 0..(Len(q.buffer[s]) - 1)
      OBVIOUS
    <3> HIDE DEF p, P, Z
    <3>2. Drained(WithOrphan(p, s, tid, q.buffer[s][i + 1]), q, s, tid, i + 1)
      BY <2>3, <3>1, OrphanStep DEF p
    <3> QED BY <2>2, <3>2 DEF p
  <2> QED BY <2>1, <2>5, <2>6
<1>12. <<n, f[1..n]>> \in Z
  <2> HIDE DEF Z, n, P
  <2> QED BY <1>1, <1>10, <1>11, FoldReaches
<1>13. Drained(f[1..n], q, s, tid, n)
  BY <1>12
<1> QED BY <1>1, <1>8, <1>13

\* Templates stay what they were, or are replaced by the one that comes.
Replaced(new, tm, lg, e) ==
  \A s \in Sources, tid \in Tids :
    new[<<s, tid>>] = IF New(lg, e, s, tid) = {} THEN tm[<<s, tid>>]
                      ELSE [layout |-> e.set.layout, at |-> e.at]

LEMMA FollowsStays ==
  ASSUME NEW lg \in Seq(Entries), NEW e \in Entries, NEW r, r = Append(lg, e),
         NEW tm, NEW new, NEW t, Replaced(new, tm, lg, e), Follows(tm, lg, t)
  PROVE  Follows(new, r, t)
<1> SUFFICES ASSUME NEW s \in Sources, NEW tid \in Tids
             PROVE  LET T == TemplatesOf(r, s, tid)
                    IN  \/ /\ new[<<s, tid>>].layout = "none"
                           /\ T = {} \/ t - r[Max(T)].at > TemplateTtl
                        \/ /\ T # {}
                           /\ new[<<s, tid>>] = [layout |-> r[Max(T)].set.layout,
                                                 at |-> r[Max(T)].at]
  BY DEF Follows
<1> DEFINE T == TemplatesOf(lg, s, tid)
           U == TemplatesOf(r, s, tid)
           k == <<s, tid>>
<1>1. U = T \cup New(lg, e, s, tid)
  BY TemplatesGrow, SMTT(60)
<1>2. /\ r[Len(lg) + 1] = e /\ Len(lg) \in Nat /\ \A i \in 1..Len(lg) : r[i] = lg[i]
  BY LogGrows, LenProperties
<1>3. T \subseteq 1..Len(lg) /\ IsFiniteSet(T)
  BY TemplatesAre
<1>4. \/ tm[k].layout = "none" /\ (T = {} \/ t - lg[Max(T)].at > TemplateTtl)
      \/ T # {} /\ tm[k] = [layout |-> lg[Max(T)].set.layout, at |-> lg[Max(T)].at]
  BY DEF Follows
<1>5. new[k] = IF New(lg, e, s, tid) = {} THEN tm[k] ELSE [layout |-> e.set.layout, at |-> e.at]
  BY DEF Replaced
<1> HIDE DEF T, U, k
<1>6. CASE New(lg, e, s, tid) = {}
  <2>1. U = T /\ new[k] = tm[k]
    BY <1>1, <1>5, <1>6
  <2>2. T # {} => r[Max(T)] = lg[Max(T)]
    <3>1. T \subseteq Int
      BY <1>2, <1>3
    <3>2. T # {} => Max(T) \in T
      BY <1>3, <3>1, MaxIs
    <3> QED BY <1>2, <1>3, <3>2
  <2> QED BY <1>4, <2>1, <2>2 DEF U, k
<1>7. CASE New(lg, e, s, tid) # {}
  <2>1. U = T \cup {Len(lg) + 1}
    BY <1>1, <1>7 DEF New
  <2>2. IsFiniteSet(U) /\ U # {} /\ U \subseteq Int /\ Len(lg) + 1 \in U
    <3>1. IsFiniteSet(U)
      BY <1>3, <2>1, FS_AddElement
    <3>2. Len(lg) \in Nat /\ \A j \in 1..Len(lg) : j \in Int
      BY <1>2
    <3>3. \A j \in U : j \in Int
      BY <1>3, <2>1, <3>2
    <3> QED BY <2>1, <3>1, <3>3
  <2>3. Max(U) \in U /\ \A y \in U : Max(U) >= y
    BY <2>2, MaxIs
  <2>4. Max(U) = Len(lg) + 1
    <3> DEFINE m == Max(U)
    <3>1. m \in U /\ m >= Len(lg) + 1
      BY <2>2, <2>3
    <3> HIDE DEF m
    <3>2. m \in 1..Len(lg) \/ m = Len(lg) + 1
      BY <1>3, <2>1, <3>1
    <3>3. m = Len(lg) + 1
      BY <1>2, <3>1, <3>2
    <3> QED BY <3>3 DEF m
  <2>5. new[k] = [layout |-> r[Max(U)].set.layout, at |-> r[Max(U)].at]
    BY <1>2, <1>5, <1>7, <2>4
  <2> QED BY <2>2, <2>5 DEF U, k
<1> QED BY <1>6, <1>7

\* A set that comes is decoded with the template its source sent last.
LEMMA CurrentIs ==
  ASSUME NEW lg \in Seq(Entries), NEW e \in Entries, NEW r, r = Append(lg, e),
         NEW tm, Follows(tm, lg, e.at), Fresh(tm, e.at),
         e.set.is # "template", NEW tid \in Tids, e.set.tid = tid
  PROVE  CurrentIn(r, Len(lg) + 1) = tm[<<e.src, tid>>].layout
<1> DEFINE s == e.src
           T == TemplatesOf(lg, s, tid)
           N == Len(lg)
           k == <<s, tid>>
<1>1. s \in Sources
  BY DEF Entries
<1>2. /\ r[N + 1] = e /\ N \in Nat /\ \A i \in 1..N : r[i] = lg[i]
  BY LogGrows, LenProperties
<1>3. TemplatesOf(r, s, tid) = T
  <2>1. TemplatesOf(r, s, tid) = T \cup New(lg, e, s, tid)
    BY TemplatesGrow, SMTT(60)
  <2>2. New(lg, e, s, tid) = {}
    BY DEF New
  <2> QED BY <2>1, <2>2
<1>4. T \subseteq 1..N /\ IsFiniteSet(T)
      /\ \A j \in T : lg[j] \in Entries /\ lg[j].set.layout \in Layouts
  BY TemplatesAre
<1>5. Before(r, N + 1) = T
  <2>1. TemplatesFrom(r, N + 1) = T
    BY <1>2, <1>3 DEF TemplatesFrom
  <2>2. \A j \in T : j < N + 1
    BY <1>2, <1>4
  <2> QED BY <2>1, <2>2 DEF Before
<1>6. \/ tm[k].layout = "none" /\ (T = {} \/ e.at - lg[Max(T)].at > TemplateTtl)
      \/ T # {} /\ tm[k] = [layout |-> lg[Max(T)].set.layout, at |-> lg[Max(T)].at]
  BY <1>1 DEF Follows
<1>7. tm[k].layout # "none" => e.at - tm[k].at <= TemplateTtl
  BY <1>1 DEF Fresh, Keys
<1>8. T # {} => Max(T) \in T /\ r[Max(T)] = lg[Max(T)]
  <2>1. T \subseteq Int
    BY <1>2, <1>4
  <2>2. T # {} => Max(T) \in T
    <3> HIDE DEF T
    <3> QED BY <1>4, <2>1, MaxIs
  <2> QED BY <1>2, <1>4, <2>2
<1>9. CurrentIn(r, N + 1) = IF T = {} \/ e.at - lg[Max(T)].at > TemplateTtl THEN "none"
                            ELSE lg[Max(T)].set.layout
  <2> HIDE DEF T, N
  <2> QED BY <1>2, <1>5, <1>8 DEF CurrentIn
<1> HIDE DEF T, N, k
<1>10. CASE tm[k].layout = "none" /\ (T = {} \/ e.at - lg[Max(T)].at > TemplateTtl)
  BY <1>9, <1>10 DEF k, N
<1>11. CASE T # {} /\ tm[k] = [layout |-> lg[Max(T)].set.layout, at |-> lg[Max(T)].at]
  <2>1. tm[k].layout = lg[Max(T)].set.layout /\ tm[k].at = lg[Max(T)].at
    BY <1>11
  <2>2. tm[k].layout # "none"
    BY <1>4, <1>8, <1>11, <2>1 DEF Layouts
  <2>3. e.at - lg[Max(T)].at <= TemplateTtl
    BY <1>7, <2>1, <2>2
  <2>4. lg[Max(T)] \in Entries
    BY <1>4, <1>8, <1>11
  <2>5. ~(e.at - lg[Max(T)].at > TemplateTtl)
    <3>1. e.at \in Nat /\ lg[Max(T)].at \in Nat /\ TemplateTtl \in Nat
      BY <2>4, CollectorAssumption DEF Entries
    <3> QED BY <2>3, <3>1
  <2> QED BY <1>9, <1>11, <2>1, <2>5 DEF k, N
<1> QED BY <1>6, <1>10, <1>11

\* What waits goes on waiting, unless its template comes.
LEMMA WaitingStays ==
  ASSUME NEW lg \in Seq(Entries), NEW e \in Entries, NEW r, r = Append(lg, e),
         NEW item, NEW s, Waiting(item, lg, s), New(lg, e, s, item.tid) = {}
  PROVE  Waiting(item, r, s)
<1>1. PICK i \in 1..Len(lg) : i = item.i
  BY DEF Waiting
<1>2. /\ OrphanIn(lg, i) /\ After(lg, i) = {} /\ lg[i].src = s /\ lg[i].at = item.at
      /\ lg[i].set.tid = item.tid /\ lg[i].set.n = item.n
  BY <1>1 DEF Waiting
<1>3. r[i] = lg[i] /\ i \in 1..Len(r)
  BY LogGrows, LenProperties
<1>4. /\ OrphanIn(r, i) <=> OrphanIn(lg, i)
      /\ After(r, i) = After(lg, i) \cup New(lg, e, lg[i].src, lg[i].set.tid)
  BY EarlierStay
<1> QED BY <1>1, <1>2, <1>3, <1>4 DEF Waiting

\* The set that comes, in the log.
Received(p, q, s, set, e) ==
  /\ q \in Working /\ q.templates = p.templates /\ q.buffer = p.buffer /\ q.flows = p.flows
  /\ q.log = Append(p.log, e)
  /\ e \in Entries /\ e.set = set /\ e.src = s /\ e.at = now

\* A template: what waits for it is decoded.
LEMMA TemplateStep ==
  ASSUME NEW dec, NEW p, ParseInv(p, dec, now), NEW s \in Sources, NEW set \in Sets,
         set.is = "template", NEW q, NEW e, Received(p, q, s, set, e)
  PROVE  ParseInv(WithTemplate(q, s, set), dec, now)
<1> DEFINE tid == set.tid
           L == set.layout
           lg == p.log
           N == Len(lg)
           bf == p.buffer[s]
           new == [layout |-> L, at |-> now]
           u == [q EXCEPT !.templates[<<s, tid>>] = new]
           r == Drain(u, s, tid)
<1>1. /\ p \in Working /\ Follows(p.templates, lg, now) /\ Fresh(p.templates, now)
      /\ Waits(p.buffer, lg) /\ Fates(p.buffer, lg, now, dec \cup ToSet(p.flows))
      /\ Known(dec \cup ToSet(p.flows), lg) /\ ToSet(p.flows) \cap dec = {}
  BY DEF ParseInv
<1>2. /\ q \in Working /\ q.templates = p.templates /\ q.buffer = p.buffer /\ q.flows = p.flows
      /\ q.log = Append(lg, e)
      /\ e \in Entries /\ e.set = set /\ e.src = s /\ e.at = now
  BY DEF Received
<1>3. /\ p.templates \in [Keys -> KeptTemplates] /\ p.buffer \in [Sources -> Seq(Items)]
      /\ lg \in Seq(Entries) /\ p.flows \in Seq(Nat \X Nat)
  BY <1>1 DEF Working
<1>4. tid \in Tids /\ L \in Layouts /\ now \in Nat
  <2>1. set.tid \in Tids /\ set.layout \in Layouts
    BY SetIs
  <2> QED BY <1>2, <2>1 DEF Entries
<1>5. bf \in Seq(Items) /\ Len(bf) \in Nat /\ N \in Nat
  <2>1. bf \in Seq(Items)
    BY <1>3
  <2> HIDE DEF bf
  <2> QED BY <1>3, <2>1
<1> HIDE DEF bf, N
<1>6. /\ u \in Working /\ u.buffer = p.buffer /\ u.flows = p.flows /\ u.log = q.log
      /\ u.templates = [p.templates EXCEPT ![<<s, tid>>] = new]
  <2> DEFINE tm == [p.templates EXCEPT ![<<s, tid>>] = new]
  <2>1. tm \in [Keys -> KeptTemplates]
    BY <1>3, <1>4 DEF KeptTemplates
  <2>2. u = [q EXCEPT !.templates = tm]
    BY <1>2 DEF Working
  <2> HIDE DEF tm, u
  <2>3. u = [templates |-> tm, buffer |-> q.buffer, log |-> q.log, flows |-> q.flows]
    BY <1>2, <2>2 DEF Working
  <2>4. q.buffer \in [Sources -> Seq(Items)] /\ q.log \in Seq(Entries)
        /\ q.flows \in Seq(Nat \X Nat)
    BY <1>2 DEF Working
  <2>5. u \in Working
    BY <2>1, <2>3, <2>4 DEF Working
  <2> QED BY <1>2, <2>3, <2>5 DEF tm
<1>7. WithTemplate(q, s, set) = r
  <2>1. u = [q EXCEPT !.templates[<<s, set.tid>>] = [layout |-> set.layout, at |-> now]]
    OBVIOUS
  <2> HIDE DEF u
  <2> QED BY <2>1 DEF WithTemplate
<1> HIDE DEF u
<1>8. Drained(r, u, s, tid, Len(bf))
  <2>1. \A a, b \in 1..Len(bf) : a < b => bf[a].i < bf[b].i
    BY <1>1 DEF Waits, bf
  <2>2. \A a, b \in 1..Len(u.buffer[s]) : a < b => u.buffer[s][a].i < u.buffer[s][b].i
    BY <1>6, <2>1 DEF bf
  <2>3. Drained(Drain(u, s, tid), u, s, tid, Len(u.buffer[s]))
    <3> HIDE DEF tid
    <3> QED BY <1>4, <1>6, <2>2, DrainIs
  <2> QED BY <1>6, <2>3 DEF bf
<1> HIDE DEF r
<1>9. u.templates[<<s, tid>>].layout = L
  <2>1. <<s, tid>> \in Keys
    BY <1>4 DEF Keys
  <2> QED BY <1>3, <1>6, <2>1
<1> DEFINE Takes(j, x) == /\ Young(bf[j]) /\ bf[j].tid = tid /\ Usable(L)
                          /\ x \in ToSet(FlowsOf(s, L, bf[j].i, bf[j].n))
<1>10. /\ r \in Working /\ r.templates = u.templates /\ r.log = q.log
       /\ \A t \in Sources : t # s => r.buffer[t] = p.buffer[t]
       /\ Len(r.buffer[s]) <= Len(bf)
       /\ \A x : x \in ToSet(r.buffer[s]) <=>
            \E j \in 1..Len(bf) : x = bf[j] /\ Young(x) /\ x.tid # tid
       /\ \A a, b \in 1..Len(r.buffer[s]) : a < b => r.buffer[s][a].i < r.buffer[s][b].i
       /\ \A x : x \in ToSet(r.flows) <=>
            x \in ToSet(p.flows) \/ \E j \in 1..Len(bf) : Takes(j, x)
  BY <1>6, <1>8, <1>9 DEF Drained, bf
<1> HIDE DEF Takes
<1> DEFINE lr == Append(lg, e)
<1>11. r.log = lr /\ lr \in Seq(Entries) /\ lr[N + 1] = e /\ Len(lr) = N + 1
       /\ \A i \in 1..N : lr[i] = lg[i]
  BY <1>2, <1>3, <1>10, LogGrows DEF N
<1> DEFINE Lr == lr
<1>12. Lr = Append(lg, e)
  OBVIOUS
<1> HIDE DEF Lr
<1>13. r.log = Lr /\ Lr \in Seq(Entries) /\ Lr[N + 1] = e /\ Len(Lr) = N + 1
       /\ \A i \in 1..N : Lr[i] = lg[i]
  BY <1>11 DEF Lr
<1> HIDE DEF lr
<1>14. \A j \in 1..Len(bf) : Waiting(bf[j], lg, s) /\ bf[j] \in Items
  BY <1>1, <1>5 DEF Waits, bf
<1>15. Follows(r.templates, Lr, now)
  <2>1. ASSUME NEW s2 \in Sources, NEW tid2 \in Tids
        PROVE  r.templates[<<s2, tid2>>] =
                 IF New(lg, e, s2, tid2) = {} THEN p.templates[<<s2, tid2>>]
                 ELSE [layout |-> e.set.layout, at |-> e.at]
    <3>1. New(lg, e, s2, tid2) = {} <=> ~(s2 = s /\ tid2 = tid)
      BY <1>2 DEF New
    <3>2. <<s2, tid2>> \in Keys /\ <<s, tid>> \in Keys
      BY <1>4 DEF Keys
    <3>3. r.templates[<<s2, tid2>>] = IF s2 = s /\ tid2 = tid THEN new
                                      ELSE p.templates[<<s2, tid2>>]
      <4>1. r.templates = [p.templates EXCEPT ![<<s, tid>>] = new]
        BY <1>6, <1>10
      <4>2. <<s2, tid2>> = <<s, tid>> <=> s2 = s /\ tid2 = tid
        OBVIOUS
      <4> HIDE DEF new, tid
      <4> QED BY <1>3, <3>2, <4>1, <4>2
    <3> QED BY <1>2, <3>1, <3>3
  <2>2. Follows(p.templates, lg, now) /\ lg \in Seq(Entries) /\ e \in Entries
    BY <1>1, <1>2, <1>3
  <2>3. Replaced(r.templates, p.templates, lg, e)
    BY <2>1 DEF Replaced
  <2> HIDE DEF lg, new, tid
  <2> QED BY <1>12, <2>2, <2>3, FollowsStays
<1>16. Fresh(r.templates, now)
  <2> SUFFICES ASSUME NEW k \in Keys, r.templates[k].layout # "none"
               PROVE  now - r.templates[k].at <= TemplateTtl
    BY DEF Fresh
  <2>1. r.templates = [p.templates EXCEPT ![<<s, tid>>] = new]
    BY <1>6, <1>10
  <2>2. CASE k = <<s, tid>>
    <3>1. r.templates[k].at = now
      BY <1>3, <2>1, <2>2
    <3> QED BY <1>4, <3>1, CollectorAssumption
  <2>3. CASE k # <<s, tid>>
    <3>1. r.templates[k] = p.templates[k]
      BY <1>3, <2>1, <2>3
    <3> QED BY <1>1, <3>1 DEF Fresh
  <2> QED BY <2>2, <2>3
<1>17. Waits(r.buffer, Lr)
  <2> SUFFICES ASSUME NEW s2 \in Sources
               PROVE  /\ Len(r.buffer[s2]) <= Orphans
                      /\ \A a \in 1..Len(r.buffer[s2]) : Waiting(r.buffer[s2][a], Lr, s2)
                      /\ \A a, b \in 1..Len(r.buffer[s2]) :
                           a < b => r.buffer[s2][a].i < r.buffer[s2][b].i
    BY DEF Waits
  <2>1. /\ Len(p.buffer[s2]) <= Orphans
        /\ \A a \in 1..Len(p.buffer[s2]) : Waiting(p.buffer[s2][a], lg, s2)
        /\ \A a, b \in 1..Len(p.buffer[s2]) : a < b => p.buffer[s2][a].i < p.buffer[s2][b].i
    BY <1>1 DEF Waits
  <2>2. CASE s2 # s
    <3>1. r.buffer[s2] = p.buffer[s2]
      BY <1>10, <2>2
    <3>2. \A a \in 1..Len(p.buffer[s2]) : Waiting(p.buffer[s2][a], Lr, s2)
      <4> SUFFICES ASSUME NEW a \in 1..Len(p.buffer[s2]) PROVE Waiting(p.buffer[s2][a], Lr, s2)
        OBVIOUS
      <4>1. New(lg, e, s2, p.buffer[s2][a].tid) = {}
        BY <1>2, <2>2 DEF New
      <4> QED BY <1>2, <1>3, <1>12, <2>1, <4>1, WaitingStays
    <3> QED BY <2>1, <3>1, <3>2
  <2>3. CASE s2 = s
    <3>1. r.buffer[s] \in Seq(Items) /\ Len(r.buffer[s]) \in Nat
      <4>1. r.buffer[s] \in Seq(Items)
        BY <1>10 DEF Working
      <4> QED BY <4>1
    <3>2. ASSUME NEW a \in 1..Len(r.buffer[s]) PROVE Waiting(r.buffer[s][a], Lr, s)
      <4>1. r.buffer[s][a] \in ToSet(r.buffer[s])
        BY <3>1 DEF ToSet
      <4>2. PICK j \in 1..Len(bf) : r.buffer[s][a] = bf[j] /\ bf[j].tid # tid
        BY <1>10, <4>1
      <4>3. New(lg, e, s, bf[j].tid) = {}
        BY <1>2, <4>2 DEF New
      <4>4. Waiting(bf[j], Lr, s)
        BY <1>2, <1>3, <1>12, <1>14, <4>3, WaitingStays
      <4> QED BY <4>2, <4>4
    <3>3. Len(r.buffer[s]) <= Orphans
      <4>1. Len(bf) <= Orphans /\ Len(r.buffer[s]) <= Len(bf)
        BY <1>10, <2>1, <2>3 DEF bf
      <4> QED BY <1>5, <3>1, <4>1, CollectorAssumption
    <3> QED BY <1>10, <2>3, <3>2, <3>3
  <2> QED BY <2>2, <2>3
<1>18. ASSUME NEW j \in 1..Len(bf), NEW x, Takes(j, x)
       PROVE  /\ x \in Nat \X Nat /\ x[1] = bf[j].i /\ x[1] \in 1..N
              /\ RescuerIn(Lr, x[1]) = {N + 1} /\ x \notin dec
  <2>1. PICK i \in 1..N : i = bf[j].i
    BY <1>14 DEF Waiting, N
  <2>2. /\ OrphanIn(lg, i) /\ After(lg, i) = {} /\ lg[i].src = s /\ lg[i].at = bf[j].at
        /\ lg[i].set.tid = bf[j].tid
    BY <1>14, <2>1 DEF Waiting
  <2>3. x \in Nat \X Nat /\ x[1] = i
    <3>1. bf[j].i \in Nat /\ bf[j].n \in Nat
      BY <1>14 DEF Items
    <3> QED BY <1>18, <2>1, <3>1, FlowsAre DEF Takes
  <2>4. bf[j].tid = tid /\ Usable(L) /\ now - bf[j].at <= OrphanTtl
    BY <1>18 DEF Takes, Young
  <2>5. RescuerIn(Lr, i) = {N + 1}
    <3>1. L # "empty"
      BY <2>4 DEF Usable
    <3>2. ~(e.at - lg[i].at > OrphanTtl)
      <4>1. now \in Nat /\ bf[j].at \in Nat /\ OrphanTtl \in Nat
        BY <1>4, <1>14, CollectorAssumption DEF Items
      <4> QED BY <1>2, <2>2, <2>4, <4>1
    <3>3. e.set.is = "template" /\ e.src = lg[i].src /\ e.set.tid = lg[i].set.tid
      BY <1>2, <2>2, <2>4
    <3>4. RescuerIn(Lr, i) = IF e.at - lg[i].at > OrphanTtl \/ e.set.layout = "empty"
                             THEN {} ELSE {Len(lg) + 1}
      BY <1>2, <1>3, <1>12, <2>2, <3>3, RescuerGrows DEF N
    <3> QED BY <1>2, <3>1, <3>2, <3>4 DEF N
  <2>6. x \notin dec
    <3>1. RescuerIn(lg, i) = {}
      BY <2>2 DEF RescuerIn
    <3> QED BY <1>1, <2>2, <2>3, <3>1 DEF Known
  <2> QED BY <2>1, <2>3, <2>5, <2>6
<1>19. ToSet(r.flows) \cap dec = {}
  BY <1>1, <1>10, <1>18
<1>20. Known(dec \cup ToSet(r.flows), Lr)
  <2>1. Known(dec \cup ToSet(p.flows), Lr)
    <3>1. lg \in Seq(Entries) /\ e \in Entries /\ Lr = Append(lg, e)
      BY <1>2, <1>3, <1>12
    <3>2. Known(dec \cup ToSet(p.flows), lg)
      BY <1>1
    <3> QED BY ONLY <3>1, <3>2, KnownStays
  <2>2. ASSUME NEW x \in dec \cup ToSet(r.flows), x \notin dec \cup ToSet(p.flows)
        PROVE  /\ x \in Nat \X Nat /\ x[1] \in 1..Len(Lr)
               /\ OrphanIn(Lr, x[1]) => RescuerIn(Lr, x[1]) # {}
    <3>1. PICK j \in 1..Len(bf) : Takes(j, x)
      BY <1>10, <2>2
    <3>2. x \in Nat \X Nat /\ x[1] \in 1..N /\ RescuerIn(Lr, x[1]) = {N + 1}
      BY <1>18, <3>1
    <3>3. 1..N \subseteq 1..Len(Lr)
      BY <1>5, <1>13
    <3> QED BY <3>2, <3>3
  <2> QED BY <2>1, <2>2 DEF Known
<1>21. Fates(r.buffer, Lr, now, dec \cup ToSet(r.flows))
  <2> DEFINE D == dec \cup ToSet(p.flows)
             E == dec \cup ToSet(r.flows)
  <2>1. D \subseteq E
    BY <1>10
  <2>2. Fates(p.buffer, lg, now, D)
    BY <1>1
  <2> SUFFICES ASSUME NEW i \in 1..Len(Lr), Lr[i].set.is = "data"
        PROVE  /\ Usable(CurrentIn(Lr, i)) => WholeIn(Lr, E, i, CurrentIn(Lr, i))
               /\ OrphanIn(Lr, i) /\ After(Lr, i) = {} => Pending(r.buffer, Lr, now, i)
               /\ OrphanIn(Lr, i) => \A k \in RescuerIn(Lr, i) :
                    Cardinality(RivalsIn(Lr, i, k)) < Orphans => WholeIn(Lr, E, i, Lr[k].set.layout)
    BY DEF Fates
  <2> HIDE DEF D, E
  <2>3. i \in 1..N /\ i \in 1..Len(lg)
    <3>1. i # N + 1
      BY <1>2, <1>13
    <3> QED BY <1>5, <1>13, <3>1 DEF N
  <2>4. lg[i].set.is = "data" /\ Lr[i] = lg[i]
    BY <1>13, <2>3
  <2>5. /\ Usable(CurrentIn(Lr, i)) => WholeIn(Lr, E, i, CurrentIn(Lr, i))
        /\ OrphanIn(Lr, i) /\ After(Lr, i) = {} => Pending(p.buffer, lg, now, i)
        /\ OrphanIn(Lr, i) /\ (After(lg, i) # {} \/ After(Lr, i) = {}) => \A k \in RescuerIn(Lr, i) :
             Cardinality(RivalsIn(Lr, i, k)) < Orphans => WholeIn(Lr, E, i, Lr[k].set.layout)
    BY <1>2, <1>3, <1>12, <2>1, <2>2, <2>3, <2>4, FatesStay
  <2>6. /\ OrphanIn(Lr, i) <=> OrphanIn(lg, i)
        /\ After(Lr, i) = After(lg, i) \cup New(lg, e, lg[i].src, lg[i].set.tid)
    <3>1. lg \in Seq(Entries) /\ e \in Entries
      BY <1>2, <1>3
    <3> HIDE DEF lg, new, tid
    <3> QED BY <1>12, <2>3, <3>1, EarlierStay
  <2>7. RivalsIn(Lr, i, N + 1) = RivalsIn(lg, i, N + 1)
    <3>1. Len(lg) + 1 \in 1..(Len(lg) + 1)
      BY <1>5 DEF N
    <3>2. RivalsIn(Lr, i, Len(lg) + 1) = RivalsIn(lg, i, Len(lg) + 1)
      BY <1>2, <1>3, <1>12, <2>3, <3>1, RivalsStay
    <3> QED BY <3>2 DEF N
  <2>8. ASSUME OrphanIn(Lr, i), After(Lr, i) = {}
        PROVE  Pending(r.buffer, Lr, now, i)
    <3>1. CASE \E a \in 1..Len(p.buffer[lg[i].src]) : p.buffer[lg[i].src][a].i = i
      <4>1. CASE lg[i].src # s
        <5>1. r.buffer[lg[i].src] = p.buffer[lg[i].src]
          <6>1. lg[i].src \in Sources
            <7>1. lg[i] \in Entries
              BY <1>3, <2>3
            <7> QED BY <7>1 DEF Entries
          <6> QED BY <1>10, <4>1, <6>1
        <5> QED BY <2>4, <3>1, <5>1 DEF Pending
      <4>2. CASE lg[i].src = s
        <5>1. PICK a \in 1..Len(bf) : bf[a].i = i
          BY <3>1, <4>2 DEF bf
        <5>2. lg[i].at = bf[a].at /\ lg[i].set.tid = bf[a].tid
          BY <1>14, <5>1 DEF Waiting
        <5>3. bf[a].tid # tid
          BY <1>2, <2>6, <2>8, <4>2, <5>2 DEF New
        <5>4. CASE Young(bf[a])
          <6>1. bf[a] \in ToSet(r.buffer[s])
            BY <1>10, <5>3, <5>4
          <6>2. r.buffer[s] \in Seq(Items)
            BY <1>10 DEF Working
          <6>3. PICK b \in 1..Len(r.buffer[s]) : r.buffer[s][b] = bf[a]
            BY <6>1, <6>2 DEF ToSet
          <6> QED BY <2>4, <4>2, <5>1, <6>3 DEF Pending
        <5>5. CASE ~Young(bf[a])
          <6>1. now \in Nat /\ bf[a].at \in Nat /\ OrphanTtl \in Nat
            BY <1>4, <1>14, CollectorAssumption DEF Items
          <6>2. now - Lr[i].at > OrphanTtl
            BY <2>4, <5>2, <5>5, <6>1 DEF Young
          <6> QED BY <6>2 DEF Pending
        <5> QED BY <5>4, <5>5
      <4> QED BY <4>1, <4>2
    <3>2. CASE Cardinality(RivalsIn(lg, i, Len(lg) + 1)) >= Orphans
      <4>1. RivalsIn(Lr, i, Len(Lr) + 1) = RivalsIn(lg, i, Len(lg) + 1)
        <5>1. ~OrphanIn(Lr, N + 1)
          BY <1>2, <1>13 DEF OrphanIn
        <5>2. RivalsIn(Lr, i, N + 2) = RivalsIn(Lr, i, N + 1)
          <6>1. N \in Nat /\ i \in Nat /\ i <= N
            BY <1>5, <2>3
          <6>2. \A j \in i + 1..(N + 2) - 1 : j \in i + 1..(N + 1) - 1 \/ j = N + 1
            BY <6>1
          <6>3. \A j \in i + 1..(N + 1) - 1 : j \in i + 1..(N + 2) - 1
            BY <6>1
          <6> QED BY <5>1, <6>2, <6>3 DEF RivalsIn
        <5>3. Len(Lr) + 1 = N + 2
          BY <1>5, <1>13
        <5> QED BY <2>7, <5>2, <5>3 DEF N
      <4> QED BY <3>2, <4>1 DEF Pending
    <3>3. CASE now - lg[i].at > OrphanTtl
      BY <2>4, <3>3 DEF Pending
    <3> QED BY <2>5, <2>8, <3>1, <3>2, <3>3 DEF Pending
  <2>9. ASSUME OrphanIn(Lr, i), After(lg, i) = {}, After(Lr, i) # {}, NEW k \in RescuerIn(Lr, i),
               Cardinality(RivalsIn(Lr, i, k)) < Orphans
        PROVE  WholeIn(Lr, E, i, Lr[k].set.layout)
    <3>1. e.set.is = "template" /\ e.src = lg[i].src /\ e.set.tid = lg[i].set.tid
      BY <2>6, <2>9 DEF New
    <3>2. k = N + 1 /\ ~(e.at - lg[i].at > OrphanTtl) /\ L # "empty"
      <4>1. RescuerIn(Lr, i) = IF e.at - lg[i].at > OrphanTtl \/ e.set.layout = "empty"
                               THEN {} ELSE {Len(lg) + 1}
        BY <1>2, <1>3, <1>12, <2>3, <2>9, <3>1, RescuerGrows
      <4> QED BY <1>2, <2>9, <4>1 DEF N
    <3>3. Pending(p.buffer, lg, now, i)
      BY <2>2, <2>3, <2>4, <2>6, <2>9 DEF Fates
    <3>4. ~(Cardinality(RivalsIn(lg, i, Len(lg) + 1)) >= Orphans)
      <4>1. RivalsIn(Lr, i, k) = RivalsIn(lg, i, Len(lg) + 1)
        BY <2>7, <3>2 DEF N
      <4>2. Cardinality(RivalsIn(Lr, i, k)) \in Nat /\ Orphans \in Nat
        <5>1. RivalsIn(Lr, i, k) \subseteq i + 1..k - 1
          BY DEF RivalsIn
        <5>2. i + 1 \in Int /\ k - 1 \in Int
          BY <1>5, <2>3, <3>2
        <5>3. IsFiniteSet(RivalsIn(Lr, i, k))
          BY <5>1, <5>2, FS_Interval, FS_Subset
        <5> QED BY <5>3, FS_CardinalityType, CollectorAssumption
      <4> QED BY <2>9, <4>1, <4>2
    <3>5. \E a \in 1..Len(p.buffer[lg[i].src]) : p.buffer[lg[i].src][a].i = i
      BY <1>2, <3>2, <3>3, <3>4 DEF Pending
    <3>6. PICK a \in 1..Len(bf) : bf[a].i = i
      BY <1>2, <3>1, <3>5 DEF bf
    <3>7. lg[i].at = bf[a].at /\ lg[i].set.tid = bf[a].tid /\ lg[i].set.n = bf[a].n
      BY <1>14, <3>6 DEF Waiting
    <3>8. Young(bf[a]) /\ bf[a].tid = tid /\ Usable(L)
      <4>1. now \in Nat /\ bf[a].at \in Nat /\ OrphanTtl \in Nat
        BY <1>4, <1>14, CollectorAssumption DEF Items
      <4>2. now - bf[a].at <= OrphanTtl
        BY <1>2, <3>2, <3>7, <4>1
      <4> QED BY <1>2, <1>4, <3>1, <3>2, <3>7, <4>2 DEF Young, Usable, Layouts
    <3>9. \A x \in ToSet(FlowsOf(s, L, i, lg[i].set.n)) : x \in E
      <4> SUFFICES ASSUME NEW x \in ToSet(FlowsOf(s, L, i, lg[i].set.n)) PROVE x \in E
        OBVIOUS
      <4>1. Takes(a, x)
        BY <3>6, <3>7, <3>8 DEF Takes
      <4> QED BY <1>10, <4>1 DEF E
    <3>10. Lr[k].set.layout = L /\ Lr[i].src = s
      BY <1>2, <1>13, <2>4, <3>1, <3>2
    <3> QED BY <2>4, <3>9, <3>10 DEF WholeIn
  <2> QED BY <2>5, <2>8, <2>9
<1>22. ParseInv(r, dec, now)
  BY <1>10, <1>13, <1>15, <1>16, <1>17, <1>19, <1>20, <1>21 DEF ParseInv
<1> QED BY <1>7, <1>22

\* Orphans only get more rivals.
LEMMA RivalsGrow ==
  ASSUME NEW lg \in Seq(Entries), NEW e \in Entries, NEW r, r = Append(lg, e),
         NEW i \in 1..Len(lg)
  PROVE  /\ IsFiniteSet(RivalsIn(r, i, Len(r) + 1))
         /\ Cardinality(RivalsIn(lg, i, Len(lg) + 1)) >= Orphans =>
              Cardinality(RivalsIn(r, i, Len(r) + 1)) >= Orphans
<1> DEFINE A == RivalsIn(r, i, Len(lg) + 1)
           B == RivalsIn(r, i, Len(r) + 1)
<1>1. Len(lg) \in Nat /\ Len(r) = Len(lg) + 1
  BY LogGrows, LenProperties
<1>2. Len(lg) + 1 \in 1..(Len(lg) + 1)
  BY <1>1
<1>3. A = RivalsIn(lg, i, Len(lg) + 1)
  BY <1>2, RivalsStay
<1>4. \A j \in i + 1..(Len(lg) + 1) - 1 : j \in i + 1..(Len(r) + 1) - 1
  BY <1>1
<1>5. A \in SUBSET B
  BY <1>4 DEF RivalsIn
<1>6. IsFiniteSet(B)
  <2>1. B \in SUBSET (i + 1..(Len(r) + 1) - 1)
    BY DEF RivalsIn
  <2>2. i + 1 \in Int /\ (Len(r) + 1) - 1 \in Int
    BY <1>1
  <2> HIDE DEF B
  <2> QED BY <2>1, <2>2, FS_Interval, FS_Subset
<1> HIDE DEF A, B
<1>7. IsFiniteSet(A) /\ Cardinality(A) <= Cardinality(B)
  BY <1>5, <1>6, FS_Subset
<1>8. Cardinality(A) \in Nat /\ Cardinality(B) \in Nat /\ Orphans \in Nat
  BY <1>6, <1>7, FS_CardinalityType, CollectorAssumption
<1>9. Cardinality(A) >= Orphans => Cardinality(B) >= Orphans
  BY <1>7, <1>8
<1> QED BY <1>3, <1>6, <1>9 DEF B

\* A set that is no template: what waited goes on waiting, and all else is as it was.
LEMMA PlainStep ==
  ASSUME NEW dec, NEW p, ParseInv(p, dec, now), NEW s \in Sources, NEW set \in Sets,
         set.is # "template", NEW q, NEW e, Received(p, q, s, set, e),
         NEW r \in Working, r.templates = p.templates, r.log = q.log, Waits(r.buffer, q.log),
         \A i \in 1..Len(p.log) :
           Pending(p.buffer, p.log, now, i) => Pending(r.buffer, q.log, now, i),
         \A x \in ToSet(p.flows) : x \in ToSet(r.flows),
         \A x \in ToSet(r.flows) :
           \/ x \in ToSet(p.flows)
           \/ /\ x \in Nat \X Nat /\ x[1] = Len(p.log) + 1
              /\ ~OrphanIn(q.log, Len(p.log) + 1),
         set.is = "data" =>
           LET i == Len(p.log) + 1
           IN  /\ Usable(CurrentIn(q.log, i)) =>
                    WholeIn(q.log, ToSet(r.flows), i, CurrentIn(q.log, i))
               /\ OrphanIn(q.log, i) => Pending(r.buffer, q.log, now, i)
  PROVE  ParseInv(r, dec, now)
<1> DEFINE lg == p.log
           N == Len(lg)
           Lr == q.log
           D == dec \cup ToSet(p.flows)
           E == dec \cup ToSet(r.flows)
<1>1. /\ p \in Working /\ Follows(p.templates, lg, now) /\ Fresh(p.templates, now)
      /\ Fates(p.buffer, lg, now, D) /\ Known(D, lg) /\ ToSet(p.flows) \cap dec = {}
  BY DEF ParseInv
<1>2. Lr = Append(lg, e) /\ e \in Entries /\ e.set = set /\ e.src = s /\ e.at = now
  BY DEF Received
<1>3. lg \in Seq(Entries) /\ N \in Nat
  <2>1. lg \in Seq(Entries)
    BY <1>1 DEF Working
  <2> HIDE DEF lg
  <2> QED BY <2>1
<1> HIDE DEF Lr, N
<1>4. /\ Lr \in Seq(Entries) /\ Lr[N + 1] = e /\ Len(Lr) = N + 1
      /\ \A i \in 1..N : Lr[i] = lg[i]
  BY <1>2, <1>3, LogGrows DEF N
<1>5. \A s2, tid : New(lg, e, s2, tid) = {}
  BY <1>2 DEF New
<1>6. Follows(r.templates, Lr, now)
  <2>1. Replaced(r.templates, p.templates, lg, e)
    BY <1>5 DEF Replaced
  <2> HIDE DEF lg
  <2> QED BY <1>1, <1>2, <1>3, <2>1, FollowsStays
<1>7. D \subseteq E
  OBVIOUS
<1>8. \A x \in ToSet(r.flows) : x \notin ToSet(p.flows) =>
        x \in Nat \X Nat /\ x[1] = N + 1 /\ ~OrphanIn(Lr, N + 1)
  BY DEF N, Lr
<1>9. ToSet(r.flows) \cap dec = {}
  <2>1. ASSUME NEW x \in ToSet(r.flows), x \in dec PROVE FALSE
    <3>1. x \notin ToSet(p.flows)
      BY <1>1, <2>1
    <3>2. x[1] = N + 1
      BY <1>8, <3>1
    <3>3. x[1] \in 1..N
      BY <1>1, <2>1 DEF Known, N
    <3> QED BY <1>3, <3>2, <3>3
  <2> QED BY <2>1
<1>10. Known(E, Lr)
  <2>1. Known(D, Lr)
    <3> HIDE DEF lg, D
    <3> QED BY <1>1, <1>2, <1>3, KnownStays
  <2>2. N + 1 \in 1..Len(Lr)
    BY <1>3, <1>4
  <2>3. \A x \in E : x \in D \/ (x \in Nat \X Nat /\ x[1] = N + 1 /\ ~OrphanIn(Lr, N + 1))
    BY <1>8
  <2> HIDE DEF D, E
  <2> QED BY <2>1, <2>2, <2>3 DEF Known
<1>11. Fates(r.buffer, Lr, now, E)
  <2> SUFFICES ASSUME NEW i \in 1..Len(Lr), Lr[i].set.is = "data"
        PROVE  /\ Usable(CurrentIn(Lr, i)) => WholeIn(Lr, E, i, CurrentIn(Lr, i))
               /\ OrphanIn(Lr, i) /\ After(Lr, i) = {} => Pending(r.buffer, Lr, now, i)
               /\ OrphanIn(Lr, i) => \A k \in RescuerIn(Lr, i) :
                    Cardinality(RivalsIn(Lr, i, k)) < Orphans => WholeIn(Lr, E, i, Lr[k].set.layout)
    BY DEF Fates
  <2>1. CASE i \in 1..N
    <3>1. lg[i].set.is = "data" /\ Lr[i] = lg[i] /\ i \in 1..Len(lg)
      BY <1>4, <2>1 DEF N
    <3> HIDE DEF lg, D, E
    <3>2. /\ Usable(CurrentIn(Lr, i)) => WholeIn(Lr, E, i, CurrentIn(Lr, i))
          /\ OrphanIn(Lr, i) /\ After(Lr, i) = {} => Pending(p.buffer, lg, now, i)
          /\ OrphanIn(Lr, i) /\ (After(lg, i) # {} \/ After(Lr, i) = {}) => \A k \in RescuerIn(Lr, i) :
               Cardinality(RivalsIn(Lr, i, k)) < Orphans => WholeIn(Lr, E, i, Lr[k].set.layout)
      BY <1>1, <1>2, <1>3, <1>7, <3>1, FatesStay
    <3>3. After(Lr, i) = After(lg, i)
      <4>1. After(Lr, i) = After(lg, i) \cup New(lg, e, lg[i].src, lg[i].set.tid)
        BY <1>2, <1>3, <3>1, EarlierStay
      <4> QED BY <1>5, <4>1
    <3>4. Pending(p.buffer, lg, now, i) => Pending(r.buffer, Lr, now, i)
      BY <2>1 DEF N, lg, Lr
    <3> QED BY <3>2, <3>3, <3>4
  <2>2. CASE i \notin 1..N
    <3>1. i = N + 1
      BY <1>3, <1>4, <2>2
    <3>2. After(Lr, i) = {}
      <4>1. After(Lr, i) \subseteq i + 1..Len(Lr)
        BY <1>4, AfterAre
      <4>2. \A j \in i + 1..Len(Lr) : FALSE
        BY <1>3, <1>4, <3>1
      <4> QED BY <4>1, <4>2
    <3>3. RescuerIn(Lr, i) = {}
      BY <3>2 DEF RescuerIn
    <3>4. set.is = "data"
      BY <1>2, <1>4, <3>1
    <3>5. /\ Usable(CurrentIn(Lr, i)) => WholeIn(Lr, ToSet(r.flows), i, CurrentIn(Lr, i))
          /\ OrphanIn(Lr, i) => Pending(r.buffer, Lr, now, i)
      BY <3>1, <3>4 DEF N, Lr
    <3>6. Usable(CurrentIn(Lr, i)) => WholeIn(Lr, E, i, CurrentIn(Lr, i))
      BY <3>5 DEF WholeIn
    <3> QED BY <3>3, <3>5, <3>6
  <2> QED BY <2>1, <2>2
<1>12. Waits(r.buffer, r.log) /\ Fresh(r.templates, now)
  BY <1>1
<1> QED BY <1>6, <1>9, <1>10, <1>11, <1>12 DEF ParseInv, Lr

\* The buffer is as it was: so is what waits.
LEMMA WaitsStay ==
  ASSUME NEW lg \in Seq(Entries), NEW e \in Entries, e.set.is # "template",
         NEW r, r = Append(lg, e), NEW bf, Waits(bf, lg)
  PROVE  /\ Waits(bf, r)
         /\ \A i \in 1..Len(lg) : \A t : Pending(bf, lg, t, i) => Pending(bf, r, t, i)
<1>1. \A s, tid : New(lg, e, s, tid) = {}
  BY DEF New
<1>2. Waits(bf, r)
  <2>1. ASSUME NEW s \in Sources, NEW a \in 1..Len(bf[s]) PROVE Waiting(bf[s][a], r, s)
    <3>1. Waiting(bf[s][a], lg, s)
      BY <2>1 DEF Waits
    <3> QED BY <1>1, <3>1, WaitingStays
  <2> QED BY <2>1 DEF Waits
<1>3. ASSUME NEW i \in 1..Len(lg), NEW t, Pending(bf, lg, t, i) PROVE Pending(bf, r, t, i)
  <2>1. r[i] = lg[i]
    BY LogGrows
  <2>2. Cardinality(RivalsIn(lg, i, Len(lg) + 1)) >= Orphans =>
          Cardinality(RivalsIn(r, i, Len(r) + 1)) >= Orphans
    BY RivalsGrow
  <2> QED BY <1>3, <2>1, <2>2 DEF Pending
<1> QED BY <1>2, <1>3

\* A version 5 set.
LEMMA V5Step ==
  ASSUME NEW dec, NEW p, ParseInv(p, dec, now), NEW s \in Sources, NEW set \in Sets,
         set.is = "v5", NEW q, NEW e, Received(p, q, s, set, e)
  PROVE  ParseInv(WithV5(q, set), dec, now)
<1> DEFINE N == Len(p.log)
           fl == Numbered(Len(q.log), set.n)
           r == [q EXCEPT !.flows = @ \o fl]
<1>1. p \in Working /\ Waits(p.buffer, p.log)
  BY DEF ParseInv
<1>2. /\ q \in Working /\ q.templates = p.templates /\ q.buffer = p.buffer /\ q.flows = p.flows
      /\ q.log = Append(p.log, e) /\ e \in Entries /\ e.set = set
  BY DEF Received
<1>3. p.log \in Seq(Entries) /\ p.flows \in Seq(Nat \X Nat) /\ set.n \in Nat
  BY <1>1, SetIs DEF Working
<1>4. N \in Nat /\ Len(q.log) = N + 1 /\ q.log[N + 1] = e
  BY <1>2, <1>3, LogGrows, LenProperties
<1>5. fl \in Seq(Nat \X Nat) /\ \A x \in ToSet(fl) : x \in Nat \X Nat /\ x[1] = N + 1
  <2> DEFINE i == Len(q.log)
  <2>1. i \in Nat /\ i = N + 1
    BY <1>4
  <2> HIDE DEF i, N
  <2>2. Numbered(i, set.n) \in Seq(Nat \X Nat)
        /\ \A x \in ToSet(Numbered(i, set.n)) : x \in Nat \X Nat /\ x[1] = i
    BY <1>3, <2>1, NumberedAre
  <2> QED BY <2>1, <2>2 DEF i
<1> HIDE DEF fl, N
<1>6. /\ p.flows \o fl \in Seq(Nat \X Nat)
      /\ \A x : x \in ToSet(p.flows \o fl) <=> x \in ToSet(p.flows) \/ x \in ToSet(fl)
  BY <1>3, <1>5, SetOfConcat
<1>7. r = [templates |-> q.templates, buffer |-> q.buffer, log |-> q.log, flows |-> q.flows \o fl]
  <2> DEFINE z == [q EXCEPT !.flows = @ \o fl]
  <2>1. z = [q EXCEPT !.flows = q.flows \o fl]
    OBVIOUS
  <2> HIDE DEF z
  <2>2. z = [templates |-> q.templates, buffer |-> q.buffer, log |-> q.log,
             flows |-> q.flows \o fl]
    BY <1>2, <2>1 DEF Working
  <2> QED BY <2>2 DEF z
<1>8. WithV5(q, set) = r
  BY DEF WithV5, fl
<1> HIDE DEF r
<1>9. r \in Working
  BY <1>2, <1>6, <1>7 DEF Working
<1>10. /\ r.templates = p.templates /\ r.log = q.log /\ r.buffer = p.buffer
       /\ r.flows = p.flows \o fl
  BY <1>2, <1>7
<1>11. /\ Waits(r.buffer, q.log)
       /\ \A i \in 1..Len(p.log) :
            Pending(p.buffer, p.log, now, i) => Pending(r.buffer, q.log, now, i)
  <2>1. p.log \in Seq(Entries) /\ e \in Entries /\ e.set.is # "template" /\ q.log = Append(p.log, e)
    BY <1>2, <1>3
  <2>2. /\ Waits(p.buffer, q.log)
        /\ \A i \in 1..Len(p.log) : \A t : Pending(p.buffer, p.log, t, i) => Pending(p.buffer, q.log, t, i)
    BY ONLY <1>1, <2>1, WaitsStay
  <2> QED BY ONLY <1>10, <2>2
<1>12. /\ \A x \in ToSet(p.flows) : x \in ToSet(r.flows)
       /\ \A x \in ToSet(r.flows) : x \in ToSet(p.flows)
            \/ (x \in Nat \X Nat /\ x[1] = N + 1)
  BY <1>5, <1>6, <1>10
<1>13. ~OrphanIn(q.log, N + 1)
  BY <1>2, <1>4 DEF OrphanIn
<1>14. ParseInv(r, dec, now)
  <2>1. set.is # "template" /\ set.is # "data"
    OBVIOUS
  <2> QED BY <1>9, <1>10, <1>11, <1>12, <1>13, <2>1, PlainStep DEF N
<1> QED BY <1>8, <1>14

\* A data set whose template is known.
LEMMA DecodeStep ==
  ASSUME NEW dec, NEW p, ParseInv(p, dec, now), NEW s \in Sources, NEW set \in Sets,
         set.is = "data", NEW q, NEW e, Received(p, q, s, set, e),
         Usable(CurrentIn(q.log, Len(q.log))),
         NEW layout, layout = CurrentIn(q.log, Len(q.log)),
         NEW r, r = [q EXCEPT !.flows = @ \o FlowsOf(s, layout, Len(q.log), set.n)]
  PROVE  ParseInv(r, dec, now)
<1> DEFINE N == Len(p.log)
           fl == FlowsOf(s, layout, Len(q.log), set.n)
<1>1. p \in Working /\ Waits(p.buffer, p.log)
  BY DEF ParseInv
<1>2. /\ q \in Working /\ q.templates = p.templates /\ q.buffer = p.buffer /\ q.flows = p.flows
      /\ q.log = Append(p.log, e) /\ e \in Entries /\ e.set = set /\ e.src = s
  BY DEF Received
<1>3. p.log \in Seq(Entries) /\ p.flows \in Seq(Nat \X Nat) /\ set.n \in Nat
  BY <1>1, SetIs DEF Working
<1>4. N \in Nat /\ Len(q.log) = N + 1 /\ q.log[N + 1] = e
  BY <1>2, <1>3, LogGrows, LenProperties
<1>5. fl \in Seq(Nat \X Nat) /\ \A x \in ToSet(fl) : x \in Nat \X Nat /\ x[1] = N + 1
  <2> DEFINE i == Len(q.log)
  <2>1. i \in Nat /\ i = N + 1
    BY <1>4
  <2> HIDE DEF i, N
  <2>2. FlowsOf(s, layout, i, set.n) \in Seq(Nat \X Nat)
        /\ \A x \in ToSet(FlowsOf(s, layout, i, set.n)) : x \in Nat \X Nat /\ x[1] = i
    <3> DEFINE n == set.n
    <3>1. n \in Nat
      BY <1>3
    <3> HIDE DEF n
    <3>2. FlowsOf(s, layout, i, n) \in Seq(Nat \X Nat)
      BY ONLY <2>1, <3>1, FlowsAre
    <3>3. \A x \in ToSet(FlowsOf(s, layout, i, n)) : x \in Nat \X Nat /\ x[1] = i
      BY ONLY <2>1, <3>1, FlowsAre
    <3> QED BY <3>2, <3>3 DEF n
  <2> QED BY <2>1, <2>2 DEF i
<1>6. r = [q EXCEPT !.flows = q.flows \o fl]
  OBVIOUS
<1> HIDE DEF fl, N
<1>7. /\ p.flows \o fl \in Seq(Nat \X Nat)
      /\ \A x : x \in ToSet(p.flows \o fl) <=> x \in ToSet(p.flows) \/ x \in ToSet(fl)
  BY <1>3, <1>5, SetOfConcat
<1>8. r = [templates |-> q.templates, buffer |-> q.buffer, log |-> q.log, flows |-> q.flows \o fl]
  <2>1. q \in Working
    BY <1>2
  <2> HIDE DEF Received
  <2> QED BY ONLY <1>6, <2>1 DEF Working
<1>9. r \in Working
  <2>1. q.flows \o fl \in Seq(Nat \X Nat)
    BY <1>2, <1>7
  <2>2. q \in Working
    BY <1>2
  <2> QED BY ONLY <1>8, <2>1, <2>2 DEF Working
<1>10. /\ r.templates = p.templates /\ r.log = q.log /\ r.buffer = p.buffer
       /\ r.flows = p.flows \o fl
  <2>1. /\ r.templates = q.templates /\ r.log = q.log /\ r.buffer = q.buffer
        /\ r.flows = q.flows \o fl
    BY ONLY <1>8
  <2> QED BY <1>2, <2>1
<1>11. /\ Waits(r.buffer, q.log)
       /\ \A i \in 1..Len(p.log) :
            Pending(p.buffer, p.log, now, i) => Pending(r.buffer, q.log, now, i)
  <2>1. e.set.is # "template"
    BY <1>2
  <2> QED BY <1>1, <1>2, <1>3, <1>10, <2>1, WaitsStay
<1>12. /\ \A x \in ToSet(p.flows) : x \in ToSet(r.flows)
       /\ \A x \in ToSet(r.flows) : x \in ToSet(p.flows)
            \/ (x \in Nat \X Nat /\ x[1] = N + 1)
       /\ \A x \in ToSet(fl) : x \in ToSet(r.flows)
  BY <1>5, <1>7, <1>10
<1>13. ~OrphanIn(q.log, N + 1)
  BY <1>4 DEF OrphanIn
<1>14. WholeIn(q.log, ToSet(r.flows), N + 1, CurrentIn(q.log, N + 1))
  BY <1>2, <1>4, <1>12 DEF WholeIn, fl
<1>15. set.is # "template"
  OBVIOUS
<1> QED BY <1>9, <1>10, <1>11, <1>12, <1>13, <1>14, <1>15, PlainStep DEF N

\* A buffer of orphans, all of them later than one: these are its rivals.
LEMMA PushedOut ==
  ASSUME NEW lg \in Seq(Entries), NEW i \in 1..Len(lg), NEW s, lg[i].src = s,
         NEW d \in Seq(Items), Len(d) = Orphans + 1, d[1].i = i,
         \A a \in 1..Len(d) : Waiting(d[a], lg, s),
         \A a, b \in 1..Len(d) : a < b => d[a].i < d[b].i
  PROVE  Cardinality(RivalsIn(lg, i, Len(lg) + 1)) >= Orphans
<1> DEFINE R == RivalsIn(lg, i, Len(lg) + 1)
           f == [c \in 1..Orphans |-> d[c + 1].i]
<1>1. Orphans \in Nat \ {0} /\ Len(lg) \in Nat
  BY CollectorAssumption, LenProperties
<1>2. ASSUME NEW c \in 1..Orphans PROVE f[c] \in R
  <2>1. c + 1 \in 1..Len(d) /\ 1 \in 1..Len(d) /\ 1 < c + 1
    BY <1>1
  <2>2. Waiting(d[c + 1], lg, s) /\ d[1].i < d[c + 1].i
    BY <2>1
  <2> DEFINE j == d[c + 1].i
  <2>3. j \in 1..Len(lg) /\ OrphanIn(lg, j) /\ lg[j].src = s /\ i < j
    BY <2>2 DEF Waiting
  <2>4. j \in i + 1..(Len(lg) + 1) - 1
    BY <1>1, <2>3
  <2>5. j \in R
    BY <2>3, <2>4 DEF RivalsIn
  <2> QED BY <2>5
<1>3. ASSUME NEW c1 \in 1..Orphans, NEW c2 \in 1..Orphans, f[c1] = f[c2] PROVE c1 = c2
  <2>1. c1 + 1 \in 1..Len(d) /\ c2 + 1 \in 1..Len(d)
    BY <1>1
  <2>2. d[c1 + 1].i \in Nat /\ d[c2 + 1].i \in Nat /\ d[c1 + 1].i = d[c2 + 1].i
    <3>1. d[c1 + 1] \in Items /\ d[c2 + 1] \in Items
      BY <2>1
    <3> QED BY <1>3, <3>1 DEF Items
  <2>3. ~(c1 + 1 < c2 + 1) /\ ~(c2 + 1 < c1 + 1)
    BY <2>1, <2>2
  <2> QED BY <1>1, <2>3
<1>4. f \in [1..Orphans -> R]
  <2> DEFINE g == f
  <2>1. \A c \in 1..Orphans : d[c + 1].i \in R
    BY <1>2
  <2> HIDE DEF R
  <2> QED BY <2>1
<1>5. f \in Injection(1..Orphans, R)
  <2> HIDE DEF f, R
  <2> QED BY <1>3, <1>4 DEF Injection, IsInjective
<1>6. IsFiniteSet(R)
  <2>1. R \in SUBSET (i + 1..(Len(lg) + 1) - 1)
    BY DEF RivalsIn
  <2>2. i + 1 \in Int /\ (Len(lg) + 1) - 1 \in Int
    BY <1>1
  <2> HIDE DEF R, f
  <2> QED BY <2>1, <2>2, FS_Interval, FS_Subset
<1>7. Cardinality(1..Orphans) <= Cardinality(R)
  <2> HIDE DEF f, R
  <2> QED BY <1>5, <1>6, FS_Injection
<1>8. Cardinality(1..Orphans) = Orphans
  <2>1. 1 \in Int /\ Orphans \in Int /\ ~(1 > Orphans) /\ Orphans - 1 + 1 = Orphans
    BY <1>1
  <2> HIDE DEF f, R
  <2> QED BY <2>1, FS_Interval
<1>9. Cardinality(R) \in Nat
  BY <1>6, FS_CardinalityType
<1> HIDE DEF R, f
<1>10. Cardinality(R) >= Orphans
  BY <1>1, <1>7, <1>8, <1>9
<1> QED BY <1>10 DEF R

\* A data set without a template waits; if the buffer is full the oldest is pushed out.
LEMMA WaitStep ==
  ASSUME NEW dec, NEW p, ParseInv(p, dec, now), NEW s \in Sources, NEW set \in Sets,
         set.is = "data", NEW q, NEW e, Received(p, q, s, set, e),
         OrphanIn(q.log, Len(q.log)),
         NEW item, item = [at |-> now, tid |-> set.tid, i |-> Len(q.log), n |-> set.n],
         NEW r, r = [q EXCEPT !.buffer[s] = Bounded(Append(@, item))]
  PROVE  ParseInv(r, dec, now)
<1> DEFINE lg == p.log
           N == Len(lg)
           bf == p.buffer[s]
           d == Append(bf, item)
           b == Bounded(d)
           nb == [p.buffer EXCEPT ![s] = b]
<1>1. p \in Working /\ Waits(p.buffer, lg)
  BY DEF ParseInv
<1>2. /\ q \in Working /\ q.templates = p.templates /\ q.buffer = p.buffer /\ q.flows = p.flows
      /\ q.log = Append(lg, e) /\ e \in Entries /\ e.set = set /\ e.src = s /\ e.at = now
  BY DEF Received
<1>3. lg \in Seq(Entries) /\ p.buffer \in [Sources -> Seq(Items)] /\ p.flows \in Seq(Nat \X Nat)
  BY <1>1 DEF Working
<1>4. set.n \in Nat /\ set.tid \in Tids /\ now \in Nat
  <2>1. set.n \in Nat /\ set.tid \in Tids
    BY SetIs
  <2> QED BY <1>2, <2>1 DEF Entries
<1> DEFINE Lr == q.log
<1>5. /\ N \in Nat /\ Len(Lr) = N + 1 /\ Lr[N + 1] = e /\ Lr \in Seq(Entries)
      /\ \A i \in 1..N : Lr[i] = lg[i]
  BY <1>2, <1>3, LogGrows, LenProperties
<1>6. item \in Items /\ item.i = N + 1
  BY <1>4, <1>5 DEF Items
<1>7. bf \in Seq(Items) /\ Len(bf) \in Nat /\ Len(bf) <= Orphans
      /\ \A a \in 1..Len(bf) : bf[a] \in Items
  <2>1. bf \in Seq(Items) /\ Len(bf) <= Orphans
    BY <1>1, <1>3 DEF Waits
  <2> HIDE DEF bf
  <2> QED BY <2>1
<1> HIDE DEF bf, N
<1>8. /\ d \in Seq(Items) /\ Len(d) = Len(bf) + 1 /\ d[Len(bf) + 1] = item
      /\ \A a \in 1..Len(bf) : d[a] = bf[a]
  <2> QED BY <1>6, <1>7, AppendProperties
<1> HIDE DEF d
<1>9. Orphans \in Nat /\ Orphans > 0
  BY CollectorAssumption
<1>10. b \in Seq(Items)
  BY <1>8 DEF Bounded
<1>11. \/ b = d /\ Len(d) <= Orphans
       \/ /\ Len(d) = Orphans + 1 /\ Len(b) = Orphans
          /\ \A a \in 1..Orphans : b[a] = d[a + 1]
  <2>1. CASE Len(d) <= Orphans
    BY <1>7, <1>8, <1>9, <2>1 DEF Bounded
  <2>2. CASE ~(Len(d) <= Orphans)
    <3>1. Len(d) = Orphans + 1 /\ b = Tail(d)
      BY <1>7, <1>8, <1>9, <2>2 DEF Bounded
    <3>2. Len(Tail(d)) = Len(d) - 1 /\ \A a \in 1..(Len(d) - 1) : Tail(d)[a] = d[a + 1]
      BY <1>8, <1>9, <3>1
    <3>3. Len(d) - 1 = Orphans
      BY <1>9, <3>1
    <3> QED BY <3>1, <3>2, <3>3
  <2> QED BY <2>1, <2>2
<1> HIDE DEF b
<1>12. nb \in [Sources -> Seq(Items)] /\ nb[s] = b
       /\ \A t \in Sources : t # s => nb[t] = p.buffer[t]
  BY <1>3, <1>10
<1>13. r = [q EXCEPT !.buffer = nb]
  <2>1. q.buffer[s] = bf
    BY <1>2 DEF bf
  <2>2. Bounded(Append(q.buffer[s], item)) = b
    BY <2>1 DEF b, d
  <2>3. q \in Working /\ q.buffer = p.buffer
    BY <1>2
  <2>4. r = [q EXCEPT !.buffer = [q.buffer EXCEPT ![s] = Bounded(Append(q.buffer[s], item))]]
    BY ONLY <2>3, r = [q EXCEPT !.buffer[s] = Bounded(Append(@, item))] DEF Working
  <2> QED BY <2>2, <2>3, <2>4
<1> HIDE DEF nb
<1>14. r = [templates |-> q.templates, buffer |-> nb, log |-> q.log, flows |-> q.flows]
  <2>1. q \in Working
    BY <1>2
  <2> QED BY ONLY <1>13, <2>1 DEF Working
<1>15. r \in Working
  <2>1. q \in Working /\ nb \in [Sources -> Seq(Items)]
    BY <1>2, <1>12
  <2> QED BY ONLY <1>14, <2>1 DEF Working
<1>16. r.templates = p.templates /\ r.log = Lr /\ r.buffer = nb /\ r.flows = p.flows
  <2>1. r.templates = q.templates /\ r.log = q.log /\ r.buffer = nb /\ r.flows = q.flows
    BY ONLY <1>14
  <2> QED BY <1>2, <2>1
<1>17. Waits(p.buffer, Lr) /\ \A i \in 1..Len(lg) :
         Pending(p.buffer, lg, now, i) => Pending(p.buffer, Lr, now, i)
  <2>1. e.set.is # "template"
    BY <1>2
  <2> QED BY <1>1, <1>2, <1>3, <2>1, WaitsStay
<1>18. Waiting(item, Lr, s)
  <2>1. After(Lr, N + 1) = {}
    <3>1. After(Lr, N + 1) \subseteq (N + 1) + 1..Len(Lr)
      <4>1. N + 1 \in 1..Len(Lr)
        BY <1>5
      <4> QED BY <1>5, <4>1, AfterAre
    <3>2. \A j \in (N + 1) + 1..Len(Lr) : FALSE
      BY <1>5
    <3> QED BY <3>1, <3>2
  <2>2. N + 1 \in 1..Len(Lr)
    BY <1>5
  <2>3. item.at = now /\ item.tid = set.tid /\ item.n = set.n
    OBVIOUS
  <2>4. OrphanIn(Lr, N + 1)
    BY <1>5
  <2> QED BY <1>2, <1>5, <1>6, <2>1, <2>2, <2>3, <2>4 DEF Waiting
<1>19. \A a \in 1..Len(d) : Waiting(d[a], Lr, s) /\ (a \in 1..Len(bf) \/ a = Len(bf) + 1)
  <2> SUFFICES ASSUME NEW a \in 1..Len(d)
               PROVE  Waiting(d[a], Lr, s) /\ (a \in 1..Len(bf) \/ a = Len(bf) + 1)
    OBVIOUS
  <2>1. a \in 1..Len(bf) \/ a = Len(bf) + 1
    <3>1. Len(bf) \in Nat /\ Len(d) = Len(bf) + 1
      BY <1>7, <1>8
    <3> QED BY <3>1
  <2>2. CASE a \in 1..Len(bf)
    <3>1. Waiting(bf[a], Lr, s)
      BY <1>17, <2>2 DEF Waits, bf
    <3> QED BY <1>8, <2>1, <2>2, <3>1
  <2>3. CASE a = Len(bf) + 1
    BY <1>8, <1>18, <2>3
  <2> QED BY <2>1, <2>2, <2>3
<1>20. \A a, c \in 1..Len(d) : a < c => d[a].i < d[c].i
  <2> SUFFICES ASSUME NEW a \in 1..Len(d), NEW c \in 1..Len(d), a < c PROVE d[a].i < d[c].i
    OBVIOUS
  <2>1. a \in 1..Len(bf)
    <3>1. Len(bf) \in Nat /\ Len(d) = Len(bf) + 1
      BY <1>7, <1>8
    <3> QED BY <3>1
  <2>2. CASE c \in 1..Len(bf)
    <3>1. bf[a].i < bf[c].i
      BY <1>1, <2>1, <2>2 DEF Waits, bf
    <3> QED BY <1>8, <2>1, <2>2, <3>1
  <2>3. CASE c = Len(bf) + 1
    <3>1. bf[a].i \in 1..N
      BY <1>1, <2>1 DEF Waits, Waiting, bf, N
    <3>2. d[a].i = bf[a].i /\ d[c].i = N + 1
      BY <1>6, <1>8, <2>1, <2>3
    <3> QED BY <1>5, <3>1, <3>2
  <2> QED BY <1>19, <2>2, <2>3
<1>21. /\ Len(b) \in Nat /\ Len(b) <= Orphans /\ Len(b) > 0 /\ b[Len(b)].i = N + 1
       /\ \A a \in 1..Len(b) : Waiting(b[a], Lr, s)
       /\ \A a, c \in 1..Len(b) : a < c => b[a].i < b[c].i
  <2>1. CASE b = d /\ Len(d) <= Orphans
    <3>1. Len(d) \in Nat /\ Len(d) > 0 /\ d[Len(d)].i = N + 1
      BY <1>6, <1>7, <1>8
    <3> QED BY <1>19, <1>20, <2>1, <3>1
  <2>2. CASE /\ Len(d) = Orphans + 1 /\ Len(b) = Orphans
             /\ \A a \in 1..Orphans : b[a] = d[a + 1]
    <3>1. \A a \in 1..Orphans : a + 1 \in 1..Len(d) /\ b[a] = d[a + 1]
      BY <1>9, <2>2
    <3>2. b[Orphans] = d[Orphans + 1] /\ Orphans + 1 = Len(bf) + 1
      BY <1>8, <1>9, <2>2, <3>1
    <3>3. b[Len(b)].i = N + 1
      BY <1>6, <1>8, <2>2, <3>2
    <3>4. \A a \in 1..Len(b) : Waiting(b[a], Lr, s)
      BY <1>19, <2>2, <3>1
    <3>5. \A a, c \in 1..Len(b) : a < c => b[a].i < b[c].i
      <4> SUFFICES ASSUME NEW a \in 1..Len(b), NEW c \in 1..Len(b), a < c PROVE b[a].i < b[c].i
        OBVIOUS
      <4>1. a + 1 \in 1..Len(d) /\ c + 1 \in 1..Len(d) /\ a + 1 < c + 1
        BY <1>9, <2>2, <3>1
      <4>2. b[a] = d[a + 1] /\ b[c] = d[c + 1]
        BY <2>2
      <4> QED BY <1>20, <4>1, <4>2
    <3> QED BY <1>9, <2>2, <3>3, <3>4, <3>5
  <2> QED BY <1>11, <2>1, <2>2
<1>22. Waits(nb, Lr)
  <2> SUFFICES ASSUME NEW t \in Sources
               PROVE  /\ Len(nb[t]) <= Orphans
                      /\ \A a \in 1..Len(nb[t]) : Waiting(nb[t][a], Lr, t)
                      /\ \A a, c \in 1..Len(nb[t]) : a < c => nb[t][a].i < nb[t][c].i
    BY DEF Waits
  <2>1. CASE t = s
    BY <1>12, <1>21, <2>1
  <2>2. CASE t # s
    BY <1>12, <1>17, <2>2 DEF Waits
  <2> QED BY <2>1, <2>2
<1>23. ASSUME NEW i \in 1..N, Pending(p.buffer, lg, now, i) PROVE Pending(nb, Lr, now, i)
  <2>1. Pending(p.buffer, Lr, now, i) /\ i \in 1..Len(Lr)
    BY <1>5, <1>17, <1>23 DEF N
  <2>2. CASE \E a \in 1..Len(p.buffer[Lr[i].src]) : p.buffer[Lr[i].src][a].i = i
    <3>1. CASE Lr[i].src # s
      <4>1. Lr[i].src \in Sources
        <5>1. Lr[i] \in Entries
          BY <1>5, <2>1
        <5> QED BY <5>1 DEF Entries
      <4>2. nb[Lr[i].src] = p.buffer[Lr[i].src]
        BY <1>12, <3>1, <4>1
      <4> QED BY <2>2, <4>2 DEF Pending
    <3>2. CASE Lr[i].src = s
      <4>1. PICK a \in 1..Len(bf) : bf[a].i = i
        BY <2>2, <3>2 DEF bf
      <4>2. a \in 1..Len(d) /\ d[a].i = i
        <5>1. Len(bf) \in Nat /\ Len(d) = Len(bf) + 1
          BY <1>7, <1>8
        <5> QED BY <1>8, <4>1, <5>1
      <4>3. CASE b = d
        BY <1>12, <3>2, <4>2, <4>3 DEF Pending
      <4>4. CASE /\ Len(d) = Orphans + 1 /\ Len(b) = Orphans
                 /\ \A c \in 1..Orphans : b[c] = d[c + 1]
        <5>1. CASE a = 1
          <6>1. \A c \in 1..Len(d) : Waiting(d[c], Lr, s)
            BY <1>19
          <6>2. Cardinality(RivalsIn(Lr, i, Len(Lr) + 1)) >= Orphans
            <7> HIDE DEF Lr
            <7> QED BY <1>5, <1>8, <1>20, <2>1, <3>2, <4>2, <4>4, <5>1, <6>1, PushedOut
          <6> QED BY <6>2 DEF Pending
        <5>2. CASE a # 1
          <6>1. a - 1 \in 1..Orphans /\ a = (a - 1) + 1
            BY <1>9, <4>2, <4>4, <5>2
          <6>2. b[a - 1] = d[a]
            BY <4>4, <6>1
          <6>3. a - 1 \in 1..Len(b) /\ b[a - 1].i = i
            BY <4>2, <4>4, <6>1, <6>2
          <6> QED BY <1>12, <3>2, <6>3 DEF Pending
        <5> QED BY <5>1, <5>2
      <4> QED BY <1>11, <4>3, <4>4
    <3> QED BY <3>1, <3>2
  <2> QED BY <2>1, <2>2 DEF Pending
<1>24. Pending(nb, Lr, now, N + 1)
  <2>1. Lr[N + 1].src = s
    BY <1>2, <1>5
  <2>2. Len(b) \in 1..Len(b) /\ b[Len(b)].i = N + 1
    BY <1>21
  <2> QED BY <1>12, <2>1, <2>2 DEF Pending
<1>25. ~Usable(CurrentIn(Lr, N + 1))
  BY <1>5 DEF OrphanIn
<1>26. set.is # "template"
  OBVIOUS
<1>27. /\ \A i \in 1..Len(p.log) :
            Pending(p.buffer, p.log, now, i) => Pending(r.buffer, q.log, now, i)
       /\ Waits(r.buffer, q.log)
       /\ Pending(r.buffer, q.log, now, Len(p.log) + 1)
       /\ ~Usable(CurrentIn(q.log, Len(p.log) + 1))
  BY <1>16, <1>22, <1>23, <1>24, <1>25 DEF N
<1> HIDE DEF lg, Lr
<1>28. /\ \A x \in ToSet(p.flows) : x \in ToSet(r.flows)
       /\ \A x \in ToSet(r.flows) : x \in ToSet(p.flows)
  BY <1>16
<1>29. r.templates = p.templates /\ r.log = q.log
  BY <1>16 DEF Lr
<1> QED BY <1>15, <1>26, <1>27, <1>28, <1>29, PlainStep

\* One set of a packet.
LEMMA SetStep ==
  ASSUME now \in Nat, NEW dec, NEW p, ParseInv(p, dec, now), NEW s \in Sources, NEW set \in Sets
  PROVE  ParseInv(WithSet(p, s, set), dec, now)
<1> DEFINE e == [set |-> set, src |-> s, at |-> now]
           q == [p EXCEPT !.log = Append(@, e)]
           N == Len(p.log)
<1>1. p \in Working /\ Follows(p.templates, p.log, now) /\ Fresh(p.templates, now)
  BY DEF ParseInv
<1>2. p.log \in Seq(Entries) /\ e \in Entries
  BY <1>1 DEF Working, Entries
<1>3. e.set = set /\ e.src = s /\ e.at = now
  OBVIOUS
<1> HIDE DEF e
<1>4. Append(p.log, e) \in Seq(Entries)
  BY <1>2, AppendProperties
<1>5. q = [templates |-> p.templates, buffer |-> p.buffer, log |-> Append(p.log, e),
           flows |-> p.flows]
  <2> DEFINE z == [p EXCEPT !.log = Append(@, e)]
  <2>1. z = [p EXCEPT !.log = Append(p.log, e)]
    OBVIOUS
  <2> HIDE DEF z
  <2>2. z = [templates |-> p.templates, buffer |-> p.buffer, log |-> Append(p.log, e),
             flows |-> p.flows]
    BY ONLY <1>1, <2>1 DEF Working
  <2> QED BY <2>2 DEF z
<1>6. WithSet(p, s, set) = CASE set.is = "template" -> WithTemplate(q, s, set)
                             [] set.is = "data" -> WithData(q, s, set)
                             [] set.is = "v5" -> WithV5(q, set)
  BY DEF WithSet, e
<1> HIDE DEF q
<1>7. q \in Working
  BY ONLY <1>1, <1>4, <1>5 DEF Working
<1>8. Received(p, q, s, set, e)
  BY <1>2, <1>3, <1>5, <1>7 DEF Received
<1>9. CASE set.is = "template"
  <2>1. ParseInv(WithTemplate(q, s, set), dec, now)
    BY <1>8, <1>9, TemplateStep
  <2> QED BY <1>6, <1>9, <2>1
<1>10. CASE set.is = "v5"
  <2>1. ParseInv(WithV5(q, set), dec, now)
    BY <1>8, <1>10, V5Step
  <2> QED BY <1>6, <1>10, <2>1
<1>11. CASE set.is = "data"
  <2> DEFINE L == q.templates[<<s, set.tid>>].layout
             i == Len(q.log)
  <2>1. set.tid \in Tids
    BY <1>11, SetIs
  <2>2. i = N + 1 /\ q.log[N + 1] = e /\ q.log = Append(p.log, e) /\ q.templates = p.templates
    BY <1>2, <1>8, LogGrows DEF Received
  <2>3. CurrentIn(q.log, i) = L
    <3> DEFINE tid == set.tid
    <3>1. tid \in Tids /\ e.set.tid = tid /\ e.set.is # "template"
      BY <1>3, <1>11, <2>1
    <3>2. Follows(p.templates, p.log, e.at) /\ Fresh(p.templates, e.at)
      BY <1>1, <1>3
    <3> HIDE DEF tid, L, i
    <3>3. CurrentIn(q.log, Len(p.log) + 1) = p.templates[<<e.src, tid>>].layout
      <4>1. p.log \in Seq(Entries) /\ e \in Entries /\ q.log = Append(p.log, e)
        BY <1>2, <2>2
      <4> QED BY ONLY <3>1, <3>2, <4>1, CurrentIs
    <3> QED BY <1>3, <2>2, <3>3 DEF tid, L
  <2>4. CASE Usable(L)
    <3> DEFINE r == [q EXCEPT !.flows = @ \o FlowsOf(s, L, Len(q.log), set.n)]
    <3>1. WithData(q, s, set) = r
      BY <2>4 DEF WithData
    <3> HIDE DEF L
    <3>2. r = [q EXCEPT !.flows = @ \o FlowsOf(s, L, Len(q.log), set.n)]
      OBVIOUS
    <3> HIDE DEF r
    <3>3. ParseInv(r, dec, now)
      BY <1>8, <1>11, <2>3, <2>4, <3>2, DecodeStep
    <3> QED BY <1>6, <1>11, <3>1, <3>3
  <2>5. CASE ~Usable(L)
    <3> DEFINE item == [at |-> now, tid |-> set.tid, i |-> Len(q.log), n |-> set.n]
               r == [q EXCEPT !.buffer[s] = Bounded(Append(@, item))]
    <3>1. WithData(q, s, set) = r
      BY <2>5 DEF WithData
    <3>2. OrphanIn(q.log, Len(q.log))
      <4>1. q.log[Len(q.log)].set.is = "data"
        BY <1>3, <1>11, <2>2
      <4> HIDE DEF L
      <4> QED BY <2>3, <2>5, <4>1 DEF OrphanIn
    <3>3. item = [at |-> now, tid |-> set.tid, i |-> Len(q.log), n |-> set.n]
      OBVIOUS
    <3> HIDE DEF L, item
    <3>4. r = [q EXCEPT !.buffer[s] = Bounded(Append(@, item))]
      OBVIOUS
    <3> HIDE DEF r
    <3>5. ParseInv(r, dec, now)
      BY <1>8, <1>11, <3>2, <3>3, <3>4, WaitStep
    <3> QED BY <1>6, <1>11, <3>1, <3>5
  <2> QED BY <2>4, <2>5
<1>12. set.is \in {"template", "data", "v5"}
  BY SetIs
<1> QED BY <1>9, <1>10, <1>11, <1>12


\* All sets of a packet.
LEMMA ParsedHolds ==
  ASSUME now \in Nat, NEW dec, NEW d \in Datagrams,
         ParseInv([templates |-> Unexpired(templates), buffer |-> buffer, log |-> log,
                   flows |-> <<>>], dec, now)
  PROVE  ParseInv(Parsed(d), dec, now)
<1> DEFINE A == {p \in Working : ParseInv(p, dec, now)}
           sq == d.sets
           n == Len(sq)
           S == DOMAIN sq
           base == [templates |-> Unexpired(templates), buffer |-> buffer, log |-> log,
                    flows |-> <<>>]
           P(f) == f = [T \in SUBSET S |->
                          IF T = {} THEN base ELSE WithSet(f[T \ {Max(T)}], d.src, sq[Max(T)])]
           g == [p \in A \X Sets |-> WithSet(p[1], d.src, p[2])]
<1>1. sq \in Seq(Sets) /\ n \in Nat /\ S = 1..n /\ sq \in [1..n -> Sets] /\ d.src \in Sources
  <2>1. sq \in Seq(Sets) /\ d.src \in Sources
    BY CollectorAssumption
  <2> HIDE DEF sq
  <2> QED BY <2>1
<1>2. Parsed(d) = (CHOOSE f : P(f))[S]
  BY DEF Parsed, FoldLeft, MapThenFoldSet
<1>3. base \in A
  BY DEF ParseInv
<1> HIDE DEF base
<1>4. ASSUME NEW p \in A, NEW set \in Sets PROVE WithSet(p, d.src, set) \in A
  <2>1. ParseInv(p, dec, now)
    OBVIOUS
  <2>2. ParseInv(WithSet(p, d.src, set), dec, now)
    BY <1>1, <2>1, SetStep
  <2> QED BY <2>2 DEF ParseInv
<1>5. g \in [A \X Sets -> A]
  <2> HIDE DEF A
  <2> QED BY <1>4
<1> HIDE DEF A
<1>6. \E f : P(f)
  <2>1. PICK f \in [SUBSET (1..n) -> A] : Folds(f, 1..n, base, sq, g)
    <3> HIDE DEF g, n, sq
    <3> QED BY <1>1, <1>3, <1>5, FoldExists
  <2>2. ASSUME NEW T \in SUBSET S
        PROVE  f[T] = IF T = {} THEN base
                      ELSE WithSet(f[T \ {Max(T)}], d.src, sq[Max(T)])
    <3>1. CASE T = {}
      BY <1>1, <2>1, <3>1 DEF Folds
    <3>2. CASE T # {}
      <4> DEFINE x == Max(T)
                 p == f[T \ {x}]
      <4>1. f[T] = g[<<p, sq[x]>>]
        <5> HIDE DEF g, n, S, sq
        <5> QED BY <1>1, <2>1, <3>2 DEF Folds
      <4>2. x \in T
        <5>1. T \subseteq Int /\ IsFiniteSet(1..n)
          <6>1. 1 \in Int /\ n \in Int
            BY <1>1
          <6> HIDE DEF n, sq
          <6> QED BY <1>1, <6>1, FS_Interval
        <5>2. IsFiniteSet(T)
          <6> HIDE DEF n, S, sq
          <6> QED BY <1>1, <5>1, FS_Subset
        <5> QED BY <3>2, <5>1, <5>2, MaxIs
      <4> HIDE DEF x
      <4>3. sq[x] \in Sets /\ p \in A
        <5> HIDE DEF sq, n
        <5>1. x \in 1..n /\ T \ {x} \in SUBSET (1..n)
          BY <1>1, <4>2
        <5> HIDE DEF S
        <5> QED BY <1>1, <2>1, <5>1
      <4> HIDE DEF p, sq
      <4>4. g[<<p, sq[x]>>] = WithSet(p, d.src, sq[x])
        BY <4>3
      <4>5. f[T] = WithSet(p, d.src, sq[x])
        BY <4>1, <4>4
      <4> QED BY <3>2, <4>5 DEF p, x
    <3> QED BY <3>1, <3>2
  <2> HIDE DEF S, g, n, sq
  <2> DEFINE R(T) == IF T = {} THEN base ELSE WithSet(f[T \ {Max(T)}], d.src, sq[Max(T)])
  <2>3. \A T \in SUBSET S : f[T] = R(T)
    BY <2>2
  <2>4. f = [T \in SUBSET S |-> f[T]]
    BY <1>1, <2>1
  <2>5. f = [T \in SUBSET S |-> R(T)]
    BY <2>3, <2>4, Zenon
  <2>6. P(f)
    BY <2>5
  <2> HIDE DEF P
  <2> QED BY <2>6
<1> DEFINE f == CHOOSE h : P(h)
<1>7. P(f)
  <2> HIDE DEF P
  <2> QED BY <1>6
<1>8. Parsed(d) = f[S]
  BY <1>2
<1> HIDE DEF f
<1>9. f[{}] = base
  BY <1>7
<1> DEFINE Z == Nat \X A
<1>10. <<0, f[{}]>> \in Z
  BY <1>3, <1>9
<1>11. ASSUME NEW i \in 0..(n - 1), <<i, f[1..i]>> \in Z
       PROVE  <<i + 1, f[1..(i + 1)]>> \in Z
  <2>1. i \in Nat /\ i + 1 \in 1..n /\ 1..(i + 1) \in SUBSET (1..n)
    <3>1. n \in Nat
      BY <1>1
    <3> HIDE DEF n
    <3> QED BY <3>1
  <2>2. f[1..(i + 1)] = WithSet(f[1..i], d.src, sq[i + 1])
    <3>1. f[1..(i + 1)] = WithSet(f[1..(i + 1) \ {Max(1..(i + 1))}], d.src,
                                  sq[Max(1..(i + 1))])
      <4>1. 1..(i + 1) # {}
        BY <2>1, UpTo
      <4> HIDE DEF sq, n
      <4> QED BY <1>1, <1>7, <2>1, <4>1
    <3>2. Max(1..(i + 1)) = i + 1 /\ 1..(i + 1) \ {i + 1} = 1..i
      BY <2>1, UpTo
    <3> QED BY <3>1, <3>2
  <2>3. f[1..i] \in A
    BY <1>11
  <2>4. sq[i + 1] \in Sets
    <3> HIDE DEF sq, n
    <3> QED BY <1>1, <2>1
  <2>5. f[1..(i + 1)] \in A
    <3> HIDE DEF P, Z
    <3> QED BY <1>4, <2>2, <2>3, <2>4
  <2> QED BY <2>1, <2>5
<1>12. <<n, f[1..n]>> \in Z
  <2> HIDE DEF Z, n, P
  <2> QED BY <1>1, <1>10, <1>11, FoldReaches
<1>13. f[1..n] \in A
  BY <1>12
<1> QED BY <1>1, <1>8, <1>13 DEF A

-----------------------------------------------------------------------------
(* The collector.                                                          *)

\* What the parsers remember.
ParserInv ==
  /\ now \in Nat /\ templates \in [Keys -> KeptTemplates] /\ buffer \in [Sources -> Seq(Items)]
  /\ log \in Seq(Entries)
  /\ Follows(templates, log, now) /\ Waits(buffer, log)
  /\ Fates(buffer, log, now, decoded) /\ Known(decoded, log)

\* Where the flows are.
PlacesInv ==
  /\ IsFiniteSet(queue)
  /\ \A x \in DOMAIN sent : sent[x] = 1
  /\ \A f, g \in flights : f # g => f.batch \cap g.batch = {}
  /\ decoded = queue \cup InFlight \cup DOMAIN sent \cup dropped \cup broken
  /\ queue \cap InFlight = {} /\ queue \cap DOMAIN sent = {} /\ InFlight \cap DOMAIN sent = {}
  /\ (dropped \cup broken) \cap (queue \cup InFlight) = {}

CollectorInv == ParserInv /\ PlacesInv

\* At the start nothing is known.
LEMMA CollectorInit == CInit => CollectorInv
<1> SUFFICES ASSUME CInit PROVE CollectorInv
  OBVIOUS
<1> USE DEF CInit
<1>1. Len(<<>>) = 0 /\ 1..0 = {} /\ <<>> \in Seq(Items) /\ <<>> \in Seq(Entries)
  OBVIOUS
<1>2. /\ now \in Nat /\ templates \in [Keys -> KeptTemplates] /\ buffer \in [Sources -> Seq(Items)]
      /\ log \in Seq(Entries)
  BY <1>1 DEF KeptTemplates
<1>3. \A s, tid : TemplatesOf(log, s, tid) = {}
  BY <1>1 DEF TemplatesOf
<1>4. Follows(templates, log, now)
  BY <1>3 DEF Follows, Keys
<1>5. Waits(buffer, log)
  BY <1>1, CollectorAssumption DEF Waits
<1>6. Fates(buffer, log, now, decoded) /\ Known(decoded, log)
  BY <1>1 DEF Fates, Known
<1>7. InFlight = {} /\ DOMAIN sent = {}
  BY DEF InFlight, EmptyBag, SetToBag
<1>8. PlacesInv
  BY <1>7, FS_EmptySet DEF PlacesInv
<1> QED BY <1>2, <1>4, <1>5, <1>6, <1>8 DEF CollectorInv, ParserInv

\* A packet is parsed with the templates that have not expired.
LEMMA PacketParsed ==
  ASSUME ParserInv, NEW d \in Datagrams
  PROVE  ParseInv(Parsed(d), decoded, now)
<1> DEFINE tm == Unexpired(templates)
           base == [templates |-> tm, buffer |-> buffer, log |-> log, flows |-> <<>>]
<1> USE DEF ParserInv
<1>1. \A k \in Keys : tm[k] = IF now - templates[k].at > TemplateTtl
                              THEN [layout |-> "none", at |-> 0] ELSE templates[k]
  BY DEF Unexpired
<1>2. tm \in [Keys -> KeptTemplates]
  BY DEF Unexpired, KeptTemplates
<1> HIDE DEF tm
<1>3. Fresh(tm, now)
  <2> SUFFICES ASSUME NEW k \in Keys, tm[k].layout # "none" PROVE now - tm[k].at <= TemplateTtl
    BY DEF Fresh
  <2>1. tm[k] = templates[k] /\ ~(now - templates[k].at > TemplateTtl)
    BY <1>1
  <2>2. templates[k].at \in Nat /\ TemplateTtl \in Nat
    BY CollectorAssumption DEF KeptTemplates
  <2> QED BY <2>1, <2>2
<1>4. Follows(tm, log, now)
  <2> SUFFICES ASSUME NEW s \in Sources, NEW tid \in Tids
               PROVE  LET T == TemplatesOf(log, s, tid)
                      IN  \/ /\ tm[<<s, tid>>].layout = "none"
                             /\ T = {} \/ now - log[Max(T)].at > TemplateTtl
                          \/ /\ T # {}
                             /\ tm[<<s, tid>>] = [layout |-> log[Max(T)].set.layout,
                                                  at |-> log[Max(T)].at]
    BY DEF Follows
  <2> DEFINE T == TemplatesOf(log, s, tid)
             k == <<s, tid>>
  <2>1. k \in Keys
    BY DEF Keys
  <2>2. \/ templates[k].layout = "none" /\ (T = {} \/ now - log[Max(T)].at > TemplateTtl)
        \/ T # {} /\ templates[k] = [layout |-> log[Max(T)].set.layout, at |-> log[Max(T)].at]
    BY DEF Follows
  <2>3. CASE now - templates[k].at > TemplateTtl
    <3>1. tm[k].layout = "none"
      BY <1>1, <2>1, <2>3
    <3> HIDE DEF T, k
    <3>2. T = {} \/ now - log[Max(T)].at > TemplateTtl
      BY <2>2, <2>3
    <3> QED BY <3>1, <3>2 DEF T, k
  <2>4. CASE ~(now - templates[k].at > TemplateTtl)
    <3>1. tm[k] = templates[k]
      BY <1>1, <2>1, <2>4
    <3> QED BY <2>2, <3>1
  <2> QED BY <2>3, <2>4
<1>5. <<>> \in Seq(Nat \X Nat) /\ ToSet(<<>>) = {}
  BY DEF ToSet
<1>6. base \in Working
  BY <1>2, <1>5 DEF Working
<1>7. decoded \cup ToSet(<<>>) = decoded
  BY <1>5
<1>8. ParseInv(base, decoded, now)
  BY <1>3, <1>4, <1>5, <1>6, <1>7 DEF ParseInv
<1> QED BY <1>8, ParsedHolds DEF tm

\* A flow that is taken is one that was parsed.
LEMMA TakenAre ==
  ASSUME NEW S, NEW flows \in Seq(S), NEW m \in Int, m <= Len(flows)
  PROVE  IsFiniteSet(ToSet(SubSeq(flows, 1, m))) /\ ToSet(SubSeq(flows, 1, m)) \subseteq ToSet(flows)
<1> DEFINE t == SubSeq(flows, 1, m)
<1>1. \A i \in 1..m : flows[i] \in ToSet(flows)
  <2>1. Len(flows) \in Nat /\ DOMAIN flows = 1..Len(flows)
    OBVIOUS
  <2>2. \A i \in 1..m : i \in 1..Len(flows)
    BY <2>1
  <2> QED BY <2>1, <2>2 DEF ToSet
<1>2. t \in Seq(ToSet(flows))
  <2> DEFINE U == ToSet(flows)
  <2> HIDE DEF U
  <2>1. \A i \in 1..m : flows[i] \in U
    BY <1>1 DEF U
  <2>2. SubSeq(flows, 1, m) \in Seq(U)
    BY <2>1, SubSeqProperties
  <2> QED BY <2>2 DEF U
<1> HIDE DEF t
<1>3. Len(t) \in Nat /\ t \in [1..Len(t) -> ToSet(flows)]
  BY <1>2
<1>4. ToSet(t) = {t[i] : i \in 1..Len(t)}
  BY <1>3 DEF ToSet
<1>5. ToSet(t) \subseteq ToSet(flows)
  BY <1>3, <1>4
<1>6. IsFiniteSet(ToSet(t))
  <2> DEFINE n == Len(t)
             V == ToSet(t)
  <2>1. \A i \in 1..n : t[i] \in V
    BY <1>4
  <2>2. \A x \in V : \E i \in 1..n : t[i] = x
    BY <1>4
  <2>3. t = [i \in 1..n |-> t[i]]
    BY <1>3
  <2>4. IsFiniteSet(1..n)
    <3>1. 1 \in Int /\ n \in Int
      BY <1>3
    <3> HIDE DEF n, V
    <3> QED BY <3>1, FS_Interval
  <2> HIDE DEF n, V
  <2>5. t \in [1..n -> V]
    BY <2>1, <2>3
  <2>6. t \in Surjection(1..n, V)
    BY <2>2, <2>5 DEF Surjection
  <2>7. IsFiniteSet(V)
    BY <2>4, <2>6, FS_Surjection
  <2> QED BY <2>7 DEF V
<1> QED BY <1>5, <1>6 DEF t

\* What the parsers remember does not depend on the rest.
LEMMA ParsersRest ==
  ParserInv /\ UNCHANGED <<now, templates, buffer, log, decoded>> => ParserInv'
BY DEF ParserInv

\* A template stays expired.
LEMMA FollowsLater ==
  ASSUME NEW tm, NEW lg \in Seq(Entries), NEW t \in Nat, NEW u, u = t + 1, Follows(tm, lg, t)
  PROVE  Follows(tm, lg, u)
<1> SUFFICES ASSUME NEW s \in Sources, NEW tid \in Tids
             PROVE  LET T == TemplatesOf(lg, s, tid)
                    IN  \/ /\ tm[<<s, tid>>].layout = "none"
                           /\ T = {} \/ u - lg[Max(T)].at > TemplateTtl
                        \/ /\ T # {}
                           /\ tm[<<s, tid>>] = [layout |-> lg[Max(T)].set.layout,
                                                at |-> lg[Max(T)].at]
  BY DEF Follows
<1> DEFINE T == TemplatesOf(lg, s, tid)
<1>1. \/ tm[<<s, tid>>].layout = "none" /\ (T = {} \/ t - lg[Max(T)].at > TemplateTtl)
      \/ T # {} /\ tm[<<s, tid>>] = [layout |-> lg[Max(T)].set.layout, at |-> lg[Max(T)].at]
  BY DEF Follows
<1>2. ASSUME T # {}, t - lg[Max(T)].at > TemplateTtl PROVE u - lg[Max(T)].at > TemplateTtl
  <2>1. Max(T) \in T
    <3>1. T \subseteq 1..Len(lg)
      BY DEF TemplatesOf
    <3>2. IsFiniteSet(1..Len(lg)) /\ 1..Len(lg) \subseteq Int
      <4>1. 1 \in Int /\ Len(lg) \in Int
        BY LenProperties
      <4> QED BY <4>1, FS_Interval
    <3> HIDE DEF T
    <3>3. IsFiniteSet(T) /\ T \subseteq Int
      BY <3>1, <3>2, FS_Subset
    <3> QED BY <1>2, <3>3, MaxIs
  <2>2. Max(T) \in 1..Len(lg)
    BY <2>1 DEF TemplatesOf
  <2> HIDE DEF T
  <2>3. lg[Max(T)].at \in Nat
    <3>1. lg[Max(T)] \in Entries
      BY <2>2
    <3> QED BY <3>1 DEF Entries
  <2>4. TemplateTtl \in Nat
    BY CollectorAssumption
  <2> QED BY <1>2, <2>3, <2>4
<1> HIDE DEF T
<1>3. \/ tm[<<s, tid>>].layout = "none" /\ (T = {} \/ u - lg[Max(T)].at > TemplateTtl)
      \/ T # {} /\ tm[<<s, tid>>] = [layout |-> lg[Max(T)].set.layout, at |-> lg[Max(T)].at]
  BY <1>1, <1>2
<1> QED BY <1>3 DEF T

\* An orphan stays too old.
LEMMA FatesLater ==
  ASSUME NEW bf, NEW lg \in Seq(Entries), NEW t \in Nat, NEW u, u = t + 1, NEW dec,
         Fates(bf, lg, t, dec)
  PROVE  Fates(bf, lg, u, dec)
<1>1. ASSUME NEW i \in 1..Len(lg), Pending(bf, lg, t, i) PROVE Pending(bf, lg, u, i)
  <2>1. lg[i].at \in Nat
    <3>1. lg[i] \in Entries
      OBVIOUS
    <3> QED BY <3>1 DEF Entries
  <2>2. OrphanTtl \in Nat
    BY CollectorAssumption
  <2>3. t - lg[i].at > OrphanTtl => u - lg[i].at > OrphanTtl
    BY <2>1, <2>2
  <2> QED BY <1>1, <2>3 DEF Pending
<1> QED BY <1>1 DEF Fates

\* Time passes.
LEMMA TickKeeps == CollectorInv /\ Tick => CollectorInv'
<1> SUFFICES ASSUME CollectorInv, Tick PROVE CollectorInv'
  OBVIOUS
<1> USE DEF CollectorInv
<1>1. /\ now' = now + 1 /\ now \in Nat /\ now' \in Nat /\ log \in Seq(Entries)
      /\ UNCHANGED <<templates, buffer, queue, flights, sent, log, decoded, dropped, broken>>
  BY DEF Tick, ParserInv
<1>2. PlacesInv'
  BY <1>1 DEF PlacesInv, InFlight
<1>3. Follows(templates, log, now + 1)
  BY <1>1, FollowsLater DEF ParserInv
<1>4. Fates(buffer, log, now + 1, decoded)
  BY <1>1, FatesLater DEF ParserInv
<1>5. ParserInv'
  BY <1>1, <1>3, <1>4 DEF ParserInv
<1> QED BY <1>2, <1>5

\* The stream has each flow once if it had none of those that are added.
LEMMA AddedOnce ==
  ASSUME NEW b, \A x \in DOMAIN b : b[x] = 1, NEW S, DOMAIN b \cap S = {}
  PROVE  /\ DOMAIN (b (+) SetToBag(S)) = DOMAIN b \cup S
         /\ \A x \in DOMAIN (b (+) SetToBag(S)) : (b (+) SetToBag(S))[x] = 1
<1> DEFINE c == SetToBag(S)
<1>1. DOMAIN c = S /\ \A x \in S : c[x] = 1
  BY DEF SetToBag
<1> HIDE DEF c
<1>2. b (+) c = [x \in DOMAIN b \cup DOMAIN c |-> (IF x \in DOMAIN b THEN b[x] ELSE 0)
                                                  + (IF x \in DOMAIN c THEN c[x] ELSE 0)]
  BY DEF (+)
<1>3. ASSUME NEW x \in DOMAIN b \cup S PROVE (b (+) c)[x] = 1
  <2>1. (b (+) c)[x] = (IF x \in DOMAIN b THEN b[x] ELSE 0)
                       + (IF x \in DOMAIN c THEN c[x] ELSE 0)
    BY <1>1, <1>2
  <2>2. CASE x \in DOMAIN b
    BY <1>1, <2>1, <2>2
  <2>3. CASE x \in S
    BY <1>1, <2>1, <2>3
  <2> QED BY <2>2, <2>3
<1>4. DOMAIN (b (+) c) = DOMAIN b \cup S
  BY <1>1, <1>2
<1> QED BY <1>3, <1>4 DEF c

\* A flush takes all that is queued.
LEMMA TakeKeeps ==
  ASSUME PlacesInv, NEW by, Take(by), UNCHANGED <<sent, decoded, dropped, broken>>
  PROVE  PlacesInv'
<1> USE DEF PlacesInv
<1>1. queue' = {} /\ IsFiniteSet(queue')
  BY FS_EmptySet DEF Take
<1>2. InFlight' = InFlight \cup queue
  <2>1. flights' = flights \cup Flight(by)
    BY DEF Take
  <2>2. UNION {f.batch : f \in Flight(by)} = queue
    <3>1. CASE queue = {}
      BY <3>1 DEF Flight
    <3>2. CASE queue # {}
      <4>1. Flight(by) = {[by |-> by, batch |-> queue]}
        BY <3>2 DEF Flight
      <4> QED BY <4>1
    <3> QED BY <3>1, <3>2
  <2> QED BY <2>1, <2>2 DEF InFlight
<1>3. \A f \in flights : f.batch \cap queue = {}
  BY DEF InFlight
<1>4. \A f \in Flight(by) : f.batch = queue
  BY DEF Flight
<1>5. \A f, g \in Flight(by) : f = g
  BY DEF Flight
<1>6. ASSUME NEW f \in flights', NEW g \in flights', f # g PROVE f.batch \cap g.batch = {}
  <2>1. f \in flights \cup Flight(by) /\ g \in flights \cup Flight(by)
    BY DEF Take
  <2>2. \A h, k \in flights : h # k => h.batch \cap k.batch = {}
    OBVIOUS
  <2> QED BY <1>3, <1>4, <1>5, <1>6, <2>1, <2>2
<1>7. \A x \in DOMAIN sent' : sent'[x] = 1
  OBVIOUS
<1> QED BY <1>1, <1>2, <1>6, <1>7

\* Batches leave the air: what they hold is sent or lost, or both.
LEMMA LandingKeeps ==
  ASSUME PlacesInv, NEW gone, gone \subseteq flights, flights' = flights \ gone,
         NEW done, done \subseteq gone, NEW lost, lost \subseteq gone, gone = done \cup lost,
         \/ sent' = sent (+) SetToBag(UNION {f.batch : f \in done})
         \/ done = {} /\ sent' = sent,
         broken' = broken \cup UNION {f.batch : f \in lost},
         UNCHANGED <<queue, decoded, dropped>>
  PROVE  PlacesInv'
<1> USE DEF PlacesInv
<1> DEFINE S == UNION {f.batch : f \in done}
           L == UNION {f.batch : f \in lost}
<1>1. S \subseteq InFlight /\ L \subseteq InFlight
  BY DEF InFlight
<1>2. \A f, g \in flights : f # g => f.batch \cap g.batch = {}
  OBVIOUS
<1>3. InFlight' \cap (S \cup L) = {}
  BY <1>2 DEF InFlight
<1>4. InFlight = InFlight' \cup S \cup L
  BY DEF InFlight
<1>5. /\ sent' = sent (+) SetToBag(S) \/ (S = {} /\ sent' = sent)
      /\ broken' = broken \cup L
  <2>1. done = {} => S = {}
    OBVIOUS
  <2> QED BY <2>1
<1> HIDE DEF S, L
<1>6. DOMAIN sent' = DOMAIN sent \cup S /\ \A x \in DOMAIN sent' : sent'[x] = 1
  <2>1. DOMAIN sent \cap S = {} /\ \A x \in DOMAIN sent : sent[x] = 1
    BY <1>1
  <2>2. CASE sent' = sent (+) SetToBag(S)
    <3> DEFINE b == sent (+) SetToBag(S)
    <3>1. DOMAIN b = DOMAIN sent \cup S /\ \A x \in DOMAIN b : b[x] = 1
      BY <2>1, AddedOnce
    <3> HIDE DEF b
    <3>2. sent' = b
      BY <2>2 DEF b
    <3> QED BY <3>1, <3>2
  <2>3. CASE S = {} /\ sent' = sent
    BY <2>1, <2>3
  <2> QED BY <1>5, <2>2, <2>3
<1>7. decoded' = queue' \cup InFlight' \cup DOMAIN sent' \cup dropped' \cup broken'
  BY <1>4, <1>5, <1>6
<1>8. /\ queue' \cap InFlight' = {} /\ queue' \cap DOMAIN sent' = {}
      /\ InFlight' \cap DOMAIN sent' = {}
  BY <1>1, <1>3, <1>4, <1>6
<1>9. (dropped' \cup broken') \cap (queue' \cup InFlight') = {}
  BY <1>1, <1>3, <1>4, <1>5
<1>10. \A f, g \in flights' : f # g => f.batch \cap g.batch = {}
  BY <1>2
<1>11. IsFiniteSet(queue')
  OBVIOUS
<1> QED BY <1>6, <1>7, <1>8, <1>9, <1>10, <1>11

\* A packet's flows are new: they wait, or there is no room.
LEMMA PacketKeeps == ASSUME CollectorInv, NEW d \in Datagrams, Packet(d) PROVE CollectorInv'
<1> DEFINE p == Parsed(d)
           F == ToSet(p.flows)
           room == MaxQueue - Cardinality(queue)
           m == IF Len(p.flows) > room THEN room ELSE Len(p.flows)
           taken == ToSet(SubSeq(p.flows, 1, m))
<1>1. ParserInv /\ PlacesInv
  BY DEF CollectorInv
<1>2. ParseInv(p, decoded, now)
  BY <1>1, PacketParsed
<1>3. /\ templates' = p.templates /\ buffer' = p.buffer /\ log' = p.log
      /\ queue' = queue \cup taken /\ decoded' = decoded \cup F
      /\ dropped' = dropped \cup (F \ taken)
      /\ UNCHANGED <<now, flights, sent, broken>>
  BY DEF Packet
<1> HIDE DEF p
<1>4. p.flows \in Seq(Nat \X Nat) /\ F \cap decoded = {}
  BY <1>2 DEF ParseInv, Working
<1>5. m \in Int /\ m <= Len(p.flows)
  <2>1. MaxQueue \in Nat /\ Cardinality(queue) \in Nat /\ Len(p.flows) \in Nat
    BY <1>1, <1>4, CollectorAssumption, FS_CardinalityType DEF PlacesInv
  <2> QED BY <2>1
<1> HIDE DEF m
<1>6. IsFiniteSet(taken) /\ taken \subseteq F
  BY <1>4, <1>5, TakenAre
<1> HIDE DEF taken, F
<1>7. PlacesInv'
  <2> USE <1>1 DEF PlacesInv
  <2>1. InFlight' = InFlight
    BY <1>3 DEF InFlight
  <2>2. IsFiniteSet(queue')
    BY <1>3, <1>6, FS_Union
  <2>3. decoded' = queue' \cup InFlight' \cup DOMAIN sent' \cup dropped' \cup broken'
    BY <1>3, <1>6, <2>1
  <2>4. F \cap (queue \cup InFlight \cup DOMAIN sent \cup dropped \cup broken) = {}
    BY <1>4
  <2>5. /\ queue' \cap InFlight' = {} /\ queue' \cap DOMAIN sent' = {}
        /\ InFlight' \cap DOMAIN sent' = {}
    BY <1>3, <1>6, <2>1, <2>4
  <2>6. (dropped' \cup broken') \cap (queue' \cup InFlight') = {}
    BY <1>3, <1>6, <2>1, <2>4
  <2>7. /\ \A x \in DOMAIN sent' : sent'[x] = 1
        /\ \A f, g \in flights' : f # g => f.batch \cap g.batch = {}
    BY <1>3
  <2> QED BY <2>2, <2>3, <2>5, <2>6, <2>7
<1>8. ParserInv'
  <2>1. p \in Working /\ now \in Nat
    BY <1>1, <1>2 DEF ParseInv, ParserInv
  <2>2. /\ templates' \in [Keys -> KeptTemplates] /\ buffer' \in [Sources -> Seq(Items)]
        /\ log' \in Seq(Entries)
    BY <1>3, <2>1 DEF Working
  <2>3. /\ Follows(p.templates, p.log, now) /\ Waits(p.buffer, p.log)
        /\ Fates(p.buffer, p.log, now, decoded \cup F) /\ Known(decoded \cup F, p.log)
    BY <1>2 DEF ParseInv, F
  <2> QED BY <1>3, <2>1, <2>2, <2>3 DEF ParserInv
<1> QED BY <1>7, <1>8 DEF CollectorInv

\* A flush takes the queue, or its batch ends.
LEMMA FlushKeeps ==
  ASSUME CollectorInv, RunTask \/ Wake \/ Close \/ (\E f \in flights : Answer(f) \/ RedisError(f))
  PROVE  CollectorInv'
<1>1. ParserInv /\ PlacesInv
  BY DEF CollectorInv
<1>2. CASE RunTask
  <2>1. Take("task") /\ UNCHANGED <<now, templates, buffer, log, decoded, sent, dropped, broken>>
    BY <1>2 DEF RunTask
  <2> QED BY <1>1, <2>1, TakeKeeps, ParsersRest DEF CollectorInv
<1>3. CASE Wake
  <2>1. Take("loop") /\ UNCHANGED <<now, templates, buffer, log, decoded, sent, dropped, broken>>
    BY <1>3 DEF Wake
  <2> QED BY <1>1, <2>1, TakeKeeps, ParsersRest DEF CollectorInv
<1>4. CASE Close
  <2>1. Take("stop") /\ UNCHANGED <<now, templates, buffer, log, decoded, sent, dropped, broken>>
    BY <1>4 DEF Close
  <2> QED BY <1>1, <2>1, TakeKeeps, ParsersRest DEF CollectorInv
<1>5. ASSUME NEW f \in flights, Answer(f) PROVE CollectorInv'
  <2>1. /\ sent' = sent (+) SetToBag(f.batch) /\ flights' = flights \ {f}
        /\ UNCHANGED <<queue, broken, decoded, dropped>>
        /\ UNCHANGED <<now, templates, buffer, log, decoded>>
    BY <1>5 DEF Answer, Landed
  <2>2. UNION {g.batch : g \in {f}} = f.batch /\ UNION {g.batch : g \in {}} = {}
    OBVIOUS
  <2>3. PlacesInv'
    <3> DEFINE gone == {f}
               lost == {}
    <3>1. /\ gone \subseteq flights /\ flights' = flights \ gone /\ gone \subseteq gone
          /\ lost \subseteq gone /\ gone = gone \cup lost
          /\ sent' = sent (+) SetToBag(UNION {g.batch : g \in gone})
          /\ broken' = broken \cup UNION {g.batch : g \in lost}
      BY <2>1, <2>2
    <3> HIDE DEF gone, lost
    <3> QED BY <1>1, <2>1, <3>1, LandingKeeps
  <2> QED BY <1>1, <2>1, <2>3, ParsersRest DEF CollectorInv
<1>6. ASSUME NEW f \in flights, RedisError(f) PROVE CollectorInv'
  <2>1. /\ sent' \in {sent, sent (+) SetToBag(f.batch)} /\ flights' = flights \ {f}
        /\ broken' = broken \cup f.batch
        /\ UNCHANGED <<queue, decoded, dropped>>
        /\ UNCHANGED <<now, templates, buffer, log, decoded>>
    BY <1>6 DEF RedisError, Landed
  <2>2. UNION {g.batch : g \in {f}} = f.batch
    OBVIOUS
  <2>3. PlacesInv'
    <3> DEFINE gone == {f}
    <3>1. /\ gone \subseteq flights /\ flights' = flights \ gone
          /\ broken' = broken \cup UNION {g.batch : g \in gone}
      BY <2>1, <2>2
    <3>2. PICK done : /\ done \subseteq gone
                      /\ \/ sent' = sent (+) SetToBag(UNION {g.batch : g \in done})
                         \/ done = {} /\ sent' = sent
      <4>1. CASE sent' = sent
        BY <4>1
      <4>2. CASE sent' = sent (+) SetToBag(f.batch)
        BY <2>2, <4>2
      <4> QED BY <2>1, <4>1, <4>2
    <3> HIDE DEF gone
    <3>3. gone = done \cup gone
      BY <3>2
    <3> QED BY <1>1, <2>1, <3>1, <3>2, <3>3, LandingKeeps
  <2> QED BY <1>1, <2>1, <2>3, ParsersRest DEF CollectorInv
<1> QED BY <1>2, <1>3, <1>4, <1>5, <1>6

\* The daemon stops: batches are cut off.
LEMMA EndingKeeps == CollectorInv /\ (StopCollector \/ ExitCollector) => CollectorInv'
<1> SUFFICES ASSUME CollectorInv, StopCollector \/ ExitCollector PROVE CollectorInv'
  OBVIOUS
<1>1. ParserInv /\ PlacesInv
  BY DEF CollectorInv
<1>2. CASE StopCollector
  <2> DEFINE cut == {f \in flights : f.by = "loop"}
  <2>1. /\ flights' = flights \ cut /\ broken' = broken \cup UNION {f.batch : f \in cut}
        /\ sent' \in {sent, sent (+) SetToBag(UNION {f.batch : f \in cut})}
        /\ UNCHANGED <<queue, decoded, dropped>>
        /\ UNCHANGED <<now, templates, buffer, log, decoded>>
    BY <1>2 DEF StopCollector
  <2>2. cut \subseteq flights
    OBVIOUS
  <2> HIDE DEF cut
  <2>3. PICK done : /\ done \subseteq cut
                    /\ \/ sent' = sent (+) SetToBag(UNION {f.batch : f \in done})
                       \/ done = {} /\ sent' = sent
    <3>1. CASE sent' = sent
      BY <3>1
    <3>2. CASE sent' = sent (+) SetToBag(UNION {f.batch : f \in cut})
      BY <3>2
    <3> QED BY <2>1, <3>1, <3>2
  <2>4. cut = done \cup cut /\ cut \subseteq cut
    BY <2>3
  <2>5. PlacesInv'
    BY <1>1, <2>1, <2>2, <2>3, <2>4, LandingKeeps
  <2> QED BY <1>1, <2>1, <2>5, ParsersRest DEF CollectorInv
<1>3. CASE ExitCollector
  <2>1. /\ \E done \in SUBSET flights :
             sent' = sent (+) SetToBag(UNION {f.batch : f \in done})
        /\ broken' = broken \cup UNION {f.batch : f \in flights}
        /\ flights' = {}
        /\ UNCHANGED <<queue, decoded, dropped>>
        /\ UNCHANGED <<now, templates, buffer, log, decoded>>
    BY <1>3 DEF ExitCollector
  <2>2. PICK done \in SUBSET flights :
          sent' = sent (+) SetToBag(UNION {f.batch : f \in done})
    BY <2>1
  <2>3. /\ flights' = flights \ flights /\ flights \subseteq flights /\ done \subseteq flights
        /\ flights = done \cup flights
    BY <2>1
  <2>4. PlacesInv'
    BY <1>1, <2>1, <2>2, <2>3, LandingKeeps
  <2> QED BY <1>1, <2>1, <2>4, ParsersRest DEF CollectorInv
<1> QED BY <1>2, <1>3

\* Every step keeps what the parsers remember and where the flows are.
LEMMA CollectorStep == CollectorInv /\ [CNext]_cvars => CollectorInv'
<1> SUFFICES ASSUME CollectorInv, [CNext]_cvars PROVE CollectorInv'
  OBVIOUS
<1>1. CASE UNCHANGED cvars
  <2>1. PlacesInv'
    BY <1>1 DEF CollectorInv, PlacesInv, InFlight, cvars
  <2> QED BY <1>1, <2>1, ParsersRest DEF CollectorInv, cvars
<1>2. CASE CNext
  BY <1>2, PacketKeeps, FlushKeeps, EndingKeeps, TickKeeps DEF CNext, Answered
<1> QED BY <1>1, <1>2

\* What the parsers remember is what was received (Follows, Waits), the fate of every data
\* set so far is the one it must have, and every flow is in one place (monitoring/flow/
\* collector.py and the parsers): the inductive invariant of the collector.
THEOREM CollectorInvariant == CSpec => []CollectorInv
BY CollectorInit, CollectorStep, PTL DEF CSpec

\* Every flow that was decoded waits in the queue, is on its way or in the stream, once and
\* in one of these places only, unless the queue was full or its batch broken: handle_packet,
\* _flush_batch and stop of collector.py lose and repeat nothing else.
THEOREM CollectorKeepsFlows == CSpec => []FlowsAreKept
<1>1. CollectorInv => FlowsAreKept
  <2> SUFFICES ASSUME PlacesInv PROVE FlowsAreKept
    BY DEF CollectorInv
  <2> USE DEF PlacesInv
  <2>1. \A x : TimesSent(x) = IF x \in DOMAIN sent THEN 1 ELSE 0
    BY DEF TimesSent, BagIn, BagToSet
  <2>2. ASSUME NEW x \in decoded, x \notin dropped \cup broken
        PROVE  Cardinality({p \in {"queue"} : x \in queue})
                 + Cardinality({f \in flights : x \in f.batch}) + TimesSent(x) = 1
    <3> DEFINE Q == {p \in {"queue"} : x \in queue}
               B == {f \in flights : x \in f.batch}
    <3>1. Cardinality(Q) = IF x \in queue THEN 1 ELSE 0
      <4>1. CASE x \in queue
        <5>1. Q = {"queue"}
          BY <4>1
        <5> HIDE DEF Q
        <5> QED BY <4>1, <5>1, FS_Singleton
      <4>2. CASE x \notin queue
        <5>1. Q = {}
          BY <4>2
        <5> HIDE DEF Q
        <5> QED BY <4>2, <5>1, FS_EmptySet
      <4> QED BY <4>1, <4>2
    <3>2. Cardinality(B) = IF x \in InFlight THEN 1 ELSE 0
      <4>1. CASE x \in InFlight
        <5>1. PICK f \in flights : x \in f.batch
          BY <4>1 DEF InFlight
        <5>2. B = {f}
          BY <5>1
        <5> HIDE DEF B
        <5> QED BY <4>1, <5>2, FS_Singleton
      <4>2. CASE x \notin InFlight
        <5>1. B = {}
          BY <4>2 DEF InFlight
        <5> HIDE DEF B
        <5> QED BY <4>2, <5>1, FS_EmptySet
      <4> QED BY <4>1, <4>2
    <3>3. x \in queue \/ x \in InFlight \/ x \in DOMAIN sent
      BY <2>2
    <3>4. /\ ~(x \in queue /\ x \in InFlight) /\ ~(x \in queue /\ x \in DOMAIN sent)
          /\ ~(x \in InFlight /\ x \in DOMAIN sent)
      OBVIOUS
    <3> HIDE DEF Q, B, PlacesInv
    <3>5. Cardinality(Q) + Cardinality(B) + TimesSent(x) = 1
      BY <2>1, <3>1, <3>2, <3>3, <3>4
    <3> QED BY <3>5 DEF Q, B
  <2>3. ASSUME NEW x \in dropped \cup broken
        PROVE  x \notin queue \cup InFlight /\ TimesSent(x) <= 1
    BY <2>1
  <2> QED BY <2>2, <2>3 DEF FlowsAreKept
<1> QED BY <1>1, CollectorInvariant, PTL

\* A data set is decoded when it arrives if its template is known, and else as soon as the
\* template comes, if that is in time and fewer sets than the buffer holds came without a
\* template in between; no other set is decoded: _drain_orphans, the orphan buffers and
\* _cleanup_expired of the two parsers.
THEOREM CollectorDecodesOrphans == CSpec => []OrphansAreDecoded
<1>1. CollectorInv => OrphansAreDecoded
  <2> SUFFICES ASSUME ParserInv PROVE OrphansAreDecoded
    BY DEF CollectorInv
  <2>1. Fates(buffer, log, now, decoded) /\ Known(decoded, log)
    BY DEF ParserInv
  <2>2. ASSUME NEW i \in 1..Len(log)
        PROVE  /\ Current(i) = CurrentIn(log, i) /\ Rescuer(i) = RescuerIn(log, i)
               /\ Orphan(i) <=> OrphanIn(log, i)
               /\ \A layout : Whole(i, layout) <=> WholeIn(log, decoded, i, layout)
               /\ \A k : Rivals(i, k) = RivalsIn(log, i, k)
    <3>1. TemplatesFor(i) = TemplatesFrom(log, i)
      BY DEF TemplatesFor, TemplatesFrom, TemplatesOf, Same
    <3>2. \A j : Current(j) = CurrentIn(log, j)
      BY DEF Current, CurrentIn, Before, TemplatesFor, TemplatesFrom, TemplatesOf, Same
    <3>3. \A j : Orphan(j) <=> OrphanIn(log, j)
      BY <3>2 DEF Orphan, OrphanIn, IsData
    <3>4. Rescuer(i) = RescuerIn(log, i)
      BY <3>1 DEF Rescuer, RescuerIn, After
    <3>5. \A layout : Whole(i, layout) <=> WholeIn(log, decoded, i, layout)
      BY DEF Whole, WholeIn
    <3>6. \A k : Rivals(i, k) = RivalsIn(log, i, k)
      BY <3>3 DEF Rivals, RivalsIn
    <3> QED BY <3>2, <3>3, <3>4, <3>5, <3>6
  <2>3. ASSUME NEW i \in 1..Len(log), IsData(i)
        PROVE  /\ Usable(Current(i)) => Whole(i, Current(i))
               /\ Orphan(i) => \A k \in Rescuer(i) :
                    Cardinality(Rivals(i, k)) < Orphans => Whole(i, log[k].set.layout)
    <3>1. /\ Usable(CurrentIn(log, i)) => WholeIn(log, decoded, i, CurrentIn(log, i))
          /\ OrphanIn(log, i) => \A k \in RescuerIn(log, i) :
               Cardinality(RivalsIn(log, i, k)) < Orphans
                 => WholeIn(log, decoded, i, log[k].set.layout)
      BY <2>1, <2>3 DEF Fates, IsData
    <3> QED BY <2>2, <3>1
  <2>4. ASSUME NEW x \in decoded, Orphan(x[1]) PROVE Rescuer(x[1]) # {}
    <3>1. x[1] \in 1..Len(log) /\ (OrphanIn(log, x[1]) => RescuerIn(log, x[1]) # {})
      BY <2>1 DEF Known
    <3> QED BY <2>2, <2>4, <3>1
  <2> QED BY <2>3, <2>4 DEF OrphansAreDecoded
<1> QED BY <1>1, CollectorInvariant, PTL
=============================================================================
