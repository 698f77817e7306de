------------------------ MODULE AlertElectionProofs ------------------------
(***************************************************************************)
(* Proofs about AlertElection, for every set of workers and any number of  *)
(* events and upsets.                                                      *)
(***************************************************************************)
EXTENDS AlertElection, SequenceTheorems, TLAPS

Inv == TypeOK /\ LockInv /\ HeardInv

\* No worker runs at the start.
LEMMA InitInv == Init => Inv
<1> SUFFICES ASSUME Init PROVE Inv
  OBVIOUS
<1>1. TypeOK
  BY ElectionAssumption DEF Init, TypeOK
<1>2. LockInv
  BY DEF Init, LockInv, Alerting
<1>3. HeardInv
  BY DEF Init, HeardInv
<1> QED BY <1>1, <1>2, <1>3 DEF Inv

\* A queue without its first event holds events it held before.
LEMMA TailOfQueue ==
  ASSUME NEW q \in Seq(Events), q # <<>>
  PROVE  /\ Head(q) \in Events /\ Tail(q) \in Seq(Events)
         /\ Len(Tail(q)) = Len(q) - 1 /\ Len(q) >= 1 /\ q[1] = Head(q)
         /\ \A i \in 1..Len(Tail(q)) : i + 1 \in 1..Len(q) /\ Tail(q)[i] = q[i + 1]
BY HeadTailProperties

\* A queue with one more event holds that event after those it held before.
LEMMA AppendToQueue ==
  ASSUME NEW q \in Seq(Events), NEW e \in Events
  PROVE  /\ Append(q, e) \in Seq(Events) /\ Len(q) \in Nat
         /\ Len(Append(q, e)) = Len(q) + 1 /\ Append(q, e)[Len(q) + 1] = e
         /\ \A j \in 1..Len(q) : Append(q, e)[j] = q[j] /\ q[j] \in Events
OBVIOUS

\* An upset keeps its history's type.
LEMMA UpsetTypes ==
  ASSUME TypeOK, NEW kind, Upset(kind)
  PROVE  upsets' \in Nat /\ seen' \subseteq UpsetKinds /\ seen \subseteq seen'
BY ElectionAssumption DEF TypeOK, Upset

\* Every step keeps the types.
LEMMA StepTypes == ASSUME TypeOK, [Next]_vars PROVE TypeOK'
<1> USE ElectionAssumption DEF TypeOK
<1>1. ASSUME NEW w \in Workers, Start(w) PROVE TypeOK'
  BY <1>1 DEF Start
<1>2. ASSUME NEW w \in Workers, TryLock(w),
             UNCHANGED <<listening, deaf, queue, flying, published, heard, sent, upsets, seen>>
      PROVE  TypeOK'
  BY <1>2 DEF TryLock
<1>3. ASSUME NEW w \in Workers, Elect(w) \/ Retry(w) PROVE TypeOK'
  BY <1>2, <1>3 DEF Elect, Retry
<1>4. ASSUME NEW w \in Workers, ElectFails(w) \/ SessionDies(w) \/ Unsubscribed(w) \/ Deafened(w)
                              \/ Stop(w)
      PROVE  TypeOK'
  <2>1. upsets' \in Nat /\ seen' \subseteq UpsetKinds
    BY <1>4, UpsetTypes DEF ElectFails, SessionDies, Unsubscribed, Deafened, Stop
  <2>2. phase' \in [Workers -> {"down", "starting", "standby", "leader", "closing", "closed"}]
    BY <1>4 DEF ElectFails, SessionDies, Unsubscribed, Deafened, Stop
  <2>3. lock' \subseteq Workers /\ listening' \subseteq Workers /\ deaf' \subseteq Workers
    BY <1>4 DEF ElectFails, SessionDies, Unsubscribed, Deafened, Stop
  <2>4. UNCHANGED <<queue, flying, published, heard, sent>>
    BY <1>4 DEF ElectFails, SessionDies, Unsubscribed, Deafened, Stop
  <2> QED BY <2>1, <2>2, <2>3, <2>4
<1>5. ASSUME NEW w \in Workers, Subscribe(w) PROVE TypeOK'
  BY <1>5 DEF Subscribe
<1>6. ASSUME NEW w \in Workers, Dequeue(w) PROVE TypeOK'
  <2>1. queue[w] \in Seq(Events) /\ queue[w] # <<>>
    BY <1>6 DEF Dequeue
  <2>2. /\ Head(queue[w]) \in Events /\ Tail(queue[w]) \in Seq(Events)
        /\ Len(Tail(queue[w])) <= Capacity
    BY <2>1, TailOfQueue
  <2> QED BY <1>6, <2>2 DEF Dequeue
<1>7. ASSUME NEW w \in Workers, Dispatch(w) PROVE TypeOK'
  <2>1. PICK e \in flying[w] : /\ flying' = [flying EXCEPT ![w] = @ \ {e}]
                               /\ sent' = [sent EXCEPT ![e] = @ \cup {w}]
    BY <1>7 DEF Dispatch
  <2>2. sent' \in [Events -> SUBSET Workers] /\ flying' \in [Workers -> SUBSET Events]
    BY <2>1
  <2> QED BY <1>7, <2>2 DEF Dispatch
<1>8. ASSUME NEW w \in Workers, Cancel(w) PROVE TypeOK'
  BY <1>8 DEF Cancel
<1>9. ASSUME NEW w \in Workers, Unlock(w) PROVE TypeOK'
  BY <1>9 DEF Unlock
<1>10. ASSUME NEW w \in Workers, Crash(w) PROVE TypeOK'
  <2>1. upsets' \in Nat /\ seen' \subseteq UpsetKinds
    BY <1>10, UpsetTypes DEF Crash
  <2>2. /\ queue' = [queue EXCEPT ![w] = <<>>] /\ flying' = [flying EXCEPT ![w] = {}]
        /\ phase' = [phase EXCEPT ![w] = "down"]
        /\ lock' \subseteq lock /\ listening' \subseteq listening /\ deaf' \subseteq deaf
        /\ UNCHANGED <<published, heard, sent>>
    BY <1>10 DEF Crash
  <2> QED BY <2>1, <2>2
<1>11. CASE Publish
  <2> DEFINE e == published + 1
  <2>1. e \in Events /\ published' = e
    BY <1>11 DEF Publish, Events
  <2>2. Takers \subseteq Workers /\ \A w \in Takers : Len(queue[w]) < Capacity
    BY DEF Takers
  <2>3. \A w \in Workers : /\ queue'[w] = IF w \in Takers THEN Append(queue[w], e) ELSE queue[w]
                           /\ queue[w] \in Seq(Events) /\ Len(queue[w]) <= Capacity
    BY <1>11 DEF Publish
  <2>4. \A w \in Workers : queue'[w] \in Seq(Events) /\ Len(queue'[w]) <= Capacity
    <3> SUFFICES ASSUME NEW w \in Workers
                 PROVE  queue'[w] \in Seq(Events) /\ Len(queue'[w]) <= Capacity
      OBVIOUS
    <3>1. queue[w] \in Seq(Events)
      BY <2>3
    <3>2. /\ Append(queue[w], e) \in Seq(Events) /\ Len(Append(queue[w], e)) = Len(queue[w]) + 1
          /\ Len(queue[w]) \in Nat
      BY <2>1, <3>1, AppendToQueue
    <3>3. CASE w \in Takers
      <4>1. queue'[w] = Append(queue[w], e) /\ Len(queue[w]) < Capacity
        BY <2>2, <2>3, <3>3
      <4> QED BY <3>2, <4>1
    <3>4. CASE w \notin Takers
      BY <2>3, <3>4
    <3> QED BY <3>3, <3>4
  <2>5. queue' = [w \in Workers |-> queue'[w]]
    BY <1>11 DEF Publish
  <2>6. queue' \in [Workers -> Seq(Events)]
    BY <2>4, <2>5
  <2>7. heard' \in [Events -> SUBSET Workers]
    BY <1>11, <2>1, <2>2 DEF Publish
  <2> QED BY <1>11, <2>1, <2>4, <2>6, <2>7 DEF Publish, Events
<1>12. CASE UNCHANGED vars
  BY <1>12 DEF vars
<1> QED BY <1>1, <1>3, <1>4, <1>5, <1>6, <1>7, <1>8, <1>9, <1>10, <1>11, <1>12
        DEF Next, Work

\* Every step keeps the lock with whoever alerts.
LEMMA StepLock == ASSUME TypeOK, LockInv, [Next]_vars PROVE LockInv'
<1> USE DEF TypeOK, LockInv, Alerting
<1>1. ASSUME NEW w \in Workers, TryLock(w), UNCHANGED seen PROVE LockInv'
  BY <1>1 DEF TryLock
<1>2. ASSUME NEW w \in Workers, Start(w) \/ Elect(w) \/ Retry(w) PROVE LockInv'
  BY <1>1, <1>2 DEF Start, Elect, Retry
<1>3. ASSUME NEW w \in Workers, ElectFails(w) \/ Unsubscribed(w) \/ Deafened(w)
                              \/ Stop(w) PROVE LockInv'
  BY <1>3 DEF ElectFails, Unsubscribed, Deafened, Stop, Upset
<1>4. ASSUME NEW w \in Workers, SessionDies(w) PROVE LockInv'
  BY <1>4 DEF SessionDies, Upset
<1>5. ASSUME NEW w \in Workers, Subscribe(w) \/ Dequeue(w) \/ Dispatch(w) PROVE LockInv'
  BY <1>5 DEF Subscribe, Dequeue, Dispatch
<1>6. ASSUME NEW w \in Workers, Cancel(w) \/ Unlock(w) PROVE LockInv'
  <2>1. /\ phase' = [phase EXCEPT ![w] = IF @ = "closing" THEN "closed" ELSE "down"]
        /\ lock \ {w} \subseteq lock' /\ lock' \subseteq lock /\ seen' = seen
    BY <1>6 DEF Cancel, Unlock
  <2> QED BY <1>6, <2>1
<1>7. ASSUME NEW w \in Workers, Crash(w) PROVE LockInv'
  BY <1>7 DEF Crash, Upset
<1>8. CASE Publish
  BY <1>8 DEF Publish
<1>9. CASE UNCHANGED vars
  BY <1>9 DEF vars
<1> QED BY <1>2, <1>3, <1>4, <1>5, <1>6, <1>7, <1>8, <1>9 DEF Next, Work

\* Every step keeps what is queued, dispatched or sent among what was heard.
LEMMA StepHeard == ASSUME Inv, [Next]_vars PROVE HeardInv'
<1> USE DEF Inv, HeardInv
<1>1. ASSUME UNCHANGED <<queue, flying, published, heard, sent>>, seen \subseteq seen'
      PROVE  HeardInv'
  BY <1>1
<1>2. ASSUME NEW w \in Workers,
             Start(w) \/ Elect(w) \/ Retry(w) \/ Subscribe(w)
      PROVE  HeardInv'
  BY <1>1, <1>2 DEF Start, Elect, Retry, Subscribe
<1>3. ASSUME NEW w \in Workers, ElectFails(w) \/ SessionDies(w) \/ Unsubscribed(w) \/ Deafened(w)
                              \/ Stop(w)
      PROVE  HeardInv'
  BY <1>1, <1>3 DEF ElectFails, SessionDies, Unsubscribed, Deafened, Stop, Upset
<1>4. ASSUME NEW w \in Workers, Dequeue(w) PROVE HeardInv'
  <2>1. queue[w] \in Seq(Events) /\ queue[w] # <<>>
    BY <1>4 DEF Dequeue, TypeOK
  <2>2. /\ 1 \in 1..Len(queue[w]) /\ queue[w][1] = Head(queue[w])
        /\ \A i \in 1..Len(Tail(queue[w])) :
             i + 1 \in 1..Len(queue[w]) /\ Tail(queue[w])[i] = queue[w][i + 1]
    BY <2>1, TailOfQueue
  <2>3. w \in heard[Head(queue[w])]
    BY <2>2
  <2>4. \A v \in Workers : /\ queue'[v] = IF v = w THEN Tail(queue[w]) ELSE queue[v]
                           /\ flying'[v] = IF v = w THEN flying[w] \cup {Head(queue[w])}
                                                    ELSE flying[v]
    BY <1>4 DEF Dequeue, TypeOK
  <2>5. ASSUME NEW v \in Workers, NEW i \in 1..Len(queue'[v]) PROVE v \in heard[queue'[v][i]]
    <3>1. CASE v = w
      <4>1. queue'[v] = Tail(queue[v])
        BY <2>4, <3>1
      <4>2. i + 1 \in 1..Len(queue[v]) /\ queue'[v][i] = queue[v][i + 1]
        BY <2>2, <2>5, <3>1, <4>1
      <4> QED BY <4>2
    <3>2. CASE v # w
      BY <2>4, <2>5, <3>2
    <3> QED BY <3>1, <3>2
  <2>6. \A v \in Workers : \A e \in flying'[v] : v \in heard[e]
    BY <2>3, <2>4
  <2> QED BY <1>4, <2>5, <2>6 DEF Dequeue
<1>5. ASSUME NEW w \in Workers, Dispatch(w) PROVE HeardInv'
  <2>1. PICK e \in flying[w] : /\ flying' = [flying EXCEPT ![w] = @ \ {e}]
                               /\ sent' = [sent EXCEPT ![e] = @ \cup {w}]
    BY <1>5 DEF Dispatch
  <2>2. \A f \in Events : sent'[f] \subseteq heard[f]
    BY <2>1 DEF TypeOK
  <2>3. \A v \in Workers : flying'[v] \subseteq flying[v]
    BY <2>1 DEF TypeOK
  <2> QED BY <1>5, <2>2, <2>3 DEF Dispatch
<1>6. ASSUME NEW w \in Workers, Cancel(w) PROVE HeardInv'
  BY <1>6 DEF Cancel, TypeOK
<1>7. ASSUME NEW w \in Workers, Unlock(w) PROVE HeardInv'
  <2>1. \A v \in Workers : queue'[v] = IF v = w THEN <<>> ELSE queue[v]
    BY <1>7 DEF Unlock, TypeOK
  <2> QED BY <1>7, <2>1 DEF Unlock
<1>8. ASSUME NEW w \in Workers, Crash(w) PROVE HeardInv'
  <2>1. \A v \in Workers : /\ queue'[v] = IF v = w THEN <<>> ELSE queue[v]
                           /\ flying'[v] = IF v = w THEN {} ELSE flying[v]
    BY <1>8 DEF Crash, TypeOK
  <2> QED BY <1>8, <2>1 DEF Crash, Upset
<1>9. CASE Publish
  <2> DEFINE n == published + 1
  <2>1. n \in Events /\ n > published /\ published' = n /\ published \in Nat
    BY <1>9, ElectionAssumption DEF Publish, Events, TypeOK
  <2>2. heard[n] = {} /\ sent[n] = {}
    BY <2>1
  <2>3. \A e \in Events : heard'[e] = IF e = n THEN Takers ELSE heard[e]
    BY <1>9, <2>1 DEF Publish, TypeOK
  <2>4. \A v \in Workers :
          /\ queue[v] \in Seq(Events) /\ flying[v] \subseteq Events
          /\ queue'[v] = IF v \in Takers THEN Append(queue[v], n) ELSE queue[v]
    BY <1>9 DEF Publish, TypeOK
  <2>5. \A v \in Workers : \A e \in flying[v] : v \in heard'[e]
    BY <2>2, <2>3, <2>4
  <2>6. ASSUME NEW v \in Workers, NEW i \in 1..Len(queue'[v]) PROVE v \in heard'[queue'[v][i]]
    <3>1. CASE v \in Takers
      <4>0. queue'[v] = Append(queue[v], n) /\ queue[v] \in Seq(Events)
        BY <2>4, <3>1
      <4> HIDE DEF n
      <4>1. /\ Len(queue'[v]) = Len(queue[v]) + 1 /\ queue'[v][Len(queue[v]) + 1] = n
            /\ \A j \in 1..Len(queue[v]) : queue'[v][j] = queue[v][j] /\ queue[v][j] \in Events
            /\ Len(queue[v]) \in Nat
        BY <2>1, <4>0, AppendToQueue
      <4>2. CASE i = Len(queue[v]) + 1
        BY <2>1, <2>3, <3>1, <4>1, <4>2
      <4>3. CASE i \in 1..Len(queue[v])
        BY <2>2, <2>3, <4>1, <4>3
      <4> QED BY <4>1, <4>2, <4>3
    <3>2. CASE v \notin Takers
      BY <2>2, <2>3, <2>4, <2>6, <3>2
    <3> QED BY <3>1, <3>2
  <2>7. "session" \notin seen => \A v, w \in Takers : v = w
    BY DEF Takers, LockInv, Alerting, TypeOK
  <2>8. \A e \in Events : e > published' => heard'[e] = {}
    BY <2>1, <2>3 DEF Events
  <2>9. \A e \in Events : sent[e] \subseteq heard'[e]
    BY <2>2, <2>3
  <2> QED BY <1>9, <2>3, <2>5, <2>6, <2>7, <2>8, <2>9 DEF Publish
<1>10. CASE UNCHANGED vars
  BY <1>1, <1>10 DEF vars
<1> QED BY <1>2, <1>3, <1>4, <1>5, <1>6, <1>7, <1>8, <1>9, <1>10 DEF Next, Work

LEMMA Invariance == Spec => []Inv
<1>1. Init => Inv
  BY InitInv
<1>2. Inv /\ [Next]_vars => Inv'
  BY StepTypes, StepLock, StepHeard DEF Inv
<1> QED BY <1>1, <1>2, PTL DEF Spec

\* All variables keep their types: no queue outgrows its capacity.
THEOREM QueuesAreBounded == Spec => []TypeOK
<1>1. Inv => TypeOK
  BY DEF Inv
<1> QED BY <1>1, Invariance, PTL

\* At most one worker alerts while no session is lost.
THEOREM OneWorkerAlerts == Spec => []OneLeader
<1>1. Inv => OneLeader
  BY DEF Inv, LockInv, OneLeader
<1> QED BY <1>1, Invariance, PTL

\* No event is dispatched by two workers while no session is lost.
THEOREM NoEventSentTwice == Spec => []SentByOne
<1>1. Inv => SentByOne
  BY DEF Inv, HeardInv, SentByOne
<1> QED BY <1>1, Invariance, PTL
=============================================================================
