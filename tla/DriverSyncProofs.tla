-------------------------- MODULE DriverSyncProofs --------------------------
(***************************************************************************)
(* Proofs about DriverSync, for every set of workers and any number of     *)
(* changes and faults.                                                     *)
(***************************************************************************)
EXTENDS DriverSync, FiniteSetTheorems, TLAPS

\* What a request that is checked is going to leave behind.
Sound(j) == New(j.flow, flow) => New(j.perf, perf)

\* j is a record with the fields of a job.
IsJob(j) ==
  j \in [id : {j.id}, w : {j.w}, kind : {j.kind}, perf : {j.perf}, flow : {j.flow},
         pc : {j.pc}]

\* As long as no requests raced, at most one is checked, what it commits is sound,
\* and so are the settings it finds.
Settled ==
  "race" \notin seen =>
    /\ flow => perf
    /\ \A j \in jobs : j.pc = "checked" => Sound(j)
    /\ \A j, k \in jobs : j.pc = "checked" /\ k.pc = "checked" => j = k

Inv == Settled /\ \A j \in jobs : IsJob(j)

\* A job that moved is not checked, unless it moved there.
LEMMA Moved ==
  ASSUME NEW j \in jobs, \A k \in jobs : IsJob(k), NEW pc, pc # "checked"
  PROVE  \A k \in Move(j, pc) : IsJob(k) /\ (k.pc = "checked" => k \in jobs /\ k # j)
<1>1. IsJob([j EXCEPT !.pc = pc]) /\ [j EXCEPT !.pc = pc].pc = pc
  BY DEF IsJob
<1> QED BY <1>1 DEF Move

LEMMA InitInv == Init => Inv
BY Zenon DEF Init, Inv, Settled

\* The rules admit only what is sound.
LEMMA AllowedIsSound ==
  ASSUME NEW p \in Values, NEW f \in Values, Allowed(p, f)
  PROVE  New(f, flow) => New(p, perf)
BY DEF Allowed, New, Values

\* A step that leaves the settings alone and checks no request keeps the invariant.
LEMMA Others ==
  ASSUME Inv, UNCHANGED <<perf, flow>>, seen \subseteq seen',
         \A j \in jobs' : IsJob(j) /\ (j.pc = "checked" => j \in jobs)
  PROVE  Inv'
BY DEF Inv, Settled, Sound, New, IsJob

LEMMA StepInv == Inv /\ [Next]_vars => Inv'
<1> SUFFICES ASSUME Inv, [Next]_vars PROVE Inv'
  OBVIOUS
<1>1. ASSUME NEW w \in Workers, NEW p \in Values, NEW f \in Values, Check(w, p, f)
      PROVE  Inv'
  <2> PICK n : n = [id |-> Fresh, w |-> w, kind |-> "patch", perf |-> p, flow |-> f,
                    pc |-> "checked"]
    OBVIOUS
  <2>1. /\ jobs' = jobs \cup {n} /\ UNCHANGED <<perf, flow>>
        /\ "race" \notin seen' => "race" \notin seen /\ \A j \in jobs : j.pc # "checked"
    BY <1>1 DEF Check
  <2>2. (New(n.flow, flow) => New(n.perf, perf)) /\ IsJob(n)
    BY <1>1, AllowedIsSound DEF Check, IsJob
  <2>3. \A j \in jobs' : IsJob(j)
    BY <2>1, <2>2 DEF Inv, IsJob
  <2> SUFFICES ASSUME "race" \notin seen' PROVE Settled'
    BY <2>3 DEF Inv, Settled, IsJob
  <2>4. (flow => perf) /\ \A j \in jobs : j.pc # "checked"
    BY <2>1 DEF Inv, Settled
  <2>5. \A j \in jobs' : j.pc = "checked" => j = n
    BY <2>1, <2>4
  <2>6. Sound(n)'
    BY <2>1, <2>2, Zenon DEF Sound
  <2> QED BY <2>1, <2>4, <2>5, <2>6, Zenon DEF Settled
<1>2. ASSUME NEW j \in jobs, Commit(j) PROVE Inv'
  <2>1. seen \subseteq seen'
    BY <1>2 DEF Commit, Overlap
  <2>2. \A k \in jobs' : IsJob(k) /\ (k.pc = "checked" => k \in jobs /\ k # j)
    BY <1>2, Moved DEF Commit, Inv
  <2>3. j.pc = "checked" /\ perf' = New(j.perf, perf) /\ flow' = New(j.flow, flow)
    BY <1>2 DEF Commit
  <2> SUFFICES ASSUME "race" \notin seen' PROVE Settled'
    BY <2>2 DEF Inv, Settled, IsJob
  <2>4. Sound(j) /\ \A k \in jobs : k.pc = "checked" => k = j
    BY <2>1, <2>3 DEF Inv, Settled
  <2>5. flow' => perf'
    BY <2>3, <2>4, Zenon DEF Sound
  <2>6. \A k \in jobs' : k.pc # "checked"
    BY <2>2, <2>4
  <2> QED BY <2>5, <2>6, Zenon DEF Settled
<1>3. ASSUME NEW j \in jobs, Choose(j) \/ Install(j) \/ Broadcast(j) \/ BroadcastFails(j)
      PROVE  Inv'
  <2>1. UNCHANGED <<perf, flow>> /\ seen \subseteq seen'
    BY <1>3 DEF Choose, Install, Broadcast, BroadcastFails, Upset
  <2>2. \/ \E asked \in Readings : jobs' = Move(j, Driver(asked))
        \/ jobs' = Move(j, "installed") \/ jobs' = jobs \ {j}
    BY <1>3 DEF Choose, Install, Broadcast, BroadcastFails
  <2>3. \A asked : Driver(asked) # "checked"
    BY DEF Driver
  <2>4. \A k \in jobs' : IsJob(k) /\ (k.pc = "checked" => k \in jobs)
    BY <2>2, <2>3, Moved DEF Inv
  <2> QED BY <2>1, <2>4, Others
<1>4. ASSUME NEW w \in Workers, Reload(w) \/ Subscribe(w) \/ RestartWorker(w) \/ Listen(w)
      PROVE  Inv'
  <2>1. UNCHANGED <<perf, flow>> /\ seen \subseteq seen'
    BY <1>4 DEF Reload, Subscribe, RestartWorker, Listen, Upset, Overlap
  <2>2. \A k \in jobs' : IsJob(k) /\ (k.pc = "checked" => k \in jobs)
    BY <1>4 DEF Reload, Subscribe, RestartWorker, Listen, Inv, IsJob
  <2> QED BY <2>1, <2>2, Others
<1>5. ASSUME RedisDown \/ RedisUp \/ DatabaseRestarts \/ RestartEngine PROVE Inv'
  <2>1. UNCHANGED <<perf, flow, jobs>> /\ seen \subseteq seen'
    BY <1>5 DEF RedisDown, RedisUp, DatabaseRestarts, RestartEngine, Upset
  <2> QED BY <2>1, Others DEF Inv, IsJob
<1>6. CASE UNCHANGED vars
  BY <1>6, Others DEF vars, Inv, IsJob
<1> QED BY <1>1, <1>2, <1>3, <1>4, <1>5, <1>6 DEF Next, JobStep

\* Rules A, B and C of the settings keep flow telemetry from outliving the driver it
\* needs, whatever else happens, unless two requests are checked at the same time.
THEOREM FlowTelemetryNeedsRedis == Spec => []FlowNeedsRedis
<1>1. Inv => FlowNeedsRedis
  BY DEF Inv, Settled, FlowNeedsRedis
<1> QED BY <1>1, InitInv, StepInv, PTL DEF Spec

-----------------------------------------------------------------------------
(* Types.  Jobs are numbered, and there is a number for each: PATCHes under *)
(* way and notices on their way are no more than the PATCHes there were,    *)
(* and a worker reloads once at a time.                                    *)

JobType ==
  [id : Ids, w : Workers, kind : {"patch", "reload"}, perf : Values, flow : Values,
   pc : Drivers \cup {"checked", "init", "installed"}]

Patching(J) == {j \in J : j.kind = "patch"}

Reloading(J) == {j \in J : j.kind = "reload"}

OneReload(J) ==
  \A j, k \in J : j.w = k.w /\ j.kind = "reload" /\ k.kind = "reload" => j = k

Counted ==
  /\ IsFiniteSet(jobs) /\ Cardinality(Patching(jobs)) <= patches
  /\ \A w \in Workers : inbox[w] + Cardinality(Patching(jobs)) <= patches

\* One element for another, and two sets in one.
LEMMA Exchanged ==
  ASSUME NEW S, IsFiniteSet(S), NEW x \in S, NEW y
  PROVE  IsFiniteSet((S \ {x}) \cup {y}) /\ Cardinality((S \ {x}) \cup {y}) <= Cardinality(S)
<1> PICK T : T = S \ {x}
  OBVIOUS
<1>1. IsFiniteSet(T) /\ Cardinality(T) = Cardinality(S) - 1
  BY FS_RemoveElement
<1>2. Cardinality(T) \in Nat /\ Cardinality(S) \in Nat
  BY <1>1, FS_CardinalityType
<1>3. IsFiniteSet(T \cup {y}) /\ Cardinality(T \cup {y}) \in {Cardinality(T), Cardinality(T) + 1}
  BY <1>1, FS_AddElement
<1> QED BY <1>1, <1>2, <1>3

LEMMA Disjoint ==
  ASSUME NEW S, NEW T, IsFiniteSet(S), IsFiniteSet(T), S \cap T = {}
  PROVE  Cardinality(S \cup T) = Cardinality(S) + Cardinality(T)
<1>1. Cardinality(S) \in Nat /\ Cardinality(T) \in Nat /\ Cardinality({}) = 0
  BY FS_CardinalityType, FS_EmptySet
<1>2. Cardinality(S \cap T) = 0
  BY <1>1
<1>3. Cardinality(S \cup T) = Cardinality(S) + Cardinality(T) - Cardinality(S \cap T)
  BY FS_Union
<1> QED BY <1>1, <1>2, <1>3

LEMMA Sizes ==
  ASSUME NEW J, IsFiniteSet(J)
  PROVE  /\ IsFiniteSet(Patching(J)) /\ Cardinality(Patching(J)) \in Nat
         /\ \A K : K \subseteq J => IsFiniteSet(K) /\ Cardinality(Patching(K)) <= Cardinality(Patching(J))
                                    /\ Cardinality(K) \in Nat
<1>1. IsFiniteSet(Patching(J)) /\ Cardinality(Patching(J)) \in Nat
  BY FS_Subset, FS_CardinalityType DEF Patching
<1>2. ASSUME NEW K, K \subseteq J
      PROVE  /\ IsFiniteSet(K) /\ Cardinality(Patching(K)) <= Cardinality(Patching(J))
             /\ Cardinality(K) \in Nat
  <2>1. Patching(K) \in SUBSET Patching(J) /\ K \in SUBSET J
    BY <1>2 DEF Patching
  <2> QED BY <1>1, <2>1, FS_Subset, FS_CardinalityType
<1> QED BY <1>1, <1>2

\* A worker that does not reload leaves room for its reload.
LEMMA FewReloads ==
  ASSUME SyncAssumption, NEW J, J \subseteq JobType, OneReload(J), IsFiniteSet(J),
         NEW W \in SUBSET Workers, \A j \in Reloading(J) : j.w \in W
  PROVE  Cardinality(Reloading(J)) <= Cardinality(W)
<1> DEFINE f == [j \in Reloading(J) |-> j.w]
<1>1. f \in Injection(Reloading(J), W)
  BY DEF Injection, IsInjective, Reloading, OneReload
<1>2. IsFiniteSet(W)
  BY FS_Subset DEF SyncAssumption
<1> HIDE DEF f
<1> QED BY <1>1, <1>2, FS_Injection

\* There is a number for one more job.
LEMMA FreshIsFree ==
  ASSUME SyncAssumption, jobs \subseteq JobType, OneReload(jobs), IsFiniteSet(jobs),
         NEW W \in SUBSET Workers, \A j \in Reloading(jobs) : j.w \in W,
         Cardinality(Patching(jobs)) + Cardinality(W) < MaxPatches + Cardinality(Workers)
  PROVE  MaxPatches > 0 => Fresh \in Ids
<1> SUFFICES ASSUME MaxPatches > 0 PROVE Fresh \in Ids
  OBVIOUS
<1> DEFINE n == Cardinality(Workers)
           max == MaxPatches + MaxPatches * n
<1>1. n \in Nat /\ Cardinality(W) \in Nat /\ MaxPatches \in Nat
  BY FS_CardinalityType, FS_Subset DEF SyncAssumption
<1>2. MaxPatches * n \in Nat /\ MaxPatches * n >= n
  BY <1>1
<1>3. Cardinality(jobs) < max
  <2>1. jobs = Patching(jobs) \cup Reloading(jobs) /\ Patching(jobs) \cap Reloading(jobs) = {}
    BY DEF Patching, Reloading, JobType
  <2>2. /\ IsFiniteSet(Patching(jobs)) /\ IsFiniteSet(Reloading(jobs))
        /\ Cardinality(Patching(jobs)) \in Nat /\ Cardinality(Reloading(jobs)) \in Nat
    BY FS_Subset, FS_CardinalityType DEF Patching, Reloading
  <2>3. Cardinality(jobs) = Cardinality(Patching(jobs)) + Cardinality(Reloading(jobs))
    BY <2>1, <2>2, Disjoint
  <2>4. Cardinality(Reloading(jobs)) <= Cardinality(W)
    BY FewReloads
  <2> HIDE DEF n
  <2>5. Cardinality(Patching(jobs)) + Cardinality(W) < MaxPatches + n
    BY DEF n
  <2> QED BY <1>1, <1>2, <2>2, <2>3, <2>4, <2>5
<1>4. \E i \in Ids : \A j \in jobs : j.id # i
  <2> SUFFICES ASSUME \A i \in Ids : \E j \in jobs : j.id = i PROVE FALSE
    OBVIOUS
  <2> DEFINE f == [j \in jobs |-> j.id]
  <2>1. f \in Surjection(jobs, Ids)
    BY DEF Surjection, JobType
  <2>2. Cardinality(Ids) <= Cardinality(jobs)
    <3> HIDE DEF f
    <3> QED BY <2>1, FS_Surjection
  <2>3. Cardinality(Ids) = max
    <3>1. max \in Nat /\ 1 \in Int /\ Ids = 1..max
      BY <1>1, <1>2 DEF Ids
    <3> HIDE DEF max
    <3> QED BY <3>1, FS_Interval
  <2>4. Cardinality(jobs) \in Nat /\ max \in Nat
    BY <1>1, <1>2, FS_CardinalityType
  <2> HIDE DEF max
  <2> QED BY <1>3, <2>2, <2>3, <2>4
<1> QED BY <1>4 DEF Fresh

\* A job that moves.
LEMMA MoveTypes ==
  ASSUME jobs \subseteq JobType, OneReload(jobs), IsFiniteSet(jobs), NEW j \in jobs,
         NEW pc \in Drivers \cup {"checked", "init", "installed"}
  PROVE  /\ Move(j, pc) \subseteq JobType /\ OneReload(Move(j, pc)) /\ IsFiniteSet(Move(j, pc))
         /\ Cardinality(Patching(Move(j, pc))) <= Cardinality(Patching(jobs))
<1> DEFINE m == [j EXCEPT !.pc = pc]
<1>1. m \in JobType /\ m.w = j.w /\ m.kind = j.kind
  BY DEF JobType
<1>2. Move(j, pc) = (jobs \ {j}) \cup {m}
  BY DEF Move
<1> HIDE DEF m
<1>3. Move(j, pc) \subseteq JobType /\ OneReload(Move(j, pc))
  BY <1>1, <1>2 DEF OneReload
<1>4. IsFiniteSet(Move(j, pc))
  BY <1>2, Exchanged
<1>5. CASE j.kind = "patch"
  <2>1. Patching(Move(j, pc)) = (Patching(jobs) \ {j}) \cup {m} /\ j \in Patching(jobs)
    BY <1>1, <1>2, <1>5 DEF Patching
  <2>2. IsFiniteSet(Patching(jobs)) /\ Cardinality(Patching(jobs)) \in Nat
    BY Sizes
  <2>3. Cardinality((Patching(jobs) \ {j}) \cup {m}) <= Cardinality(Patching(jobs))
    BY <2>1, <2>2, Exchanged
  <2> QED BY <1>3, <1>4, <2>1, <2>3
<1>6. CASE j.kind # "patch"
  <2>1. Patching(Move(j, pc)) = Patching(jobs)
    BY <1>1, <1>2, <1>6 DEF Patching
  <2>2. Cardinality(Patching(jobs)) \in Nat
    BY Sizes
  <2> QED BY <1>3, <1>4, <2>1, <2>2
<1> QED BY <1>5, <1>6

Stages == Drivers \cup {"checked", "init", "installed"}

\* What is neither a job nor counts one.
Plain ==
  /\ perf \in BOOLEAN /\ flow \in BOOLEAN /\ redis \in BOOLEAN
  /\ mode \in [Workers -> Drivers] /\ engine \in Drivers
  /\ sub \in [Workers -> Drivers \cup {"none", "lost"}]
  /\ ear \in [Workers -> {"off", "on", "lost"}]
  /\ upsets \in Nat /\ seen \subseteq UpsetKinds \cup {"overlap", "race", "missed", "unsent"}
  /\ blind \subseteq Workers

JobsInv ==
  /\ jobs \subseteq JobType /\ OneReload(jobs) /\ Counted
  /\ \A j \in jobs : j.pc = "installed" => j.kind = "patch"
  /\ patches \in 0..MaxPatches /\ inbox \in [Workers -> Nat]

LEMMA DriverIs == \A asked : Driver(asked) \in Drivers
BY DEF Driver, Drivers

LEMMA BlindIs == \A w \in Workers : \A asked : Blind(w, asked) \subseteq blind \cup {w}
BY DEF Blind

LEMMA NewIs == \A v \in Values, b \in BOOLEAN : New(v, b) \in BOOLEAN
BY DEF New

LEMMA UpsetIs ==
  ASSUME Plain, NEW kind \in UpsetKinds, NEW losses, Upset(kind, losses),
         losses \subseteq {"unsent"}
  PROVE  /\ upsets' \in Nat
         /\ seen' \subseteq UpsetKinds \cup {"overlap", "race", "missed", "unsent"}
<1>1. upsets' \in Nat
  BY DEF Plain, Upset
<1>2. seen' = seen \cup {kind} \cup losses
  BY DEF Upset
<1>3. seen \subseteq UpsetKinds \cup {"overlap", "race", "missed", "unsent"}
  BY DEF Plain
<1>4. losses \subseteq UpsetKinds \cup {"overlap", "race", "missed", "unsent"}
  OBVIOUS
<1> QED BY <1>1, <1>2, <1>3, <1>4

LEMMA PlainStep ==
  ASSUME Plain, JobsInv, [Next]_vars
  PROVE  Plain'
<1> USE DriverIs
<1>1. ASSUME NEW w \in Workers, NEW p \in Values, NEW f \in Values, Check(w, p, f) PROVE Plain'
  BY <1>1 DEF Check, Plain
<1>2. ASSUME NEW j \in jobs, Commit(j) PROVE Plain'
  <2>1. j.perf \in Values /\ j.flow \in Values
    BY DEF JobsInv, JobType
  <2>2. perf' \in BOOLEAN /\ flow' \in BOOLEAN
    BY <1>2, <2>1, NewIs DEF Commit, Plain
  <2>3. seen' \subseteq seen \cup {"overlap"}
    BY <1>2 DEF Commit, Overlap
  <2> QED BY <1>2, <2>2, <2>3 DEF Commit, Plain
<1>3. ASSUME NEW j \in jobs, Install(j) PROVE Plain'
  BY <1>3 DEF Install, Plain
<1>4. ASSUME NEW j \in jobs, Choose(j) \/ Broadcast(j) PROVE Plain'
  <2>1. seen' \subseteq seen \cup {"missed"}
    BY <1>4 DEF Choose, Broadcast
  <2>2. blind' \subseteq Workers
    <3>1. j.w \in Workers
      BY DEF JobsInv, JobType
    <3> QED BY <1>4, <3>1, BlindIs DEF Choose, Broadcast, Plain
  <2> QED BY <1>4, <2>1, <2>2 DEF Choose, Broadcast, Plain
<1>5. ASSUME NEW j \in jobs, BroadcastFails(j) PROVE Plain'
  <2>1. /\ upsets' \in Nat
        /\ seen' \subseteq UpsetKinds \cup {"overlap", "race", "missed", "unsent"}
    BY <1>5, UpsetIs DEF BroadcastFails, UpsetKinds
  <2> QED BY <1>5, <2>1 DEF BroadcastFails, Plain
<1>6. ASSUME NEW w \in Workers, Reload(w) PROVE Plain'
  <2>1. seen' \subseteq seen \cup {"overlap"}
    BY <1>6 DEF Reload, Overlap
  <2> QED BY <1>6, <2>1 DEF Reload, Plain
<1>7. ASSUME NEW w \in Workers, Subscribe(w) \/ Listen(w) PROVE Plain'
  BY <1>7 DEF Subscribe, Listen, Plain
<1>8. ASSUME NEW w \in Workers, RestartWorker(w) PROVE Plain'
  <2>1. \E losses : Upset("worker", losses) /\ losses \subseteq {"unsent"}
    BY <1>8 DEF RestartWorker
  <2>2. /\ upsets' \in Nat
        /\ seen' \subseteq UpsetKinds \cup {"overlap", "race", "missed", "unsent"}
    BY <2>1, UpsetIs DEF UpsetKinds
  <2>3. blind' \subseteq Workers
    BY <1>8, BlindIs DEF RestartWorker, Plain
  <2> QED BY <1>8, <2>2, <2>3 DEF RestartWorker, Plain
<1>9. CASE RedisUp
  BY <1>9 DEF RedisUp, Plain
<1>10. CASE RedisDown \/ DatabaseRestarts \/ RestartEngine
  <2>1. \E kind \in UpsetKinds : Upset(kind, {})
    BY <1>10 DEF RedisDown, DatabaseRestarts, RestartEngine, UpsetKinds
  <2>2. /\ upsets' \in Nat
        /\ seen' \subseteq UpsetKinds \cup {"overlap", "race", "missed", "unsent"}
    BY <2>1, UpsetIs
  <2>3. CASE RedisDown
    BY <2>2, <2>3 DEF RedisDown, Plain
  <2>4. CASE DatabaseRestarts
    BY <2>2, <2>4 DEF DatabaseRestarts, Plain
  <2>5. CASE RestartEngine
    BY <2>2, <2>5 DEF RestartEngine, Plain
  <2> QED BY <1>10, <2>3, <2>4, <2>5
<1>11. CASE UNCHANGED vars
  BY <1>11 DEF vars, Plain
<1> QED BY <1>1, <1>2, <1>3, <1>4, <1>5, <1>6, <1>7, <1>8, <1>9, <1>10, <1>11 DEF Next, JobStep

\* Jobs that move or end, while no notice comes in.
LEMMA Fewer ==
  ASSUME JobsInv, UNCHANGED patches, inbox' \in [Workers -> Nat],
         \A w \in Workers : inbox'[w] <= inbox[w],
         \/ jobs' \subseteq jobs
         \/ \E j \in jobs, pc \in Stages :
              jobs' = Move(j, pc) /\ (pc = "installed" => j.kind = "patch")
  PROVE  JobsInv'
<1>0. /\ jobs \subseteq JobType /\ OneReload(jobs) /\ IsFiniteSet(jobs) /\ patches \in Nat
      /\ \A j \in jobs : j.pc = "installed" => j.kind = "patch"
  BY SyncAssumption DEF JobsInv, Counted
<1>1. /\ jobs' \subseteq JobType /\ OneReload(jobs') /\ IsFiniteSet(jobs')
      /\ Cardinality(Patching(jobs')) <= Cardinality(Patching(jobs))
      /\ \A j \in jobs' : j.pc = "installed" => j.kind = "patch"
  <2>1. CASE jobs' \subseteq jobs
    <3>1. OneReload(jobs')
      BY <1>0, <2>1 DEF OneReload
    <3> QED BY <1>0, <2>1, <3>1, Sizes
  <2>2. ASSUME NEW j \in jobs, NEW pc \in Stages, jobs' = Move(j, pc),
               pc = "installed" => j.kind = "patch"
        PROVE  /\ jobs' \subseteq JobType /\ OneReload(jobs') /\ IsFiniteSet(jobs')
               /\ Cardinality(Patching(jobs')) <= Cardinality(Patching(jobs))
               /\ \A k \in jobs' : k.pc = "installed" => k.kind = "patch"
    <3>1. [j EXCEPT !.pc = pc].pc = pc /\ [j EXCEPT !.pc = pc].kind = j.kind
      BY <1>0 DEF JobType
    <3>2. \A k \in jobs' : k.pc = "installed" => k.kind = "patch"
      BY <1>0, <2>2, <3>1 DEF Move
    <3> QED BY <1>0, <2>2, <3>2, MoveTypes DEF Stages
  <2> QED BY <2>1, <2>2
<1>2. Cardinality(Patching(jobs)) \in Nat /\ Cardinality(Patching(jobs')) \in Nat
  BY <1>0, <1>1, Sizes
<1>3. \A w \in Workers : inbox[w] \in Nat /\ inbox'[w] \in Nat
  BY DEF JobsInv
<1>4. Counted'
  BY <1>0, <1>1, <1>2, <1>3 DEF JobsInv, Counted
<1> QED BY <1>1, <1>4 DEF JobsInv

\* A job that begins.
LEMMA OneJobMore ==
  ASSUME JobsInv, NEW W \in SUBSET Workers, \A j \in Reloading(jobs) : j.w \in W, MaxPatches > 0,
         Cardinality(Patching(jobs)) + Cardinality(W) < MaxPatches + Cardinality(Workers),
         NEW n, n = [id |-> Fresh, w |-> n.w, kind |-> n.kind, perf |-> n.perf, flow |-> n.flow,
                     pc |-> n.pc],
         n.w \in Workers, n.kind \in {"patch", "reload"}, n.perf \in Values, n.flow \in Values,
         n.pc \in {"checked", "init"}, n.kind = "reload" => n.w \notin W
  PROVE  /\ jobs \cup {n} \subseteq JobType /\ OneReload(jobs \cup {n})
         /\ IsFiniteSet(jobs \cup {n})
         /\ \A j \in jobs \cup {n} : j.pc = "installed" => j.kind = "patch"
         /\ Cardinality(Patching(jobs \cup {n})) <=
              Cardinality(Patching(jobs)) + (IF n.kind = "patch" THEN 1 ELSE 0)
<1>0. jobs \subseteq JobType /\ OneReload(jobs) /\ IsFiniteSet(jobs)
  BY DEF JobsInv, Counted
<1>1. Fresh \in Ids
  BY <1>0, FreshIsFree, SyncAssumption
<1>2. n \in JobType
  <2>1. n.id = Fresh
    OBVIOUS
  <2> QED BY <1>1, <2>1 DEF JobType
<1>3. OneReload(jobs \cup {n})
  BY <1>0 DEF OneReload, Reloading
<1>4. \A j \in jobs \cup {n} : j.pc = "installed" => j.kind = "patch"
  BY DEF JobsInv
<1>5. IsFiniteSet(Patching(jobs)) /\ Cardinality(Patching(jobs)) \in Nat
  BY <1>0, Sizes
<1>6. CASE n.kind = "patch"
  <2>1. Patching(jobs \cup {n}) = Patching(jobs) \cup {n}
    BY <1>6 DEF Patching
  <2>2. \/ Cardinality(Patching(jobs) \cup {n}) = Cardinality(Patching(jobs))
        \/ Cardinality(Patching(jobs) \cup {n}) = Cardinality(Patching(jobs)) + 1
    BY <1>5, FS_AddElement
  <2>3. Cardinality(Patching(jobs \cup {n})) <= Cardinality(Patching(jobs)) + 1
    <3>1. \/ Cardinality(Patching(jobs \cup {n})) = Cardinality(Patching(jobs))
          \/ Cardinality(Patching(jobs \cup {n})) = Cardinality(Patching(jobs)) + 1
      BY <2>1, <2>2
    <3> HIDE DEF Patching
    <3> QED BY <1>5, <3>1
  <2>4. IsFiniteSet(jobs \cup {n})
    BY <1>0, FS_AddElement
  <2>5. (IF n.kind = "patch" THEN 1 ELSE 0) = 1
    BY <1>6
  <2>6. jobs \cup {n} \subseteq JobType
    BY <1>0, <1>2
  <2> HIDE DEF Patching, OneReload
  <2> QED BY <1>3, <1>4, <2>3, <2>4, <2>5, <2>6
<1>7. CASE n.kind # "patch"
  <2>1. Patching(jobs \cup {n}) = Patching(jobs)
    BY <1>7 DEF Patching
  <2> QED BY <1>0, <1>2, <1>3, <1>4, <1>5, <1>7, <2>1, FS_AddElement
<1> QED BY <1>6, <1>7

LEMMA JobsStep ==
  ASSUME Plain, JobsInv, [Next]_vars
  PROVE  JobsInv'
<1> USE SyncAssumption
<1>0. /\ jobs \subseteq JobType /\ IsFiniteSet(jobs) /\ patches \in Nat /\ patches <= MaxPatches
      /\ inbox \in [Workers -> Nat] /\ Cardinality(Patching(jobs)) <= patches
      /\ Cardinality(Patching(jobs)) \in Nat /\ Cardinality(Workers) \in Nat
  BY Sizes, FS_CardinalityType DEF JobsInv, Counted
<1>1. ASSUME NEW w \in Workers, NEW p \in Values, NEW f \in Values, Check(w, p, f) PROVE JobsInv'
  <2> PICK n : n = [id |-> Fresh, w |-> w, kind |-> "patch", perf |-> p, flow |-> f,
                    pc |-> "checked"]
    OBVIOUS
  <2>1. /\ jobs' = jobs \cup {n} /\ patches' = patches + 1 /\ patches < MaxPatches /\ inbox' = inbox
    BY <1>1 DEF Check
  <2>2. \A j \in Reloading(jobs) : j.w \in Workers
    BY <1>0 DEF Reloading, JobType
  <2>3. /\ jobs' \subseteq JobType /\ OneReload(jobs') /\ IsFiniteSet(jobs')
        /\ \A j \in jobs' : j.pc = "installed" => j.kind = "patch"
        /\ Cardinality(Patching(jobs')) <= Cardinality(Patching(jobs)) + 1
    <3>1. Workers \in SUBSET Workers /\ MaxPatches > 0
          /\ Cardinality(Patching(jobs)) + Cardinality(Workers) < MaxPatches + Cardinality(Workers)
      BY <1>0, <2>1
    <3>2. /\ n = [id |-> Fresh, w |-> n.w, kind |-> n.kind, perf |-> n.perf, flow |-> n.flow,
                  pc |-> n.pc]
          /\ n.w \in Workers /\ n.kind = "patch" /\ n.perf \in Values /\ n.flow \in Values
          /\ n.pc = "checked"
      OBVIOUS
    <3> QED BY <2>1, <2>2, <3>1, <3>2, OneJobMore
  <2>4. Cardinality(Patching(jobs')) \in Nat
    BY <2>3, Sizes
  <2>5. \A v \in Workers : inbox[v] \in Nat /\ inbox[v] + Cardinality(Patching(jobs)) <= patches
    BY <1>0 DEF JobsInv, Counted
  <2>6. Counted'
    BY <1>0, <2>1, <2>3, <2>4, <2>5 DEF Counted
  <2> QED BY <1>0, <2>1, <2>3, <2>6 DEF JobsInv
<1>2. ASSUME NEW j \in jobs, Commit(j) \/ Choose(j) \/ Install(j) \/ BroadcastFails(j) PROVE JobsInv'
  <2>1. UNCHANGED <<patches, inbox>>
    BY <1>2 DEF Commit, Choose, Install, BroadcastFails
  <2>2. \/ jobs' = jobs \ {j}
        \/ \E pc \in Stages : jobs' = Move(j, pc) /\ (pc = "installed" => j.kind = "patch")
    BY <1>2, DriverIs DEF Commit, Choose, Install, BroadcastFails, Stages, Drivers
  <2>3. inbox' \in [Workers -> Nat] /\ \A w \in Workers : inbox'[w] <= inbox[w]
    BY <1>0, <2>1
  <2> QED BY <2>1, <2>2, <2>3, Fewer
<1>3. ASSUME NEW j \in jobs, Broadcast(j) PROVE JobsInv'
  <2>1. /\ jobs' = jobs \ {j} /\ patches' = patches /\ j.kind = "patch"
        /\ inbox' = [w \in Workers |-> IF w = j.w \/ ear[w] # "on" THEN inbox[w] ELSE inbox[w] + 1]
    BY <1>3 DEF Broadcast, JobsInv
  <2>2. /\ jobs' \subseteq JobType /\ OneReload(jobs') /\ IsFiniteSet(jobs')
        /\ \A k \in jobs' : k.pc = "installed" => k.kind = "patch"
    BY <1>0, <2>1, FS_RemoveElement DEF JobsInv, OneReload
  <2>3. Cardinality(Patching(jobs')) = Cardinality(Patching(jobs)) - 1
    <3>1. Patching(jobs') = Patching(jobs) \ {j} /\ j \in Patching(jobs)
      BY <2>1 DEF Patching
    <3> QED BY <1>0, <3>1, Sizes, FS_RemoveElement
  <2>4. \A w \in Workers : /\ inbox[w] \in Nat /\ inbox'[w] \in Nat /\ inbox'[w] <= inbox[w] + 1
                           /\ inbox[w] + Cardinality(Patching(jobs)) <= patches
    BY <1>0, <2>1 DEF JobsInv, Counted
  <2>5. inbox' \in [Workers -> Nat]
    BY <2>1, <2>4
  <2>6. Counted'
    <3>1. Cardinality(Patching(jobs')) \in Nat
      BY <2>2, Sizes
    <3>2. IsFiniteSet(jobs') /\ Cardinality(Patching(jobs')) <= patches'
      BY <1>0, <2>1, <2>2, <2>3, <3>1
    <3>3. \A w \in Workers : inbox'[w] + Cardinality(Patching(jobs')) <= patches'
      BY <1>0, <2>1, <2>3, <2>4, <3>1
    <3> QED BY <3>2, <3>3 DEF Counted
  <2> QED BY <1>0, <2>1, <2>2, <2>5, <2>6 DEF JobsInv
<1>4. ASSUME NEW w \in Workers, Reload(w) PROVE JobsInv'
  <2> PICK n : n = [id |-> Fresh, w |-> w, kind |-> "reload", perf |-> "same", flow |-> "same",
                    pc |-> "init"]
    OBVIOUS
  <2> PICK W : W = Workers \ {w}
    OBVIOUS
  <2>1. /\ jobs' = jobs \cup {n} /\ patches' = patches /\ inbox[w] > 0
        /\ inbox' = [inbox EXCEPT ![w] = @ - 1]
        /\ \A j \in Reloading(jobs) : j.w # w
    BY <1>4 DEF Reload, Reloading
  <2>2. \A j \in Reloading(jobs) : j.w \in W
    BY <1>0, <2>1 DEF Reloading, JobType
  <2>3. /\ jobs' \subseteq JobType /\ OneReload(jobs') /\ IsFiniteSet(jobs')
        /\ \A j \in jobs' : j.pc = "installed" => j.kind = "patch"
        /\ Cardinality(Patching(jobs')) <= Cardinality(Patching(jobs))
    <3>1. Cardinality(W) = Cardinality(Workers) - 1
      BY FS_RemoveElement
    <3>2. inbox[w] \in Nat /\ inbox[w] + Cardinality(Patching(jobs)) <= patches
      BY <1>0 DEF JobsInv, Counted
    <3>3. W \in SUBSET Workers /\ MaxPatches > 0
          /\ Cardinality(Patching(jobs)) + Cardinality(W) < MaxPatches + Cardinality(Workers)
      BY <1>0, <2>1, <3>1, <3>2
    <3>4. /\ n = [id |-> Fresh, w |-> n.w, kind |-> n.kind, perf |-> n.perf, flow |-> n.flow,
                  pc |-> n.pc]
          /\ n.w \in Workers /\ n.w \notin W /\ n.kind = "reload" /\ n.perf \in Values
          /\ n.flow \in Values /\ n.pc = "init"
      BY DEF Values
    <3>5. /\ jobs \cup {n} \subseteq JobType /\ OneReload(jobs \cup {n})
          /\ IsFiniteSet(jobs \cup {n})
          /\ \A j \in jobs \cup {n} : j.pc = "installed" => j.kind = "patch"
          /\ Cardinality(Patching(jobs \cup {n})) <=
               Cardinality(Patching(jobs)) + (IF n.kind = "patch" THEN 1 ELSE 0)
      BY <2>2, <3>3, <3>4, OneJobMore
    <3>6. (IF n.kind = "patch" THEN 1 ELSE 0) = 0
      BY <3>4
    <3>7. Cardinality(Patching(jobs)) + 0 = Cardinality(Patching(jobs))
      BY <1>0
    <3>8. Cardinality(Patching(jobs \cup {n})) <= Cardinality(Patching(jobs))
      BY <3>5, <3>6, <3>7
    <3> HIDE DEF Patching, OneReload
    <3> QED BY <2>1, <3>5, <3>8
  <2>4. Cardinality(Patching(jobs')) \in Nat
    BY <2>3, Sizes
  <2>5. \A v \in Workers : /\ inbox[v] \in Nat /\ inbox'[v] \in Nat /\ inbox'[v] <= inbox[v]
                           /\ inbox[v] + Cardinality(Patching(jobs)) <= patches
    BY <1>0, <2>1 DEF JobsInv, Counted
  <2>6. inbox' \in [Workers -> Nat]
    BY <1>0, <2>1, <2>5
  <2>7. Counted'
    <3>1. IsFiniteSet(jobs') /\ Cardinality(Patching(jobs')) <= patches'
      BY <1>0, <2>1, <2>3, <2>4
    <3>2. \A v \in Workers : inbox'[v] + Cardinality(Patching(jobs')) <= patches'
      BY <1>0, <2>1, <2>3, <2>4, <2>5
    <3> QED BY <3>1, <3>2 DEF Counted
  <2> QED BY <1>0, <2>1, <2>3, <2>6, <2>7 DEF JobsInv
<1>5. ASSUME NEW w \in Workers, RestartWorker(w) PROVE JobsInv'
  <2>1. patches' = patches /\ jobs' \subseteq jobs /\ inbox' = [inbox EXCEPT ![w] = 0]
    BY <1>5 DEF RestartWorker
  <2>2. inbox' \in [Workers -> Nat] /\ \A v \in Workers : inbox'[v] <= inbox[v]
    BY <1>0, <2>1
  <2> QED BY <2>1, <2>2, Fewer
<1>6. ASSUME UNCHANGED <<patches, inbox, jobs>> PROVE JobsInv'
  BY <1>6 DEF JobsInv, Counted
<1>7. ASSUME NEW w \in Workers, Subscribe(w) \/ Listen(w) PROVE JobsInv'
  BY <1>6, <1>7 DEF Subscribe, Listen
<1>8. CASE RedisDown \/ RedisUp \/ DatabaseRestarts \/ RestartEngine \/ UNCHANGED vars
  BY <1>6, <1>8 DEF RedisDown, RedisUp, DatabaseRestarts, RestartEngine, vars
<1> QED BY <1>1, <1>2, <1>3, <1>4, <1>5, <1>7, <1>8 DEF Next, JobStep

\* Every variable keeps its type: there is always a number for a new job, no worker's
\* notices exceed the PATCHes there were, and none reloads twice at a time.
THEOREM TypesHold == Spec => []TypeOK
<1>1. Init => Plain /\ JobsInv
  <2> SUFFICES ASSUME Init PROVE Plain /\ JobsInv
    OBVIOUS
  <2>1. Plain
    BY DriverIs DEF Init, Plain, Target
  <2>2. Patching({}) = {} /\ OneReload({}) /\ IsFiniteSet({}) /\ Cardinality({}) = 0
    BY FS_EmptySet DEF Patching, OneReload
  <2> QED BY <2>1, <2>2, SyncAssumption DEF Init, JobsInv, Counted
<1>2. Plain /\ JobsInv /\ [Next]_vars => (Plain /\ JobsInv)'
  BY PlainStep, JobsStep
<1>3. Plain /\ JobsInv => TypeOK
  <2> SUFFICES ASSUME Plain, JobsInv PROVE inbox \in [Workers -> 0..MaxPatches]
    BY DEF Plain, JobsInv, TypeOK, JobType, OneReload
  <2>1. Cardinality(Patching(jobs)) \in Nat /\ patches \in 0..MaxPatches /\ MaxPatches \in Nat
    BY Sizes, SyncAssumption DEF JobsInv, Counted
  <2>2. \A w \in Workers : inbox[w] \in Nat /\ inbox[w] + Cardinality(Patching(jobs)) <= patches
    BY DEF JobsInv, Counted
  <2>3. \A w \in Workers : inbox[w] \in 0..MaxPatches
    BY <2>1, <2>2
  <2> QED BY <2>3 DEF JobsInv
<1> QED BY <1>1, <1>2, <1>3, PTL DEF Spec
=============================================================================
