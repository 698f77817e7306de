------------------------ MODULE IncidentTracesProofs ------------------------
(***************************************************************************)
(* Proofs about EndpointRegistry and IncidentTraces, for every set of      *)
(* endpoints, every limit, any number of slots, changes, failures and      *)
(* traces, and whatever the commands print.                                *)
(***************************************************************************)
EXTENDS IncidentTraces, SequenceTheorems, FiniteSetTheorems, TLAPS

-----------------------------------------------------------------------------
(* The registry.                                                           *)

SweepInv == TypeOK /\ Registered

\* No sweep goes on at the start.
LEMMA InitSweeps == Init => SweepInv
BY DEF Init, SweepInv, TypeOK, Registered, None

\* Every step keeps the types.
LEMMA StepTypes == ASSUME TypeOK, [Next]_vars PROVE TypeOK'
<1> USE RegistryAssumption
<1>1. ASSUME NEW e \in Endpoints, Change(e) PROVE TypeOK'
  BY <1>1 DEF Change, TypeOK
<1>2. ASSUME NEW e \in Endpoints, Begin(e) PROVE TypeOK'
  <2>1. PICK n \in young[e] : young' = [young EXCEPT ![e] = @ \ {n}]
    BY <1>2 DEF Begin
  <2>2. young' \in [Endpoints -> SUBSET Nat]
    BY <2>1 DEF TypeOK
  <2> QED BY <1>2, <2>2 DEF Begin, TypeOK
<1>3. ASSUME NEW e \in Endpoints, Fail(e) PROVE TypeOK'
  <2>1. PICK n \in young[e] : /\ young' = [young EXCEPT ![e] = @ \ {n}]
                              /\ sweeping' = [sweeping EXCEPT ![e] = @ \ {n}]
                              /\ stray' = Strays(e, n)
    BY <1>3 DEF Fail
  <2>2. /\ young' \in [Endpoints -> SUBSET Nat] /\ sweeping' \in [Endpoints -> SUBSET Nat]
        /\ running' \in [Endpoints -> Nat]
    BY <1>3, <2>1 DEF Fail, Cleared, TypeOK
  <2>3. stray' \in [Endpoints -> SUBSET Nat]
    BY <2>1 DEF Strays, TypeOK
  <2> QED BY <1>3, <2>2, <2>3 DEF Fail, TypeOK
<1>4. ASSUME NEW e \in Endpoints, End(e) PROVE TypeOK'
  <2>1. PICK n \in ending[e] : /\ ending' = [ending EXCEPT ![e] = @ \ {n}]
                               /\ stray' = Strays(e, n)
    BY <1>4 DEF End
  <2>2. ending' \in [Endpoints -> SUBSET Nat] /\ running' \in [Endpoints -> Nat]
    BY <1>4, <2>1 DEF End, Cleared, TypeOK
  <2>3. stray' \in [Endpoints -> SUBSET Nat]
    BY <2>1 DEF Strays, TypeOK
  <2> QED BY <1>4, <2>2, <2>3 DEF End, TypeOK
<1>5. CASE Select
  BY <1>5 DEF Select, TypeOK
<1>6. CASE Sync
  <2>1. running' \in [Endpoints -> Nat] /\ spawned' \in [Endpoints -> Nat]
    BY <1>6 DEF Sync, TypeOK
  <2>2. sweeping' \in [Endpoints -> SUBSET Nat]
    BY <1>6 DEF Sync, TypeOK
  <2>3. young' \in [Endpoints -> SUBSET Nat]
    BY <1>6, <2>2 DEF Sync, TypeOK
  <2>4. ending' \in [Endpoints -> SUBSET Nat]
    BY <1>6 DEF Sync, TypeOK
  <2> QED BY <1>6, <2>1, <2>2, <2>3, <2>4 DEF Sync, TypeOK
<1>7. CASE UNCHANGED vars
  BY <1>7 DEF vars, TypeOK
<1> QED BY <1>1, <1>2, <1>3, <1>4, <1>5, <1>6, <1>7 DEF Next

\* All variables keep their types.
THEOREM TypesHold == Spec => []TypeOK
<1>1. Init => TypeOK
  BY InitSweeps DEF SweepInv
<1>2. TypeOK /\ [Next]_vars => TypeOK'
  BY StepTypes
<1> QED BY <1>1, <1>2, PTL DEF Spec

\* Every step leaves each endpoint with the registry's sweep and strays.
LEMMA StepRegistered ==
  ASSUME TypeOK, Registered, [Next]_vars
  PROVE  Registered'
<1>1. ASSUME NEW e \in Endpoints, Change(e) PROVE Registered'
  BY <1>1 DEF Change, Registered
<1>2. ASSUME NEW e \in Endpoints, Begin(e) PROVE Registered'
  BY <1>2 DEF Begin, Registered
<1>3. ASSUME NEW e \in Endpoints, Fail(e) PROVE Registered'
  <2>1. PICK n \in young[e] : /\ sweeping' = [sweeping EXCEPT ![e] = @ \ {n}]
                              /\ stray' = Strays(e, n)
    BY <1>3 DEF Fail
  <2>2. running' = [running EXCEPT ![e] = 0] /\ UNCHANGED <<known, ending, spawned>>
    BY <1>3 DEF Fail, Cleared
  <2> QED BY <2>1, <2>2 DEF Strays, Registered, TypeOK
<1>4. ASSUME NEW e \in Endpoints, End(e) PROVE Registered'
  <2>1. PICK n \in ending[e] : /\ ending' = [ending EXCEPT ![e] = @ \ {n}]
                               /\ stray' = Strays(e, n)
    BY <1>4 DEF End
  <2>2. running' = [running EXCEPT ![e] = 0] /\ UNCHANGED <<known, sweeping, spawned>>
    BY <1>4 DEF End, Cleared
  <2>3. n \notin sweeping[e]
    BY DEF Registered
  <2> QED BY <2>1, <2>2, <2>3 DEF Strays, Registered, TypeOK
<1>5. CASE Select
  BY <1>5 DEF Select, Registered
<1>6. ASSUME Sync PROVE Registered'
  <2> SUFFICES ASSUME NEW e \in Endpoints
               PROVE  /\ sweeping'[e] \subseteq stray'[e] \cup ({running'[e]} \ {0})
                      /\ running'[e] # 0 => e \in known'
                      /\ ending'[e] \cap sweeping'[e] = {}
                      /\ \A n \in ending'[e] \cup sweeping'[e] : n <= spawned'[e]
    BY DEF Registered
  <2>1. known' = rows /\ stray' = stray
    BY <1>6 DEF Sync
  <2>2. /\ sweeping[e] \subseteq stray[e] \cup ({running[e]} \ {0})
        /\ running[e] # 0 => e \in known
        /\ ending[e] \cap sweeping[e] = {} /\ \A n \in ending[e] \cup sweeping[e] : n <= spawned[e]
        /\ running[e] \in Nat /\ spawned[e] \in Nat
        /\ ending[e] \subseteq Nat /\ sweeping[e] \subseteq Nat
    BY DEF Registered, TypeOK
  <2>3. CASE e \in Missing
    <3>1. e \in rows /\ running[e] = 0 /\ e \notin Gone
      BY <2>3 DEF Missing, Gone
    <3>2. /\ running'[e] = spawned[e] + 1 /\ sweeping'[e] = sweeping[e] \cup {spawned[e] + 1}
          /\ ending'[e] = ending[e] /\ spawned'[e] = spawned[e] + 1
      BY <1>6, <2>3, <3>1 DEF Sync
    <3>3. spawned[e] + 1 \notin ending[e] /\ spawned[e] + 1 # 0
      BY <2>2
    <3>4. \A n \in ending'[e] \cup sweeping'[e] : n <= spawned'[e]
      <4>1. \A n \in Nat : n <= spawned[e] => n <= spawned[e] + 1
        BY <2>2
      <4>2. spawned[e] + 1 <= spawned[e] + 1
        BY <2>2
      <4> QED BY <2>2, <3>2, <4>1, <4>2
    <3>5. ending'[e] \cap sweeping'[e] = {}
      BY <2>2, <3>2, <3>3
    <3>6. sweeping'[e] \subseteq stray'[e] \cup ({running'[e]} \ {0})
      <4>1. sweeping[e] \subseteq stray[e]
        BY <2>2, <3>1
      <4> QED BY <2>1, <3>2, <3>3, <4>1
    <3> QED BY <2>1, <3>1, <3>4, <3>5, <3>6
  <2>4. CASE e \in Gone
    <3>1. e \notin Missing
      BY <2>4 DEF Missing, Gone
    <3>2. /\ running'[e] = 0 /\ sweeping'[e] = sweeping[e] \ {running[e]}
          /\ ending'[e] = ending[e] \cup (sweeping[e] \cap {running[e]})
          /\ spawned'[e] = spawned[e]
      BY <1>6, <2>2, <2>4, <3>1 DEF Sync
    <3>3. running'[e] # 0 => e \in known'
      BY <3>2
    <3>4. sweeping'[e] \subseteq stray'[e] \cup ({running'[e]} \ {0})
      BY <2>1, <2>2, <3>2
    <3>5. ending'[e] \cap sweeping'[e] = {}
      BY <2>2, <3>2
    <3>6. \A n \in ending'[e] \cup sweeping'[e] : n <= spawned'[e]
      BY <2>2, <3>2
    <3> QED BY <3>3, <3>4, <3>5, <3>6
  <2>5. CASE e \notin Missing /\ e \notin Gone
    <3>1. /\ running'[e] = running[e] /\ sweeping'[e] = sweeping[e] /\ ending'[e] = ending[e]
          /\ spawned'[e] = spawned[e]
      BY <1>6, <2>2, <2>5 DEF Sync
    <3>2. running'[e] # 0 => e \in known'
      BY <2>1, <2>2, <2>5, <3>1 DEF Gone
    <3>3. sweeping'[e] \subseteq stray'[e] \cup ({running'[e]} \ {0})
      BY <2>1, <2>2, <3>1
    <3>4. ending'[e] \cap sweeping'[e] = {} /\ \A n \in ending'[e] \cup sweeping'[e] : n <= spawned'[e]
      BY <2>2, <3>1
    <3> QED BY <3>2, <3>3, <3>4
  <2> QED BY <2>3, <2>4, <2>5
<1>7. CASE UNCHANGED vars
  BY <1>7 DEF vars, Registered
<1> QED BY <1>1, <1>2, <1>3, <1>4, <1>5, <1>6, <1>7 DEF Next

\* However long cancelled sweeps take to end, an endpoint has one sweep that has not lost
\* its entry at most, and none that is unknown has one.
THEOREM EndpointsAreSweptOnce == Spec => []OneSweep
<1>1. SweepInv /\ [Next]_vars => SweepInv'
  BY StepTypes, StepRegistered DEF SweepInv
<1>2. SweepInv => OneSweep
  BY DEF SweepInv, Registered, OneSweep
<1> QED BY InitSweeps, <1>1, <1>2, PTL DEF Spec

\* The registry knows the endpoint, or a sweep it has no entry for goes on.
Swept(e) == e \in known \/ (sweeping[e] \cap stray[e]) \ young[e] # {}

SweepsAside == UNCHANGED <<known, sweeping, stray, young>>

\* Only a removal ends that: a stray sweep neither fails nor is cancelled.
LEMMA SweptStays ==
  ASSUME SweepInv, [Next]_vars, NEW e \in Endpoints, Swept(e), ~(Sync /\ e \in Gone)
  PROVE  Swept(e)'
<1> USE DEF SweepInv
<1>1. CASE SweepsAside
  BY <1>1 DEF SweepsAside, Swept
<1>2. ASSUME NEW f \in Endpoints, Change(f) PROVE SweepsAside
  BY <1>2 DEF Change, SweepsAside
<1>3. CASE Select \/ UNCHANGED vars
  <2> SweepsAside
    BY <1>3 DEF Select, vars, SweepsAside
  <2> QED BY <1>1
<1>4. ASSUME NEW f \in Endpoints, Begin(f) PROVE Swept(e)'
  <2>1. PICK n \in young[f] : young' = [young EXCEPT ![f] = @ \ {n}]
    BY <1>4 DEF Begin
  <2>2. young'[e] \subseteq young[e] /\ UNCHANGED <<known, sweeping, stray>>
    BY <1>4, <2>1 DEF Begin, TypeOK
  <2> QED BY <2>2 DEF Swept
<1>5. ASSUME NEW f \in Endpoints, Fail(f) PROVE Swept(e)'
  <2>1. PICK n \in young[f] : /\ young' = [young EXCEPT ![f] = @ \ {n}]
                              /\ sweeping' = [sweeping EXCEPT ![f] = @ \ {n}]
                              /\ stray' = Strays(f, n)
    BY <1>5 DEF Fail
  <2>2. known' = known
    BY <1>5 DEF Fail
  <2>3. ASSUME NEW m \in (sweeping[e] \cap stray[e]) \ young[e]
        PROVE  m \in (sweeping'[e] \cap stray'[e]) \ young'[e]
    <3>1. e = f => m # n
      OBVIOUS
    <3> QED BY <2>1, <3>1 DEF Strays, TypeOK
  <2> QED BY <2>2, <2>3 DEF Swept
<1>6. ASSUME NEW f \in Endpoints, End(f) PROVE Swept(e)'
  <2>1. PICK n \in ending[f] : stray' = Strays(f, n)
    BY <1>6 DEF End
  <2>2. UNCHANGED <<known, sweeping, young>>
    BY <1>6 DEF End
  <2>3. ASSUME NEW m \in (sweeping[e] \cap stray[e]) \ young[e]
        PROVE  m \in (sweeping'[e] \cap stray'[e]) \ young'[e]
    <3>1. e = f => m # n
      BY DEF Registered
    <3> QED BY <2>1, <2>2, <3>1 DEF Strays, TypeOK
  <2> QED BY <2>2, <2>3 DEF Swept
<1>7. ASSUME Sync, e \notin Gone PROVE Swept(e)'
  <2>1. known' = rows /\ stray' = stray
    BY <1>7 DEF Sync
  <2>2. CASE e \in known
    BY <1>7, <2>1, <2>2 DEF Gone, Swept
  <2>3. CASE e \notin known
    <3>1. PICK m \in (sweeping[e] \cap stray[e]) \ young[e] : TRUE
      BY <2>3 DEF Swept
    <3>2. m \in sweeping'[e]
      BY <1>7, <3>1 DEF Sync
    <3>3. young'[e] = (young[e] \cap sweeping'[e]) \cup (sweeping'[e] \ sweeping[e])
      BY <1>7 DEF Sync
    <3> QED BY <2>1, <3>1, <3>2, <3>3 DEF Swept
  <2> QED BY <2>2, <2>3
<1> QED BY <1>1, <1>2, <1>3, <1>4, <1>5, <1>6, <1>7 DEF Next

-----------------------------------------------------------------------------
(* Folds over lists: induction over finite sets, as the existence of a      *)
(* minimal set.                                                            *)

\* Of the subsets of a finite set, a minimal one can be picked.
LEMMA MinimalSubset ==
  ASSUME NEW S, IsFiniteSet(S), NEW T, T \subseteq SUBSET S, T # {}
  PROVE  \E s \in T : \A t \in T : t \subseteq s => t = s
<1>1. IsWellFoundedOn(StrictSubsetOrdering(S), SUBSET S)
  BY FS_StrictSubsetOrderingWellFounded, FS_FiniteSubsetsOfFinite
<1>2. \E s \in T : \A t \in T : ~ (<<t, s>> \in StrictSubsetOrdering(S))
  BY <1>1, WFMin
<1> QED BY <1>2 DEF StrictSubsetOrdering

\* The greatest number of a finite set that is not empty.
LEMMA MaxIs ==
  ASSUME NEW S, IsFiniteSet(S)
  PROVE  S \subseteq Int /\ S # {} => Max(S) \in S /\ \A y \in S : Max(S) >= y
<1> DEFINE Bad == {s \in SUBSET S : s # {} /\ ~ \E x \in s : \A y \in s : x >= y}
<1>1. Bad # {} => \E s \in Bad : \A t \in Bad : t \subseteq s => t = s
  <2>1. Bad \subseteq SUBSET S
    OBVIOUS
  <2> HIDE DEF Bad
  <2> QED BY <2>1, MinimalSubset
<1>2. ASSUME S \subseteq Int, Bad # {} PROVE FALSE
  <2>1. PICK s \in Bad : \A t \in Bad : t \subseteq s => t = s
    BY <1>1, <1>2, Zenon
  <2>2. PICK x \in s : TRUE
    OBVIOUS
  <2>3. CASE s \ {x} = {}
    BY <1>2, <2>2, <2>3
  <2>4. CASE s \ {x} # {}
    <3>1. s \ {x} \in SUBSET S /\ s \ {x} # s
      BY <2>2
    <3>2. PICK g \in s \ {x} : \A y \in s \ {x} : g >= y
      BY <2>1, <2>4, <3>1
    <3>3. \A y \in s : y = x \/ y \in s \ {x}
      OBVIOUS
    <3>4. x >= g \/ g >= x
      BY <1>2, <2>2, <3>2
    <3> QED BY <1>2, <2>2, <3>2, <3>3, <3>4
  <2> QED BY <2>3, <2>4
<1>3. ASSUME S \subseteq Int, S # {} PROVE \E x \in S : \A y \in S : x >= y
  BY <1>2, <1>3
<1> QED BY <1>3 DEF Max

\* f folds the members of s, taken at the places of every subset of U, with g.
Folds(f, U, base, s, g) ==
  \A T \in SUBSET U :
    f[T] = IF T = {} THEN base ELSE g[<<f[T \ {Max(T)}], s[Max(T)]>>]

LEMMA FoldExists ==
  ASSUME NEW n \in Nat, NEW A, NEW B, NEW base \in A, NEW s \in [1..n -> B],
         NEW g \in [A \X B -> A]
  PROVE  \E f \in [SUBSET (1..n) -> A] : Folds(f, 1..n, base, s, g)
<1> DEFINE S == 1..n
           Good(U) == \E f \in [SUBSET U -> A] : Folds(f, U, base, s, g)
           Bad == {U \in SUBSET S : ~Good(U)}
<1>1. IsFiniteSet(S)
  BY FS_Interval
<1>2. Bad # {} => \E U \in Bad : \A V \in Bad : V \subseteq U => V = U
  <2>1. Bad \subseteq SUBSET S
    OBVIOUS
  <2> HIDE DEF Bad, S
  <2> QED BY <1>1, <2>1, MinimalSubset
<1>3. ASSUME Bad # {} PROVE FALSE
  <2>1. PICK U \in Bad : \A V \in Bad : V \subseteq U => V = U
    BY <1>2, <1>3, Zenon
  <2>2. U \in SUBSET S /\ ~Good(U)
    OBVIOUS
  <2>3. CASE U = {}
    <3> DEFINE f == [T \in {{}} |-> base]
    <3>1. Folds(f, U, base, s, g) /\ f \in [SUBSET U -> A]
      BY <2>3 DEF Folds
    <3> HIDE DEF f
    <3> QED BY <2>2, <3>1
  <2>4. CASE U # {}
    <3> DEFINE m == Max(U)
               V == U \ {m}
    <3>1. \A T \in SUBSET U : T # {} => Max(T) \in T /\ \A y \in T : Max(T) >= y
      <4> SUFFICES ASSUME NEW T \in SUBSET U, T # {}
                   PROVE  Max(T) \in T /\ \A y \in T : Max(T) >= y
        OBVIOUS
      <4>1. T \subseteq Int
        BY <2>2
      <4>2. IsFiniteSet(T)
        <5> HIDE DEF S
        <5> QED BY <1>1, <2>2, FS_Subset
      <4> QED BY <4>1, <4>2, MaxIs
    <3>2. m \in U /\ \A T \in SUBSET U : m \in T => Max(T) = m
      <4>1. m \in U /\ \A y \in U : m >= y
        BY <2>4, <3>1
      <4>2. \A y \in U : y \in Int
        BY <2>2
      <4> HIDE DEF m
      <4>3. ASSUME NEW T \in SUBSET U, m \in T PROVE Max(T) = m
        <5>1. Max(T) \in U /\ Max(T) >= m
          BY <3>1, <4>3
        <5>2. Max(T) \in Int /\ m \in Int /\ m >= Max(T)
          BY <4>1, <4>2, <5>1
        <5> QED BY <5>1, <5>2
      <4> QED BY <4>1, <4>3
    <3>3. Good(V)
      <4>1. V \in SUBSET S /\ V # U /\ V \subseteq U
        BY <2>2, <3>2
      <4> HIDE DEF V, Good
      <4> QED BY <2>1, <4>1
    <3>4. PICK f \in [SUBSET V -> A] : Folds(f, V, base, s, g)
      BY <3>3
    <3> DEFINE h == [T \in SUBSET U |-> IF m \notin T THEN f[T] ELSE g[<<f[T \ {m}], s[m]>>]]
    <3> HIDE DEF m
    <3>5. ASSUME NEW T \in SUBSET U
          PROVE  /\ h[T] = IF T = {} THEN base ELSE g[<<h[T \ {Max(T)}], s[Max(T)]>>]
                 /\ h[T] \in A
      <4>1. CASE m \in T
        <5>1. Max(T) = m /\ T \ {m} \in SUBSET U /\ T \ {m} \in SUBSET V
          BY <3>2, <4>1
        <5>2. h[T \ {m}] = f[T \ {m}] /\ f[T \ {m}] \in A
          BY <3>4, <5>1
        <5>3. s[m] \in B
          BY <2>2, <3>2
        <5>4. h[T] = g[<<f[T \ {m}], s[m]>>]
          BY <4>1
        <5>5. g[<<f[T \ {m}], s[m]>>] \in A
          BY <5>2, <5>3
        <5> HIDE DEF h
        <5> QED BY <4>1, <5>1, <5>2, <5>4, <5>5
      <4>2. CASE m \notin T
        <5>1. T \in SUBSET V
          BY <4>2
        <5>2. f[T] = IF T = {} THEN base ELSE g[<<f[T \ {Max(T)}], s[Max(T)]>>]
          BY <3>4, <5>1 DEF Folds
        <5>3. T # {} => h[T \ {Max(T)}] = f[T \ {Max(T)}]
          BY <4>2
        <5>4. f[T] \in A /\ h[T] = f[T]
          BY <3>4, <4>2, <5>1
        <5> HIDE DEF h
        <5> QED BY <4>2, <5>2, <5>3, <5>4
      <4> QED BY <4>1, <4>2
    <3>6. h \in [SUBSET U -> A]
      <4>1. DOMAIN h = SUBSET U /\ h = [T \in SUBSET U |-> h[T]]
        OBVIOUS
      <4> HIDE DEF h
      <4> QED BY <3>5, <4>1
    <3>7. Folds(h, U, base, s, g)
      <4> HIDE DEF h
      <4> QED BY <3>5 DEF Folds
    <3> HIDE DEF h
    <3> QED BY <2>2, <3>6, <3>7
  <2> QED BY <2>3, <2>4
<1>4. Good(S)
  BY <1>3
<1> QED BY <1>4

\* r consists of members of s at places of T, in their order, and each of them fits the
\* ones before it.
Picked(r, T, s, B, Fits) ==
  /\ r \in Seq(B)
  /\ \E e \in [1..Len(r) -> T] : /\ \A i, j \in 1..Len(r) : i < j => e[i] < e[j]
                                /\ \A i \in 1..Len(r) : r[i] = s[e[i]]
  /\ \A j \in 1..Len(r) :
       \E p \in Seq(B) : /\ Len(p) = j - 1 /\ \A i \in 1..(j - 1) : p[i] = r[i]
                         /\ <<p, r[j]>> \in Fits

\* A fold that takes or leaves one member after the other.
LEMMA PickedOneMore ==
  ASSUME NEW B, NEW Fits, NEW s, NEW T \in SUBSET Nat, NEW x \in Nat,
         \A y \in T : y < x, s[x] \in B,
         NEW r, Picked(r, T, s, B, Fits), <<r, s[x]>> \in Fits
  PROVE  Picked(Append(r, s[x]), T \cup {x}, s, B, Fits)
<1> DEFINE n == Len(r)
           q == Append(r, s[x])
<1>1. /\ r \in Seq(B) /\ n \in Nat /\ q \in Seq(B) /\ Len(q) = n + 1
      /\ \A i \in 1..n : q[i] = r[i]
      /\ q[n + 1] = s[x]
  BY DEF Picked
<1>2. PICK e \in [1..n -> T] : /\ \A i, j \in 1..n : i < j => e[i] < e[j]
                               /\ \A i \in 1..n : r[i] = s[e[i]]
  BY DEF Picked
<1>3. \A j \in 1..n :
        \E p \in Seq(B) : /\ Len(p) = j - 1 /\ \A i \in 1..(j - 1) : p[i] = r[i]
                          /\ <<p, r[j]>> \in Fits
  BY DEF Picked
<1> HIDE DEF n, q
<1> DEFINE d == [i \in 1..(n + 1) |-> IF i \in 1..n THEN e[i] ELSE x]
<1>4. \A i \in 1..(n + 1) : i \in 1..n \/ (i = n + 1 /\ i \notin 1..n)
  BY <1>1
<1>5. /\ d \in [1..(n + 1) -> T \cup {x}]
      /\ \A i, j \in 1..(n + 1) : i < j => d[i] < d[j]
      /\ \A i \in 1..(n + 1) : q[i] = s[d[i]]
  <2>1. d \in [1..(n + 1) -> T \cup {x}]
    BY <1>2, <1>4
  <2>2. ASSUME NEW i \in 1..(n + 1), NEW j \in 1..(n + 1), i < j PROVE d[i] < d[j]
    <3>1. i \in 1..n
      BY <1>1, <2>2
    <3>2. d[i] = e[i] /\ e[i] \in T
      BY <1>2, <3>1
    <3>3. CASE j \in 1..n
      BY <1>2, <2>2, <3>1, <3>2, <3>3
    <3>4. CASE j \notin 1..n
      BY <3>2, <3>4
    <3> QED BY <3>3, <3>4
  <2>3. ASSUME NEW i \in 1..(n + 1) PROVE q[i] = s[d[i]]
    BY <1>1, <1>2, <1>4, <2>3
  <2> QED BY <2>1, <2>2, <2>3
<1>6. ASSUME NEW j \in 1..(n + 1)
      PROVE  \E p \in Seq(B) : /\ Len(p) = j - 1 /\ \A i \in 1..(j - 1) : p[i] = q[i]
                               /\ <<p, q[j]>> \in Fits
  <2>1. CASE j \in 1..n
    <3>1. PICK p \in Seq(B) : /\ Len(p) = j - 1 /\ \A i \in 1..(j - 1) : p[i] = r[i]
                              /\ <<p, r[j]>> \in Fits
      BY <1>3, <2>1
    <3>2. \A i \in 1..(j - 1) : i \in 1..n
      BY <1>1, <2>1
    <3>3. q[j] = r[j] /\ \A i \in 1..(j - 1) : p[i] = q[i]
      BY <1>1, <2>1, <3>1, <3>2
    <3> QED BY <3>1, <3>3
  <2>2. CASE j = n + 1
    <3>1. Len(r) = j - 1 /\ \A i \in 1..(j - 1) : r[i] = q[i]
      BY <1>1, <2>2 DEF n
    <3> QED BY <1>1, <2>2, <3>1
  <2> QED BY <1>4, <2>1, <2>2
<1> HIDE DEF d
<1>7. Picked(q, T \cup {x}, s, B, Fits)
  <2>1. q \in Seq(B) /\ Len(q) = n + 1
    BY <1>1
  <2>2. \E f \in [1..Len(q) -> T \cup {x}] : /\ \A i, j \in 1..Len(q) : i < j => f[i] < f[j]
                                             /\ \A i \in 1..Len(q) : q[i] = s[f[i]]
    BY ONLY <1>5, <2>1
  <2>3. \A j \in 1..Len(q) :
          \E p \in Seq(B) : /\ Len(p) = j - 1 /\ \A i \in 1..(j - 1) : p[i] = q[i]
                            /\ <<p, q[j]>> \in Fits
    BY ONLY <1>6, <2>1
  <2> QED BY ONLY <2>1, <2>2, <2>3 DEF Picked
<1> QED BY <1>7 DEF q

LEMMA PickedMono ==
  ASSUME NEW B, NEW Fits, NEW s, NEW T, NEW U, T \subseteq U, NEW r, Picked(r, T, s, B, Fits)
  PROVE  Picked(r, U, s, B, Fits)
<1>1. \A e \in [1..Len(r) -> T] : e \in [1..Len(r) -> U]
  OBVIOUS
<1> QED BY <1>1 DEF Picked

LEMMA PicksAll ==
  ASSUME NEW n \in Nat, NEW B, NEW Fits, NEW s \in [1..n -> B], NEW f,
         f[{}] = <<>>,
         \A T \in SUBSET (1..n) : T # {} =>
           \/ f[T] = f[T \ {Max(T)}]
           \/ /\ f[T] = Append(f[T \ {Max(T)}], s[Max(T)])
              /\ f[T \ {Max(T)}] \in Seq(B) => <<f[T \ {Max(T)}], s[Max(T)]>> \in Fits
  PROVE  Picked(f[1..n], 1..n, s, B, Fits)
<1> DEFINE S == 1..n
           Good(U) == Picked(f[U], U, s, B, Fits)
           Bad == {U \in SUBSET S : ~Good(U)}
<1>1. IsFiniteSet(S)
  BY FS_Interval
<1>2. Bad # {} => \E U \in Bad : \A V \in Bad : V \subseteq U => V = U
  <2>1. Bad \subseteq SUBSET S
    OBVIOUS
  <2> HIDE DEF Bad, S
  <2> QED BY <1>1, <2>1, MinimalSubset
<1>3. ASSUME Bad # {} PROVE FALSE
  <2>1. PICK U \in Bad : \A V \in Bad : V \subseteq U => V = U
    BY <1>2, <1>3, Zenon
  <2>2. U \in SUBSET S /\ ~Good(U)
    OBVIOUS
  <2>3. U # {}
    <3>1. Picked(<<>>, {}, s, B, Fits)
      <4> DEFINE e == [i \in 1..0 |-> i]
      <4>1. e \in [1..Len(<<>>) -> {}] /\ <<>> \in Seq(B) /\ Len(<<>>) = 0 /\ 1..0 = {}
        OBVIOUS
      <4> HIDE DEF e
      <4> QED BY <4>1 DEF Picked
    <3> QED BY <2>2, <3>1
  <2> DEFINE x == Max(U)
             V == U \ {x}
  <2>4. x \in U /\ \A y \in U : x >= y
    <3>1. U \subseteq Int
      BY <2>2
    <3>2. IsFiniteSet(U)
      <4> HIDE DEF S
      <4> QED BY <1>1, <2>2, FS_Subset
    <3> QED BY <2>3, <3>1, <3>2, MaxIs
  <2>5. \/ f[U] = f[V]
        \/ f[U] = Append(f[V], s[x]) /\ (f[V] \in Seq(B) => <<f[V], s[x]>> \in Fits)
    BY <2>2, <2>3
  <2> HIDE DEF x
  <2>6. x \in 1..n /\ s[x] \in B /\ V \in SUBSET Nat /\ V \subseteq U /\ U = V \cup {x}
        /\ \A y \in V : y < x
    <3>1. x \in 1..n /\ \A y \in V : y \in Nat /\ y # x /\ x >= y
      BY <2>2, <2>4
    <3> HIDE DEF V
    <3>2. \A y \in V : y < x
      BY <3>1
    <3> QED BY <2>2, <2>4, <3>1, <3>2 DEF V
  <2>7. Picked(f[V], V, s, B, Fits)
    <3>1. V \in SUBSET S /\ V # U /\ V \subseteq U
      BY <2>2, <2>4
    <3>2. Good(V)
      <4> HIDE DEF V, Good
      <4> QED BY <2>1, <3>1
    <3> QED BY <3>2
  <2> HIDE DEF V
  <2>8. CASE f[U] = f[V]
    <3>1. Picked(f[U], U, s, B, Fits)
      BY <2>6, <2>7, <2>8, PickedMono
    <3> QED BY <2>2, <3>1
  <2>9. CASE f[U] = Append(f[V], s[x]) /\ (f[V] \in Seq(B) => <<f[V], s[x]>> \in Fits)
    <3>1. <<f[V], s[x]>> \in Fits
      BY <2>7, <2>9 DEF Picked
    <3>2. x \in Nat
      BY <2>6
    <3>3. Picked(Append(f[V], s[x]), V \cup {x}, s, B, Fits)
      BY <2>6, <2>7, <3>1, <3>2, PickedOneMore
    <3>4. Picked(f[U], U, s, B, Fits)
      BY <2>6, <2>9, <3>3
    <3> QED BY <2>2, <3>4
  <2> QED BY <2>5, <2>8, <2>9
<1>4. Good(S)
  BY <1>3
<1> QED BY <1>4

-----------------------------------------------------------------------------
(* The routes.                                                             *)

\* Of the lines of a command, the hops are counted upwards.
LEMMA ParsedIs ==
  ASSUME NEW B, NEW lines \in Seq(B), \A b \in B : b.n \in Nat,
         \A i, j \in DOMAIN lines : i < j => lines[i].n <= lines[j].n
  PROVE  /\ Parsed(lines) \in Seq(B)
         /\ \A i, j \in DOMAIN Parsed(lines) : i < j => Parsed(lines)[i].n < Parsed(lines)[j].n
<1> DEFINE S == DOMAIN lines
           n == Len(lines)
           Seen(hops, l) == \E i \in DOMAIN hops : hops[i].n = l.n
           P(f) == f = [T \in SUBSET S |->
                          IF T = {} THEN <<>>
                          ELSE LET x == Max(T)
                               IN  IF \E i \in DOMAIN f[T \ {x}] : f[T \ {x}][i].n = lines[x].n
                                   THEN f[T \ {x}] ELSE Append(f[T \ {x}], lines[x])]
           Fits == {p \in Seq(B) \X B : ~Seen(p[1], p[2])}
           g == [p \in Seq(B) \X B |-> IF Seen(p[1], p[2]) THEN p[1] ELSE Append(p[1], p[2])]
<1>1. n \in Nat /\ S = 1..n /\ lines \in [1..n -> B]
  OBVIOUS
<1>2. Parsed(lines) = (CHOOSE f : P(f))[S]
  BY DEF Parsed, FoldLeft, MapThenFoldSet
<1>3. \E f : P(f)
  <2>1. PICK f \in [SUBSET (1..n) -> Seq(B)] : Folds(f, 1..n, <<>>, lines, g)
    <3>1. g \in [Seq(B) \X B -> Seq(B)] /\ <<>> \in Seq(B)
      OBVIOUS
    <3> HIDE DEF g, n
    <3> QED BY <1>1, <3>1, FoldExists
  <2>2. ASSUME NEW T \in SUBSET S
        PROVE  f[T] = IF T = {} THEN <<>>
                      ELSE IF \E i \in DOMAIN f[T \ {Max(T)}] :
                                f[T \ {Max(T)}][i].n = lines[Max(T)].n
                           THEN f[T \ {Max(T)}] ELSE Append(f[T \ {Max(T)}], lines[Max(T)])
    <3>1. CASE T = {}
      BY <1>1, <2>1, <3>1 DEF Folds
    <3>2. CASE T # {}
      <4> DEFINE x == Max(T)
                 s == f[T \ {x}]
      <4>1. f[T] = g[<<s, lines[x]>>]
        <5> HIDE DEF g, n, S
        <5> QED BY <1>1, <2>1, <3>2 DEF Folds
      <4>2. x \in T
        <5>1. T \subseteq Int /\ IsFiniteSet(1..n)
          BY <1>1, FS_Interval
        <5>2. IsFiniteSet(T)
          <6> HIDE DEF n, S
          <6> QED BY <1>1, <5>1, FS_Subset
        <5> QED BY <3>2, <5>1, <5>2, MaxIs
      <4> HIDE DEF x
      <4>3. lines[x] \in B /\ s \in Seq(B)
        BY <1>1, <2>1, <4>2
      <4> HIDE DEF s
      <4>4. g[<<s, lines[x]>>] = IF Seen(s, lines[x]) THEN s ELSE Append(s, lines[x])
        BY <4>3
      <4>5. f[T] = IF Seen(s, lines[x]) THEN s ELSE Append(s, lines[x])
        BY <4>1, <4>4
      <4> QED BY <3>2, <4>5 DEF s, x
    <3> QED BY <3>1, <3>2
  <2> HIDE DEF S, g, n, Fits
  <2> DEFINE R(T) == IF T = {} THEN <<>>
                     ELSE LET x == Max(T)
                          IN  IF \E i \in DOMAIN f[T \ {x}] : f[T \ {x}][i].n = lines[x].n
                              THEN f[T \ {x}] ELSE Append(f[T \ {x}], lines[x])
  <2>3. \A T \in SUBSET S : f[T] = R(T)
    BY <2>2
  <2>4. f = [T \in SUBSET S |-> f[T]]
    BY <1>1, <2>1
  <2>5. f = [T \in SUBSET S |-> R(T)]
    BY <2>3, <2>4, Zenon
  <2>6. P(f)
    BY <2>5
  <2> HIDE DEF P
  <2> QED BY <2>6
<1> DEFINE f == CHOOSE h : P(h)
<1>4. P(f)
  <2> HIDE DEF P
  <2> QED BY <1>3
<1>5. Parsed(lines) = f[S]
  BY <1>2
<1> HIDE DEF f
<1>6. f[{}] = <<>>
  BY <1>4
<1>7. ASSUME NEW T \in SUBSET (1..n), T # {}
      PROVE  \/ f[T] = f[T \ {Max(T)}]
             \/ /\ f[T] = Append(f[T \ {Max(T)}], lines[Max(T)])
                /\ f[T \ {Max(T)}] \in Seq(B) => <<f[T \ {Max(T)}], lines[Max(T)]>> \in Fits
  <2>1. T \in SUBSET S
    BY <1>1
  <2> DEFINE x == Max(T)
             s == f[T \ {x}]
  <2>2. f[T] = IF \E i \in DOMAIN s : s[i].n = lines[x].n THEN s ELSE Append(s, lines[x])
    <3> HIDE DEF S
    <3> QED BY <1>4, <1>7, <2>1
  <2>3. x \in T
    <3>1. T \subseteq Int /\ IsFiniteSet(1..n)
      BY <1>1, FS_Interval
    <3>2. IsFiniteSet(T)
      <4> HIDE DEF n, S
      <4> QED BY <3>1, FS_Subset
    <3> QED BY <1>7, <3>1, <3>2, MaxIs
  <2> HIDE DEF x
  <2>4. lines[x] \in B
    BY <1>1, <2>3
  <2> HIDE DEF s
  <2>5. CASE \E i \in DOMAIN s : s[i].n = lines[x].n
    BY <2>2, <2>5 DEF s, x
  <2>6. CASE ~ \E i \in DOMAIN s : s[i].n = lines[x].n
    <3>1. s \in Seq(B) => <<s, lines[x]>> \in Fits
      BY <2>4, <2>6
    <3>2. f[T] = Append(s, lines[x])
      BY <2>2, <2>6
    <3> HIDE DEF Fits
    <3> QED BY <3>1, <3>2 DEF s, x
  <2> QED BY <2>5, <2>6
<1> DEFINE r == f[1..n]
<1>8. Picked(r, 1..n, lines, B, Fits)
  <2> HIDE DEF P, S, n, Fits, g
  <2> QED BY <1>1, <1>6, <1>7, PicksAll
<1>9. Parsed(lines) = r
  BY <1>1, <1>5
<1> HIDE DEF r, n, P
<1>10. r \in Seq(B) /\ Len(r) \in Nat /\ DOMAIN r = 1..Len(r)
  BY <1>8 DEF Picked
<1>11. ASSUME NEW i \in DOMAIN r, NEW j \in DOMAIN r, i < j
       PROVE  r[i].n < r[j].n
  <2> HIDE DEF Fits
  <2>1. PICK e \in [1..Len(r) -> 1..n] : /\ \A a, b \in 1..Len(r) : a < b => e[a] < e[b]
                                         /\ \A a \in 1..Len(r) : r[a] = lines[e[a]]
    BY <1>8 DEF Picked
  <2>2. r[i].n <= r[j].n
    <3>1. e[i] \in DOMAIN lines /\ e[j] \in DOMAIN lines /\ e[i] < e[j]
      BY <1>1, <1>10, <1>11, <2>1
    <3> QED BY <1>10, <2>1, <3>1
  <2>3. PICK p \in Seq(B) : /\ Len(p) = j - 1 /\ \A a \in 1..(j - 1) : p[a] = r[a]
                            /\ <<p, r[j]>> \in Fits
    BY <1>8, <1>10 DEF Picked
  <2>4. i \in 1..(j - 1) /\ i \in DOMAIN p
    BY <1>10, <1>11, <2>3
  <2>5. p[i].n # r[j].n
    BY <2>3, <2>4 DEF Fits
  <2>6. r[i].n \in Nat /\ r[j].n \in Nat
    BY <1>10
  <2> QED BY <2>2, <2>3, <2>4, <2>5, <2>6
<1> QED BY <1>9, <1>10, <1>11

\* The hops that are left are still counted upwards, and no two silent ones follow one
\* another.
LEMMA CollapsedIs ==
  ASSUME NEW B, NEW hops \in Seq(B), \A b \in B : b.n \in Nat,
         \A i, j \in DOMAIN hops : i < j => hops[i].n < hops[j].n
  PROVE  LET r == Collapsed(hops)
         IN  /\ r \in Seq(B)
             /\ \A j \in 1..(Len(r) - 1) : /\ r[j].n < r[j + 1].n
                                           /\ {r[j].from, r[j + 1].from} # {Silent}
<1> DEFINE S == DOMAIN hops
           n == Len(hops)
           Quiet(kept, h) == kept # <<>> /\ Last(kept).from = Silent /\ h.from = Silent
           P(f) == f = [T \in SUBSET S |->
                          IF T = {} THEN <<>>
                          ELSE LET x == Max(T)
                               IN  IF /\ f[T \ {x}] # <<>> /\ Last(f[T \ {x}]).from = Silent
                                      /\ hops[x].from = Silent
                                   THEN f[T \ {x}] ELSE Append(f[T \ {x}], hops[x])]
           Fits == {p \in Seq(B) \X B : ~Quiet(p[1], p[2])}
           g == [p \in Seq(B) \X B |-> IF Quiet(p[1], p[2]) THEN p[1] ELSE Append(p[1], p[2])]
<1>1. n \in Nat /\ S = 1..n /\ hops \in [1..n -> B]
  OBVIOUS
<1>2. Collapsed(hops) = (CHOOSE f : P(f))[S]
  BY DEF Collapsed, FoldLeft, MapThenFoldSet
<1>3. \E f : P(f)
  <2>1. PICK f \in [SUBSET (1..n) -> Seq(B)] : Folds(f, 1..n, <<>>, hops, g)
    <3>1. g \in [Seq(B) \X B -> Seq(B)] /\ <<>> \in Seq(B)
      OBVIOUS
    <3> HIDE DEF g, n
    <3> QED BY <1>1, <3>1, FoldExists
  <2>2. ASSUME NEW T \in SUBSET S
        PROVE  f[T] = IF T = {} THEN <<>>
                      ELSE IF /\ f[T \ {Max(T)}] # <<>> /\ Last(f[T \ {Max(T)}]).from = Silent
                              /\ hops[Max(T)].from = Silent
                           THEN f[T \ {Max(T)}] ELSE Append(f[T \ {Max(T)}], hops[Max(T)])
    <3>1. CASE T = {}
      BY <1>1, <2>1, <3>1 DEF Folds
    <3>2. CASE T # {}
      <4> DEFINE x == Max(T)
                 s == f[T \ {x}]
      <4>1. f[T] = g[<<s, hops[x]>>]
        <5> HIDE DEF g, n, S
        <5> QED BY <1>1, <2>1, <3>2 DEF Folds
      <4>2. x \in T
        <5>1. T \subseteq Int /\ IsFiniteSet(1..n)
          BY <1>1, FS_Interval
        <5>2. IsFiniteSet(T)
          <6> HIDE DEF n, S
          <6> QED BY <1>1, <5>1, FS_Subset
        <5> QED BY <3>2, <5>1, <5>2, MaxIs
      <4> HIDE DEF x
      <4>3. hops[x] \in B /\ s \in Seq(B)
        BY <1>1, <2>1, <4>2
      <4> HIDE DEF s
      <4>4. g[<<s, hops[x]>>] = IF Quiet(s, hops[x]) THEN s ELSE Append(s, hops[x])
        BY <4>3
      <4>5. f[T] = IF Quiet(s, hops[x]) THEN s ELSE Append(s, hops[x])
        BY <4>1, <4>4
      <4> QED BY <3>2, <4>5 DEF s, x
    <3> QED BY <3>1, <3>2
  <2> HIDE DEF S, g, n, Fits
  <2> DEFINE R(T) == IF T = {} THEN <<>>
                     ELSE LET x == Max(T)
                          IN  IF /\ f[T \ {x}] # <<>> /\ Last(f[T \ {x}]).from = Silent
                                 /\ hops[x].from = Silent
                              THEN f[T \ {x}] ELSE Append(f[T \ {x}], hops[x])
  <2>3. \A T \in SUBSET S : f[T] = R(T)
    BY <2>2
  <2>4. f = [T \in SUBSET S |-> f[T]]
    BY <1>1, <2>1
  <2>5. f = [T \in SUBSET S |-> R(T)]
    BY <2>3, <2>4, Zenon
  <2>6. P(f)
    BY <2>5
  <2> HIDE DEF P
  <2> QED BY <2>6
<1> DEFINE f == CHOOSE h : P(h)
<1>4. P(f)
  <2> HIDE DEF P
  <2> QED BY <1>3
<1>5. Collapsed(hops) = f[S]
  BY <1>2
<1> HIDE DEF f
<1>6. f[{}] = <<>>
  BY <1>4
<1>7. ASSUME NEW T \in SUBSET (1..n), T # {}
      PROVE  \/ f[T] = f[T \ {Max(T)}]
             \/ /\ f[T] = Append(f[T \ {Max(T)}], hops[Max(T)])
                /\ f[T \ {Max(T)}] \in Seq(B) => <<f[T \ {Max(T)}], hops[Max(T)]>> \in Fits
  <2>1. T \in SUBSET S
    BY <1>1
  <2> DEFINE x == Max(T)
             s == f[T \ {x}]
  <2>2. f[T] = IF s # <<>> /\ Last(s).from = Silent /\ hops[x].from = Silent THEN s ELSE Append(s, hops[x])
    <3> HIDE DEF S
    <3> QED BY <1>4, <1>7, <2>1
  <2>3. x \in T
    <3>1. T \subseteq Int /\ IsFiniteSet(1..n)
      BY <1>1, FS_Interval
    <3>2. IsFiniteSet(T)
      <4> HIDE DEF n, S
      <4> QED BY <3>1, FS_Subset
    <3> QED BY <1>7, <3>1, <3>2, MaxIs
  <2> HIDE DEF x
  <2>4. hops[x] \in B
    BY <1>1, <2>3
  <2> HIDE DEF s
  <2>5. CASE s # <<>> /\ Last(s).from = Silent /\ hops[x].from = Silent
    BY <2>2, <2>5 DEF s, x
  <2>6. CASE ~ (s # <<>> /\ Last(s).from = Silent /\ hops[x].from = Silent)
    <3>1. s \in Seq(B) => <<s, hops[x]>> \in Fits
      BY <2>4, <2>6
    <3>2. f[T] = Append(s, hops[x])
      BY <2>2, <2>6
    <3> HIDE DEF Fits
    <3> QED BY <3>1, <3>2 DEF s, x
  <2> QED BY <2>5, <2>6
<1> DEFINE r == f[1..n]
<1>8. Picked(r, 1..n, hops, B, Fits)
  <2> HIDE DEF P, S, n, Fits, g
  <2> QED BY <1>1, <1>6, <1>7, PicksAll
<1>9. Collapsed(hops) = r
  BY <1>1, <1>5
<1> HIDE DEF r, n, P
<1>10. r \in Seq(B) /\ Len(r) \in Nat /\ DOMAIN r = 1..Len(r)
  BY <1>8 DEF Picked
<1>11. ASSUME NEW j \in 1..(Len(r) - 1)
       PROVE  r[j].n < r[j + 1].n /\ {r[j].from, r[j + 1].from} # {Silent}
  <2> HIDE DEF Fits
  <2>1. j \in 1..Len(r) /\ j + 1 \in 1..Len(r) /\ j < j + 1 /\ j \in Nat /\ (j + 1) - 1 = j
    BY <1>10
  <2>2. PICK e \in [1..Len(r) -> 1..n] : /\ \A a, b \in 1..Len(r) : a < b => e[a] < e[b]
                                         /\ \A a \in 1..Len(r) : r[a] = hops[e[a]]
    BY <1>8 DEF Picked
  <2>3. r[j].n < r[j + 1].n
    <3>1. e[j] \in DOMAIN hops /\ e[j + 1] \in DOMAIN hops /\ e[j] < e[j + 1]
      BY <1>1, <2>1, <2>2
    <3> QED BY <2>1, <2>2, <3>1
  <2>4. PICK p \in Seq(B) : /\ Len(p) = j /\ \A a \in 1..j : p[a] = r[a]
                            /\ <<p, r[j + 1]>> \in Fits
    <3>1. \A k \in 1..Len(r) :
            \E p \in Seq(B) : /\ Len(p) = k - 1 /\ \A a \in 1..(k - 1) : p[a] = r[a]
                              /\ <<p, r[k]>> \in Fits
      BY <1>8 DEF Picked
    <3> QED BY <2>1, <3>1
  <2>5. p # <<>> /\ Last(p) = r[j]
    <3>1. j \in 1..j /\ j # 0
      BY <2>1
    <3>2. Last(p) = p[j] /\ p # <<>>
      BY <2>4, <3>1 DEF Last
    <3> QED BY <2>4, <3>1, <3>2
  <2>6. ~(r[j].from = Silent /\ r[j + 1].from = Silent)
    BY <2>4, <2>5 DEF Fits
  <2> QED BY <2>3, <2>6
<1> QED BY <1>9, <1>10, <1>11

\* Of the waiters those stay whose traces are not cancelled, in the order they came in.
LEMMA WaitingIs ==
  ASSUME NEW B, queue \in Seq(B), B \subseteq Nat, NEW ts,
         \A i, j \in DOMAIN queue : i < j => queue[i] < queue[j]
  PROVE  LET r == Waiting(ts)
         IN  /\ r \in Seq(B)
             /\ \A i \in DOMAIN r : ts[r[i]].cut = "no" /\ \E a \in DOMAIN queue : r[i] = queue[a]
             /\ \A i, j \in DOMAIN r : i < j => r[i] < r[j]
<1> DEFINE S == DOMAIN queue
           n == Len(queue)
           P(f) == f = [T \in SUBSET S |->
                          IF T = {} THEN <<>>
                          ELSE LET x == Max(T)
                               IN  IF ts[queue[x]].cut = "no"
                                   THEN Append(f[T \ {x}], queue[x]) ELSE f[T \ {x}]]
           Fits == {p \in Seq(B) \X B : ts[p[2]].cut = "no"}
           g == [p \in Seq(B) \X B |-> IF ts[p[2]].cut = "no" THEN Append(p[1], p[2]) ELSE p[1]]
<1>1. n \in Nat /\ S = 1..n /\ queue \in [1..n -> B]
  OBVIOUS
<1>2. Waiting(ts) = (CHOOSE f : P(f))[S]
  BY DEF Waiting, FoldLeft, MapThenFoldSet
<1>3. \E f : P(f)
  <2>1. PICK f \in [SUBSET (1..n) -> Seq(B)] : Folds(f, 1..n, <<>>, queue, g)
    <3>1. g \in [Seq(B) \X B -> Seq(B)] /\ <<>> \in Seq(B)
      OBVIOUS
    <3> HIDE DEF g, n
    <3> QED BY <1>1, <3>1, FoldExists
  <2>2. ASSUME NEW T \in SUBSET S
        PROVE  f[T] = IF T = {} THEN <<>>
                      ELSE IF ts[queue[Max(T)]].cut = "no"
                           THEN Append(f[T \ {Max(T)}], queue[Max(T)]) ELSE f[T \ {Max(T)}]
    <3>1. CASE T = {}
      BY <1>1, <2>1, <3>1 DEF Folds
    <3>2. CASE T # {}
      <4> DEFINE x == Max(T)
                 s == f[T \ {x}]
      <4>1. f[T] = g[<<s, queue[x]>>]
        <5> HIDE DEF g, n, S
        <5> QED BY <1>1, <2>1, <3>2 DEF Folds
      <4>2. x \in T
        <5>1. T \subseteq Int /\ IsFiniteSet(1..n)
          BY <1>1, FS_Interval
        <5>2. IsFiniteSet(T)
          <6> HIDE DEF n, S
          <6> QED BY <1>1, <5>1, FS_Subset
        <5> QED BY <3>2, <5>1, <5>2, MaxIs
      <4> HIDE DEF x
      <4>3. queue[x] \in B /\ s \in Seq(B)
        BY <1>1, <2>1, <4>2
      <4> HIDE DEF s
      <4>4. g[<<s, queue[x]>>] = IF ts[queue[x]].cut = "no" THEN Append(s, queue[x]) ELSE s
        BY <4>3
      <4>5. f[T] = IF ts[queue[x]].cut = "no" THEN Append(s, queue[x]) ELSE s
        BY <4>1, <4>4
      <4> QED BY <3>2, <4>5 DEF s, x
    <3> QED BY <3>1, <3>2
  <2> HIDE DEF S, g, n, Fits
  <2> DEFINE R(T) == IF T = {} THEN <<>>
                     ELSE LET x == Max(T)
                          IN  IF ts[queue[x]].cut = "no"
                              THEN Append(f[T \ {x}], queue[x]) ELSE f[T \ {x}]
  <2>3. \A T \in SUBSET S : f[T] = R(T)
    BY <2>2
  <2>4. f = [T \in SUBSET S |-> f[T]]
    BY <1>1, <2>1
  <2>5. f = [T \in SUBSET S |-> R(T)]
    BY <2>3, <2>4, Zenon
  <2>6. P(f)
    BY <2>5
  <2> HIDE DEF P
  <2> QED BY <2>6
<1> DEFINE f == CHOOSE h : P(h)
<1>4. P(f)
  <2> HIDE DEF P
  <2> QED BY <1>3
<1>5. Waiting(ts) = f[S]
  BY <1>2
<1> HIDE DEF f
<1>6. f[{}] = <<>>
  BY <1>4
<1>7. ASSUME NEW T \in SUBSET (1..n), T # {}
      PROVE  \/ f[T] = f[T \ {Max(T)}]
             \/ /\ f[T] = Append(f[T \ {Max(T)}], queue[Max(T)])
                /\ f[T \ {Max(T)}] \in Seq(B) => <<f[T \ {Max(T)}], queue[Max(T)]>> \in Fits
  <2>1. T \in SUBSET S
    BY <1>1
  <2> DEFINE x == Max(T)
             s == f[T \ {x}]
  <2>2. f[T] = IF ts[queue[x]].cut = "no" THEN Append(s, queue[x]) ELSE s
    <3> HIDE DEF S
    <3> QED BY <1>4, <1>7, <2>1
  <2>3. x \in T
    <3>1. T \subseteq Int /\ IsFiniteSet(1..n)
      BY <1>1, FS_Interval
    <3>2. IsFiniteSet(T)
      <4> HIDE DEF n, S
      <4> QED BY <3>1, FS_Subset
    <3> QED BY <1>7, <3>1, <3>2, MaxIs
  <2> HIDE DEF x
  <2>4. queue[x] \in B
    BY <1>1, <2>3
  <2> HIDE DEF s
  <2>5. CASE ts[queue[x]].cut # "no"
    BY <2>2, <2>5 DEF s, x
  <2>6. CASE ts[queue[x]].cut = "no"
    <3>1. s \in Seq(B) => <<s, queue[x]>> \in Fits
      BY <2>4, <2>6
    <3>2. f[T] = Append(s, queue[x])
      BY <2>2, <2>6
    <3> HIDE DEF Fits
    <3> QED BY <3>1, <3>2 DEF s, x
  <2> QED BY <2>5, <2>6
<1> DEFINE r == f[1..n]
<1>8. Picked(r, 1..n, queue, B, Fits)
  <2> HIDE DEF P, S, n, Fits, g
  <2> QED BY <1>1, <1>6, <1>7, PicksAll
<1>9. Waiting(ts) = r
  BY <1>1, <1>5
<1> HIDE DEF r, n, P
<1>10. r \in Seq(B) /\ Len(r) \in Nat /\ DOMAIN r = 1..Len(r)
  BY <1>8 DEF Picked
<1>11. PICK e \in [1..Len(r) -> 1..n] : /\ \A a, b \in 1..Len(r) : a < b => e[a] < e[b]
                                        /\ \A a \in 1..Len(r) : r[a] = queue[e[a]]
  BY <1>8 DEF Picked
<1>12. ASSUME NEW i \in DOMAIN r PROVE ts[r[i]].cut = "no" /\ \E a \in DOMAIN queue : r[i] = queue[a]
  <2>1. \E p \in Seq(B) : <<p, r[i]>> \in Fits
    <3> HIDE DEF Fits
    <3> QED BY <1>8, <1>10 DEF Picked
  <2>2. ts[r[i]].cut = "no"
    BY <2>1
  <2>3. e[i] \in DOMAIN queue /\ r[i] = queue[e[i]]
    BY <1>1, <1>10, <1>11
  <2> QED BY <2>2, <2>3
<1>13. ASSUME NEW i \in DOMAIN r, NEW j \in DOMAIN r, i < j PROVE r[i] < r[j]
  <2>1. e[i] \in DOMAIN queue /\ e[j] \in DOMAIN queue /\ e[i] < e[j]
    BY <1>1, <1>10, <1>11, <1>13
  <2> QED BY <1>10, <1>11, <2>1
<1> QED BY <1>9, <1>10, <1>12, <1>13

\* A route that counts its hops upwards, has no two silent ones in a row and leads to e.
Whole(hops, e) ==
  /\ hops # <<>> /\ Last(hops).from = e
  /\ \A j \in 1..(Len(hops) - 1) : /\ hops[j].n < hops[j + 1].n
                                   /\ {hops[j].from, hops[j + 1].from} # {Silent}

\* What a trace of an on-link endpoint records.
OneHop(e) == <<[n |-> 1, from |-> e]>>

\* Whatever hops were found, the route that is recorded leads to the endpoint.
LEMMA SanitizedIs ==
  ASSUME NEW e \in Endpoints, NEW B, NEW hops \in Seq(B), \A b \in B : b.n \in Nat,
         \A i, j \in DOMAIN hops : i < j => hops[i].n < hops[j].n
  PROVE  Whole(Sanitized(hops, e), e)
<1> DEFINE kept == Collapsed(hops)
           n == Len(kept)
           h == [n |-> IF kept = <<>> THEN 1 ELSE Last(kept).n + 1, from |-> e]
<1>1. /\ kept \in Seq(B)
      /\ \A j \in 1..(n - 1) : /\ kept[j].n < kept[j + 1].n
                               /\ {kept[j].from, kept[j + 1].from} # {Silent}
  BY CollapsedIs
<1>2. Sanitized(hops, e) = IF kept # <<>> /\ Last(kept).from = e THEN kept ELSE Append(kept, h)
  BY DEF Sanitized
<1> HIDE DEF kept
<1>3. CASE kept # <<>> /\ Last(kept).from = e
  <2>1. Whole(kept, e)
    BY <1>1, <1>3 DEF Whole
  <2> QED BY <1>2, <1>3, <2>1
<1>4. CASE ~(kept # <<>> /\ Last(kept).from = e)
  <2> DEFINE C == B \cup {h}
             r == Append(kept, h)
  <2>1. h.from = e /\ (kept # <<>> => h.n = Last(kept).n + 1)
    OBVIOUS
  <2> HIDE DEF h
  <2>2. kept \in Seq(C) /\ h \in C /\ n \in Nat
    <3>1. kept \in [1..n -> C] /\ n \in Nat
      BY <1>1
    <3> QED BY <3>1
  <2> HIDE DEF C
  <2>3. /\ r \in Seq(C) /\ Len(r) = n + 1 /\ r[n + 1] = h
        /\ \A i \in 1..n : r[i] = kept[i]
    BY <2>2
  <2> HIDE DEF r
  <2>4. r # <<>> /\ Last(r) = h
    BY <2>2, <2>3 DEF Last
  <2>5. ASSUME NEW j \in 1..n
        PROVE  r[j].n < r[j + 1].n /\ {r[j].from, r[j + 1].from} # {Silent}
    <3>1. CASE j = n
      <4>1. kept # <<>> /\ Last(kept) = kept[n] /\ kept[n] \in B
        BY <1>1, <2>2, <3>1 DEF Last
      <4>2. r[j] = kept[n] /\ r[j + 1] = h
        BY <2>3, <3>1
      <4>3. h.n = kept[n].n + 1 /\ kept[n].n \in Nat
        BY <2>1, <4>1
      <4>4. e # Silent
        BY TraceAssumption
      <4>5. r[j].n < r[j + 1].n
        BY <4>2, <4>3
      <4> QED BY <2>1, <4>2, <4>4, <4>5
    <3>2. CASE j # n
      <4>1. j \in 1..(n - 1) /\ j \in 1..n /\ j + 1 \in 1..n
        BY <2>2, <3>2
      <4> QED BY <1>1, <2>3, <4>1
    <3> QED BY <3>1, <3>2
  <2>6. Len(r) - 1 = n
    BY <2>2, <2>3
  <2>7. Whole(r, e)
    BY <2>1, <2>4, <2>5, <2>6 DEF Whole
  <2> QED BY <1>2, <1>4, <2>7 DEF r
<1> QED BY <1>3, <1>4

\* What any command prints, and what stands in for it, becomes such a route.
LEMMA EveryRoute ==
  ASSUME NEW e \in Endpoints
  PROVE  /\ \A route \in Routes[e] : Whole(route, e)
         /\ Whole(Direct[e], e) /\ Whole(OneHop(e), e)
<1>1. ASSUME NEW lines \in Outputs(e)
      PROVE  Whole(Sanitized(Parsed(lines), e), e)
  <2> DEFINE B == ToSet(lines)
  <2>1. /\ lines \in Seq(B) /\ \A b \in B : b.n \in Nat
        /\ \A i, j \in DOMAIN lines : i < j => lines[i].n <= lines[j].n
    BY OutputsAssumption
  <2> HIDE DEF B
  <2>2. /\ Parsed(lines) \in Seq(B)
        /\ \A i, j \in DOMAIN Parsed(lines) : i < j => Parsed(lines)[i].n < Parsed(lines)[j].n
    BY <2>1, ParsedIs
  <2> QED BY <2>1, <2>2, SanitizedIs
<1>2. Whole(Sanitized(<<>>, e), e)
  <2> DEFINE B == {}
             hops == <<>>
  <2>1. /\ hops \in Seq(B) /\ \A b \in B : b.n \in Nat
        /\ \A i, j \in DOMAIN hops : i < j => hops[i].n < hops[j].n
    OBVIOUS
  <2> HIDE DEF B, hops
  <2>2. Whole(Sanitized(hops, e), e)
    BY <2>1, SanitizedIs
  <2> QED BY <2>2 DEF hops
<1>3. Whole(OneHop(e), e)
  BY DEF Whole, OneHop, Last
<1> QED BY <1>1, <1>2, <1>3 DEF Routes, Direct

-----------------------------------------------------------------------------
(* The traces in the registry.                                             *)

Paths ==
  (UNION {Routes[e] : e \in Endpoints}) \cup {Direct[e] : e \in Endpoints}
  \cup {OneHop(e) : e \in Endpoints} \cup {<<>>}

TraceType ==
  [of : Endpoints, at : Commands \cup {"queued", "pause", "save", "over"},
   cut : {"no", "asked", "ignored"}, hops : Paths]

TTypes ==
  /\ traces \in Seq(TraceType)
  /\ tracked \in [Endpoints -> SUBSET (DOMAIN traces)]
  /\ queue \in Seq(Nat)

\* Those that wait have not begun, are not cancelled, and wait in the order they came in.
Queued ==
  /\ \A a \in DOMAIN queue : /\ queue[a] \in DOMAIN traces
                            /\ traces[queue[a]].at = "queued" /\ traces[queue[a]].cut = "no"
  /\ \A a, b \in DOMAIN queue : a < b => queue[a] < queue[b]

Live == {i \in DOMAIN traces : InFlight(i) /\ traces[i].cut = "no"}

Tracked ==
  /\ Cardinality(Live) <= Limit
  /\ \A i \in Live : Swept(traces[i].of) /\ i \in tracked[traces[i].of]

Found ==
  \A i \in DOMAIN traces :
    traces[i].at \in {"pause", "save"} => Whole(traces[i].hops, traces[i].of)

TInv == TTypes /\ Queued /\ Found


\* What happens to the traces is a step of the registry or none at all.
LEMMA RegistrySteps ==
  /\ TInit => Init
  /\ [TNext]_tvars => [Next]_vars
<1>1. TInit => Init
  BY DEF TInit
<1>2. ASSUME TNext PROVE [Next]_vars
  <2>1. CASE RegistryOnly
    BY <2>1 DEF RegistryOnly, Next
  <2>2. CASE SyncTraces
    BY <2>2 DEF SyncTraces, Next
  <2>3. CASE \E e \in Endpoints : Trigger(e)
    BY <2>3 DEF Trigger
  <2>4. CASE Acquire
    BY <2>4 DEF Acquire
  <2>5. ASSUME NEW i \in DOMAIN traces, Answers(i) \/ NoAnswer(i) \/ Pause(i) \/ Save(i) \/ Ends(i)
        PROVE  vars' = vars
    BY <2>5 DEF Answers, NoAnswer, Pause, Save, Ends, Over
  <2> QED BY <1>2, <2>1, <2>2, <2>3, <2>4, <2>5 DEF TNext
<1>3. UNCHANGED tvars => UNCHANGED vars
  BY DEF tvars
<1> QED BY <1>1, <1>2, <1>3

\* The sweeps of the traced registry are those of the registry alone.
THEOREM TracesImplementRegistry == TSpec => Spec
BY RegistrySteps, PTL DEF TSpec, Spec

\* An endpoint is not swept twice at a time either when its sweeps start traces.
THEOREM TracedEndpointsAreSweptOnce == TSpec => []OneSweep
BY TracesImplementRegistry, EndpointsAreSweptOnce, PTL

LEMMA TraceFacts ==
  ASSUME TTypes
  PROVE  /\ Len(traces) \in Nat /\ DOMAIN traces = 1..Len(traces) /\ IsFiniteSet(DOMAIN traces)
         /\ \A i \in DOMAIN traces :
              /\ traces[i] \in TraceType
              /\ traces[i].of \in Endpoints /\ traces[i].hops \in Paths
              /\ traces[i].at \in Commands \cup {"queued", "pause", "save", "over"}
              /\ traces[i].cut \in {"no", "asked", "ignored"}
<1> DEFINE n == Len(traces)
<1>1. n \in Nat /\ DOMAIN traces = 1..n /\ \A i \in DOMAIN traces : traces[i] \in TraceType
  BY DEF TTypes
<1> HIDE DEF n
<1>2. IsFiniteSet(1..n)
  <2>1. 1 \in Int /\ n \in Int
    BY <1>1
  <2> QED BY <2>1, FS_Interval
<1> QED BY <1>1, <1>2 DEF TraceType, n

\* A step of trace i.
LEMMA TraceChanges ==
  ASSUME TTypes, NEW i \in DOMAIN traces, NEW t \in TraceType,
         traces' = [traces EXCEPT ![i] = t]
  PROVE  /\ traces' \in Seq(TraceType) /\ DOMAIN traces' = DOMAIN traces
         /\ traces'[i] = t
         /\ \A k \in DOMAIN traces : k # i => traces'[k] = traces[k]
BY DEF TTypes

LEMMA StepTraces ==
  ASSUME TInv, NEW i \in DOMAIN traces,
         Answers(i) \/ NoAnswer(i) \/ Pause(i) \/ Save(i) \/ Ends(i)
  PROVE  \E t \in TraceType :
           /\ traces' = [traces EXCEPT ![i] = t]
           /\ t.of = traces[i].of /\ InFlight(i)
           /\ t.cut = "no" => traces[i].cut = "no"
           /\ t.at \in {"pause", "save"} => Whole(t.hops, t.of)
           /\ traces[i].at # "queued" \/ traces[i].cut # "no"
           /\ queue' = queue /\ SweepsAside
           /\ \/ tracked' = tracked
              \/ t.at = "over" /\ tracked' = [tracked EXCEPT ![traces[i].of] = @ \ {i}]
<1> DEFINE o == traces[i]
<1>1. o \in TraceType /\ traces \in Seq(TraceType) /\ o.of \in Endpoints
  BY TraceFacts DEF TInv, TTypes
<1>2. o.at \in {"pause", "save"} => Whole(o.hops, o.of)
  BY DEF TInv, Found
<1>4. Swallowed(o.cut) \in {"no", "asked", "ignored"} /\ (Swallowed(o.cut) = "no" => o.cut = "no")
  BY <1>1 DEF Swallowed, TraceType
<1>5. CASE Answers(i)
  <2>1. PICK route \in Routes[o.of] :
          traces' = [traces EXCEPT ![i].at = "pause", ![i].hops = route, ![i].cut = Swallowed(@)]
    BY <1>5 DEF Answers
  <2> DEFINE t == [o EXCEPT !.at = "pause", !.hops = route, !.cut = Swallowed(@)]
  <2>2. traces' = [traces EXCEPT ![i] = t]
    BY <1>1, <2>1
  <2>8. route \in Paths
    BY <1>1 DEF Paths
  <2>3. t \in TraceType
    BY <1>1, <1>4, <2>8 DEF TraceType
  <2>4. t.of = o.of /\ t.cut = Swallowed(o.cut) /\ t.hops = route
    BY <1>1 DEF TraceType
  <2> HIDE DEF t
  <2>5. Whole(route, o.of)
    BY <1>1, EveryRoute
  <2>6. o.at \in Commands /\ o.at # "queued" /\ InFlight(i)
    BY <1>5 DEF Answers, Commands, InFlight
  <2>7. UNCHANGED <<queue, tracked>> /\ SweepsAside
    BY <1>5 DEF Answers, vars, SweepsAside
  <2> QED BY <1>4, <2>2, <2>3, <2>4, <2>5, <2>6, <2>7
<1>6. CASE NoAnswer(i)
  <2> DEFINE r == IF o.at = "tracepath" THEN Direct[o.of] ELSE o.hops
             t == [o EXCEPT !.at = After(@), !.cut = Swallowed(@), !.hops = r]
  <2>1. o.at \in Commands
    BY <1>6 DEF NoAnswer
  <2>2. traces' = [traces EXCEPT ![i] = t]
    BY <1>1, <1>6 DEF NoAnswer
  <2>3. t \in TraceType
    <3>1. r \in Paths
      <4>1. Direct[o.of] \in Paths
        BY <1>1 DEF Paths
      <4>2. o.hops \in Paths
        BY <1>1 DEF TraceType
      <4> QED BY <4>1, <4>2
    <3>2. After(o.at) \in Commands \cup {"queued", "pause", "save", "over"}
      BY <2>1 DEF After, Commands
    <3> HIDE DEF r
    <3> QED BY <1>1, <1>4, <3>1, <3>2 DEF TraceType
  <2>4. t.of = o.of /\ t.cut = Swallowed(o.cut) /\ t.hops = r /\ t.at = After(o.at)
    BY <1>1 DEF TraceType
  <2> HIDE DEF t
  <2>5. t.at \in {"pause", "save"} => Whole(t.hops, t.of)
    <3>1. Whole(Direct[o.of], o.of)
      BY <1>1, EveryRoute
    <3>2. t.at \in {"pause", "save"} => o.at = "tracepath"
      BY <2>1, <2>4 DEF After, Commands
    <3> QED BY <2>4, <3>1, <3>2
  <2>6. o.at # "queued" /\ InFlight(i)
    BY <2>1 DEF Commands, InFlight
  <2>7. UNCHANGED <<queue, tracked>> /\ SweepsAside
    BY <1>6 DEF NoAnswer, vars, SweepsAside
  <2> QED BY <1>4, <2>2, <2>3, <2>4, <2>5, <2>6, <2>7
<1>7. CASE Pause(i)
  <2> DEFINE t == [o EXCEPT !.at = "save"]
  <2>1. o.at = "pause" /\ InFlight(i)
    BY <1>7 DEF Pause, InFlight
  <2>2. traces' = [traces EXCEPT ![i] = t]
    BY <1>1, <1>7 DEF Pause
  <2>3. t \in TraceType
    BY <1>1 DEF TraceType
  <2>4. t.of = o.of /\ t.cut = o.cut /\ t.hops = o.hops
    BY <1>1 DEF TraceType
  <2> HIDE DEF t
  <2>5. UNCHANGED <<queue, tracked>> /\ SweepsAside
    BY <1>7 DEF Pause, vars, SweepsAside
  <2> QED BY <1>2, <2>1, <2>2, <2>3, <2>4, <2>5
<1>8. CASE Over(i) /\ InFlight(i) /\ (o.at = "save" \/ o.cut = "asked")
  <2> DEFINE t == [o EXCEPT !.at = "over", !.hops = <<>>]
  <2>1. traces' = [traces EXCEPT ![i] = t]
    BY <1>1, <1>8 DEF Over
  <2>5. <<>> \in Paths
    BY DEF Paths
  <2>2. t \in TraceType
    BY <1>1, <2>5 DEF TraceType
  <2>3. t.of = o.of /\ t.cut = o.cut /\ t.at = "over"
    BY <1>1 DEF TraceType
  <2> HIDE DEF t
  <2>4. queue' = queue /\ SweepsAside /\ tracked' = [tracked EXCEPT ![o.of] = @ \ {i}]
    BY <1>8 DEF Over, Untracked, vars, SweepsAside
  <2> QED BY <1>8, <2>1, <2>2, <2>3, <2>4
<1> QED BY <1>5, <1>6, <1>7, <1>8 DEF Save, Ends, InFlight

LEMMA TracesKept ==
  ASSUME TInv, NEW i \in DOMAIN traces,
         Answers(i) \/ NoAnswer(i) \/ Pause(i) \/ Save(i) \/ Ends(i)
  PROVE  TInv'
<1>1. PICK t \in TraceType :
        /\ traces' = [traces EXCEPT ![i] = t]
        /\ t.of = traces[i].of
        /\ t.at \in {"pause", "save"} => Whole(t.hops, t.of)
        /\ traces[i].at # "queued" \/ traces[i].cut # "no"
        /\ queue' = queue
        /\ \/ tracked' = tracked
           \/ tracked' = [tracked EXCEPT ![traces[i].of] = @ \ {i}]
  BY StepTraces
<1>2. /\ traces' \in Seq(TraceType) /\ DOMAIN traces' = DOMAIN traces /\ traces'[i] = t
      /\ \A k \in DOMAIN traces : k # i => traces'[k] = traces[k]
  BY <1>1, TraceChanges DEF TInv
<1>3. TTypes'
  <2>1. tracked' \in [Endpoints -> SUBSET (DOMAIN traces)]
    BY <1>1 DEF TInv, TTypes
  <2> QED BY <1>1, <1>2, <2>1 DEF TInv, TTypes
<1>4. Queued'
  <2>1. \A a \in DOMAIN queue : queue[a] \in DOMAIN traces /\ queue[a] # i
    BY <1>1 DEF TInv, Queued
  <2> QED BY <1>1, <1>2, <2>1 DEF TInv, Queued
<1>5. Found'
  BY <1>1, <1>2 DEF TInv, Found
<1> QED BY <1>3, <1>4, <1>5 DEF TInv

\* The head of the queue is a trace that waits.
LEMMA AcquireChanges ==
  ASSUME TInv, Acquire
  PROVE  LET i == queue[1]
         IN  /\ i \in DOMAIN traces /\ traces[i].at = "queued" /\ traces[i].cut = "no"
             /\ \E t \in TraceType :
                  /\ traces' = [traces EXCEPT ![i] = t]
                  /\ t.of = traces[i].of /\ t.at # "over" /\ t.cut = "no"
                  /\ t.at \in {"pause", "save"} => Whole(t.hops, t.of)
<1> DEFINE i == Head(queue)
           e == traces[i].of
           o == traces[i]
           t == IF OnLink(e) THEN [o EXCEPT !.at = "pause", !.hops = OneHop(e)]
                             ELSE [o EXCEPT !.at = "icmp"]
<1>1. queue \in Seq(Nat) /\ queue # <<>>
  BY DEF TInv, TTypes, Acquire
<1>2. i = queue[1] /\ 1 \in DOMAIN queue
  BY <1>1
<1>3. i \in DOMAIN traces /\ o.at = "queued" /\ o.cut = "no"
  BY <1>2 DEF TInv, Queued
<1>4. o \in TraceType /\ e \in Endpoints
  BY <1>3, TraceFacts DEF TInv
<1>5. traces' = [traces EXCEPT ![i] = t]
  BY DEF Acquire, OneHop
<1> HIDE DEF i, o
<1>6. /\ t \in TraceType /\ t.of = e /\ t.at # "over" /\ t.cut = o.cut
      /\ t.at \in {"pause", "save"} => t.hops = OneHop(e)
  <2>1. OneHop(e) \in Paths
    BY <1>4 DEF Paths
  <2> HIDE DEF e
  <2> QED BY <1>4, <2>1 DEF TraceType, Commands, e, o
<1> HIDE DEF t
<1>7. Whole(OneHop(e), e)
  BY <1>4, EveryRoute
<1> QED BY <1>2, <1>3, <1>5, <1>6, <1>7 DEF o

\* Those behind it were started later.
LEMMA AcquireKept == ASSUME TInv, Acquire PROVE TInv'
<1> DEFINE i == queue[1]
           n == Len(queue)
<1>1. queue \in Seq(Nat) /\ queue # <<>>
  BY DEF TInv, TTypes, Acquire
<1>2. /\ n \in Nat /\ n >= 1 /\ DOMAIN queue = 1..n
      /\ Tail(queue) \in Seq(Nat) /\ DOMAIN Tail(queue) = 1..(n - 1)
      /\ \A a \in 1..(n - 1) : Tail(queue)[a] = queue[a + 1]
  BY <1>1
<1> HIDE DEF n
<1>3. i \in DOMAIN traces
  BY AcquireChanges
<1>4. PICK t \in TraceType :
        /\ traces' = [traces EXCEPT ![i] = t]
        /\ t.at \in {"pause", "save"} => Whole(t.hops, t.of)
  BY AcquireChanges
<1>5. queue' = Tail(queue) /\ tracked' = tracked
  BY DEF Acquire
<1>7. /\ traces' \in Seq(TraceType) /\ DOMAIN traces' = DOMAIN traces /\ traces'[i] = t
      /\ \A k \in DOMAIN traces : k # i => traces'[k] = traces[k]
  BY <1>3, <1>4, TraceChanges DEF TInv
<1> HIDE DEF i
<1>8. TTypes'
  BY <1>2, <1>5, <1>7 DEF TInv, TTypes
<1>9. Queued'
  <2>1. ASSUME NEW a \in 1..(n - 1)
        PROVE  /\ queue'[a] = queue[a + 1] /\ a + 1 \in DOMAIN queue /\ queue'[a] # i
               /\ queue'[a] \in DOMAIN traces
               /\ traces[queue'[a]].at = "queued" /\ traces[queue'[a]].cut = "no"
    <3>1. queue'[a] = queue[a + 1] /\ a + 1 \in DOMAIN queue /\ 1 \in DOMAIN queue /\ 1 < a + 1
      BY <1>2, <1>5
    <3>2. queue[1] < queue[a + 1] /\ queue[1] \in Nat /\ queue[a + 1] \in Nat
      BY <1>1, <3>1 DEF TInv, Queued
    <3>3. queue'[a] # i
      BY <3>1, <3>2 DEF i
    <3> QED BY <3>1, <3>3 DEF TInv, Queued
  <2>2. \A a \in 1..(n - 1) : /\ queue'[a] \in DOMAIN traces'
                              /\ traces'[queue'[a]].at = "queued" /\ traces'[queue'[a]].cut = "no"
    BY <1>7, <2>1
  <2>3. \A a, b \in 1..(n - 1) : a < b => queue'[a] < queue'[b]
    <3> SUFFICES ASSUME NEW a \in 1..(n - 1), NEW b \in 1..(n - 1), a < b PROVE queue'[a] < queue'[b]
      OBVIOUS
    <3>1. a + 1 < b + 1
      BY <1>2
    <3> QED BY <2>1, <3>1 DEF TInv, Queued
  <2>4. DOMAIN queue' = 1..(n - 1)
    BY <1>2, <1>5
  <2> QED BY <2>2, <2>3, <2>4 DEF Queued
<1>10. Found'
  BY <1>4, <1>7 DEF TInv, Found
<1> QED BY <1>8, <1>9, <1>10 DEF TInv

\* What starts a trace adds one at the end of the traces and of the queue.
LEMMA TriggerChanges ==
  ASSUME TTypes, NEW e \in Endpoints, Trigger(e)
  PROVE  LET i == Len(traces) + 1
         IN  /\ i \in Nat /\ i \notin DOMAIN traces /\ traces' \in Seq(TraceType)
             /\ DOMAIN traces' = DOMAIN traces \cup {i}
             /\ traces'[i] = [of |-> e, at |-> "queued", cut |-> "no", hops |-> <<>>]
             /\ \A k \in DOMAIN traces : traces'[k] = traces[k] /\ k < i
             /\ tracked' = [tracked EXCEPT ![e] = @ \cup {i}]
             /\ queue' = Append(queue, i)
<1> DEFINE i == Len(traces) + 1
           t == [of |-> e, at |-> "queued", cut |-> "no", hops |-> <<>>]
<1>1. <<>> \in Paths
  BY DEF Paths
<1>2. t \in TraceType
  BY <1>1 DEF TraceType
<1>3. /\ traces' = Append(traces, t) /\ tracked' = [tracked EXCEPT ![e] = @ \cup {i}]
      /\ queue' = Append(queue, i)
  BY DEF Trigger
<1> HIDE DEF t
<1>4. traces \in Seq(TraceType) /\ Len(traces) \in Nat /\ DOMAIN traces = 1..Len(traces)
  BY DEF TTypes
<1>5. /\ traces' \in Seq(TraceType) /\ DOMAIN traces' = 1..i /\ traces'[i] = t
      /\ \A k \in 1..Len(traces) : traces'[k] = traces[k]
  BY <1>2, <1>3, <1>4
<1>6. i \in Nat /\ i \notin DOMAIN traces /\ 1..i = DOMAIN traces \cup {i}
  BY <1>4
<1>7. \A k \in DOMAIN traces : k < i
  BY <1>4
<1> QED BY <1>3, <1>4, <1>5, <1>6, <1>7 DEF t

LEMMA TriggerKept == ASSUME TInv, NEW e \in Endpoints, Trigger(e) PROVE TInv'
<1> DEFINE i == Len(traces) + 1
           n == Len(queue)
<1>1. /\ i \in Nat /\ i \notin DOMAIN traces /\ traces' \in Seq(TraceType)
      /\ DOMAIN traces' = DOMAIN traces \cup {i}
      /\ traces'[i] = [of |-> e, at |-> "queued", cut |-> "no", hops |-> <<>>]
      /\ \A k \in DOMAIN traces : traces'[k] = traces[k] /\ k < i
      /\ tracked' = [tracked EXCEPT ![e] = @ \cup {i}]
      /\ queue' = Append(queue, i)
  BY TriggerChanges DEF TInv
<1> HIDE DEF i
<1>2. queue \in Seq(Nat) /\ n \in Nat /\ DOMAIN queue = 1..n
  BY DEF TInv, TTypes
<1>3. /\ queue' \in Seq(Nat) /\ DOMAIN queue' = 1..(n + 1) /\ queue'[n + 1] = i
      /\ \A a \in 1..n : queue'[a] = queue[a]
  BY <1>1, <1>2
<1> HIDE DEF n
<1>4. tracked' \in [Endpoints -> SUBSET (DOMAIN traces')]
  <2>1. tracked \in [Endpoints -> SUBSET (DOMAIN traces)]
    BY DEF TInv, TTypes
  <2> QED BY <1>1, <2>1
<1>5. \A a \in 1..(n + 1) : a \in 1..n \/ a = n + 1
  BY <1>2
<1>6. Queued'
  <2>1. ASSUME NEW a \in 1..(n + 1)
        PROVE  /\ queue'[a] \in DOMAIN traces'
               /\ traces'[queue'[a]].at = "queued" /\ traces'[queue'[a]].cut = "no"
    <3>1. CASE a \in 1..n
      <4>1. /\ queue[a] \in DOMAIN traces
            /\ traces[queue[a]].at = "queued" /\ traces[queue[a]].cut = "no"
        BY <1>2, <3>1 DEF TInv, Queued
      <4> QED BY <1>1, <1>3, <3>1, <4>1
    <3>2. CASE a = n + 1
      BY <1>1, <1>3, <3>2
    <3> QED BY <1>5, <3>1, <3>2
  <2>2. ASSUME NEW a \in 1..(n + 1), NEW b \in 1..(n + 1), a < b PROVE queue'[a] < queue'[b]
    <3>1. a \in 1..n
      BY <1>2, <2>2
    <3>2. CASE b \in 1..n
      BY <1>2, <1>3, <2>2, <3>1, <3>2 DEF TInv, Queued
    <3>3. CASE b = n + 1
      <4>1. queue[a] \in DOMAIN traces
        BY <1>2, <3>1 DEF TInv, Queued
      <4> QED BY <1>1, <1>3, <3>1, <3>3, <4>1
    <3> QED BY <1>5, <3>2, <3>3
  <2> QED BY <1>3, <2>1, <2>2 DEF Queued
<1>7. Found'
  BY <1>1 DEF TInv, Found
<1> QED BY <1>1, <1>3, <1>4, <1>6, <1>7 DEF TInv, TTypes

\* A pass cancels traces and takes those out of the queue; it begins and ends none.
LEMMA SyncChanges ==
  ASSUME TTypes, SyncTraces
  PROVE  /\ traces' \in Seq(TraceType) /\ DOMAIN traces' = DOMAIN traces
         /\ \A i \in DOMAIN traces :
              /\ traces'[i].of = traces[i].of /\ traces'[i].at = traces[i].at
              /\ traces'[i].hops = traces[i].hops
              /\ traces'[i].cut = traces[i].cut \/ traces'[i].cut = "asked"
              /\ InFlight(i) /\ traces'[i].cut = "no" => \A e \in Gone : i \notin tracked[e]
<1>1. ASSUME NEW i \in DOMAIN traces
      PROVE  /\ Cut(i) \in TraceType
             /\ Cut(i).of = traces[i].of /\ Cut(i).at = traces[i].at /\ Cut(i).hops = traces[i].hops
             /\ Cut(i).cut = traces[i].cut \/ Cut(i).cut = "asked"
             /\ InFlight(i) /\ Cut(i).cut = "no" => \A e \in Gone : i \notin tracked[e]
  <2> DEFINE o == traces[i]
             t == [o EXCEPT !.cut = "asked"]
  <2>1. o \in TraceType
    BY TraceFacts
  <2>2. /\ t \in TraceType /\ t.of = o.of /\ t.at = o.at /\ t.hops = o.hops /\ t.cut = "asked"
    BY <2>1 DEF TraceType
  <2>3. CASE InFlight(i) /\ \E e \in Gone : i \in tracked[e]
    <3>1. Cut(i) = t
      BY <2>3 DEF Cut
    <3> QED BY <2>2, <3>1
  <2>4. CASE ~(InFlight(i) /\ \E e \in Gone : i \in tracked[e])
    <3>1. Cut(i) = o
      BY <2>4 DEF Cut
    <3> QED BY <2>1, <2>4, <3>1
  <2> QED BY <2>3, <2>4
<1>2. traces' = [i \in DOMAIN traces |-> Cut(i)]
  BY DEF SyncTraces
<1>3. traces' \in Seq(TraceType)
  <2>1. Len(traces) \in Nat /\ DOMAIN traces = 1..Len(traces)
    BY TraceFacts
  <2>2. traces' \in [1..Len(traces) -> TraceType]
    BY <1>1, <1>2, <2>1
  <2> QED BY <2>1, <2>2, SeqDef
<1> QED BY <1>1, <1>2, <1>3

LEMMA SyncKept == ASSUME TInv, SyncTraces PROVE TInv'
<1>1. /\ traces' \in Seq(TraceType) /\ DOMAIN traces' = DOMAIN traces
      /\ \A i \in DOMAIN traces :
           /\ traces'[i].of = traces[i].of /\ traces'[i].at = traces[i].at
           /\ traces'[i].hops = traces[i].hops
  BY SyncChanges DEF TInv
<1>2. /\ queue' \in Seq(DOMAIN traces)
      /\ \A i \in DOMAIN queue' : /\ traces'[queue'[i]].cut = "no"
                                  /\ \E a \in DOMAIN queue : queue'[i] = queue[a]
      /\ \A i, j \in DOMAIN queue' : i < j => queue'[i] < queue'[j]
  <2> DEFINE B == DOMAIN traces
             n == Len(queue)
             ts == traces'
  <2>1. queue \in Seq(Nat) /\ n \in Nat /\ DOMAIN queue = 1..n
    BY DEF TInv, TTypes
  <2>2. queue \in [1..n -> B]
    BY <2>1 DEF TInv, Queued
  <2>3. queue \in Seq(B)
    BY <2>1, <2>2, SeqDef
  <2>4. B \subseteq Nat
    BY TraceFacts DEF TInv
  <2>5. \A i, j \in DOMAIN queue : i < j => queue[i] < queue[j]
    BY DEF TInv, Queued
  <2>6. queue' = Waiting(ts)
    BY DEF SyncTraces
  <2> HIDE DEF B, ts
  <2>7. /\ Waiting(ts) \in Seq(B)
        /\ \A i \in DOMAIN Waiting(ts) : /\ ts[Waiting(ts)[i]].cut = "no"
                                         /\ \E a \in DOMAIN queue : Waiting(ts)[i] = queue[a]
        /\ \A i, j \in DOMAIN Waiting(ts) : i < j => Waiting(ts)[i] < Waiting(ts)[j]
    BY <2>3, <2>4, <2>5, WaitingIs
  <2> QED BY <2>6, <2>7 DEF B, ts
<1>3. TTypes'
  <2>1. tracked' \in [Endpoints -> SUBSET (DOMAIN traces)]
    BY DEF TInv, TTypes, SyncTraces
  <2>2. queue' \in Seq(Nat)
    <3>1. Len(queue') \in Nat /\ queue' \in [1..Len(queue') -> DOMAIN traces]
      BY <1>2
    <3>2. DOMAIN traces \subseteq Nat
      BY TraceFacts DEF TInv
    <3>3. queue' \in [1..Len(queue') -> Nat]
      BY <3>1, <3>2
    <3> QED BY <3>1, <3>3, SeqDef
  <2> QED BY <1>1, <2>1, <2>2 DEF TTypes
<1>4. Queued'
  <2>1. ASSUME NEW i \in DOMAIN queue'
        PROVE  /\ queue'[i] \in DOMAIN traces'
               /\ traces'[queue'[i]].at = "queued" /\ traces'[queue'[i]].cut = "no"
    <3>1. PICK a \in DOMAIN queue : queue'[i] = queue[a]
      BY <1>2
    <3>2. queue[a] \in DOMAIN traces /\ traces[queue[a]].at = "queued"
      BY DEF TInv, Queued
    <3> QED BY <1>1, <1>2, <3>1, <3>2
  <2> QED BY <1>2, <2>1 DEF Queued
<1>5. Found'
  BY <1>1 DEF TInv, Found
<1> QED BY <1>3, <1>4, <1>5 DEF TInv

LEMMA InitTInv == TInit => TInv
<1> SUFFICES ASSUME TInit PROVE TInv
  OBVIOUS
<1>1. traces = <<>> /\ queue = <<>> /\ tracked = None
  BY DEF TInit
<1>2. traces \in Seq(TraceType) /\ queue \in Seq(Nat) /\ DOMAIN traces = {} /\ DOMAIN queue = {}
  BY <1>1
<1>3. tracked \in [Endpoints -> SUBSET (DOMAIN traces)]
  BY <1>1 DEF None
<1> QED BY <1>2, <1>3 DEF TInv, TTypes, Queued, Found

LEMMA NextTInv == ASSUME TInv, [TNext]_tvars PROVE TInv'
<1>1. ASSUME UNCHANGED <<traces, tracked, queue>> PROVE TInv'
  BY <1>1 DEF TInv, TTypes, Queued, Found
<1>2. CASE RegistryOnly
  BY <1>1, <1>2 DEF RegistryOnly
<1>3. CASE UNCHANGED tvars
  BY <1>1, <1>3 DEF tvars
<1> QED BY <1>2, <1>3, SyncKept, TriggerKept, AcquireKept, TracesKept DEF TNext

\* Whatever the commands print, and however often they fail, are given up or are
\* cancelled, the route that is saved is in order and leads to the endpoint.
THEOREM RoutesHold == TSpec => []RoutesAreWhole
<1>1. TInv => RoutesAreWhole
  <2> SUFFICES ASSUME TInv, NEW i \in DOMAIN traces, traces[i].at = "save"
               PROVE  Whole(traces[i].hops, traces[i].of)
    BY DEF RoutesAreWhole, Whole
  <2> QED BY DEF TInv, Found
<1> QED BY <1>1, InitTInv, NextTInv, PTL DEF TSpec

-----------------------------------------------------------------------------
(* A trace that goes on is registered.                                     *)

\* Fewer of them, when none is added.
LEMMA FewerLive ==
  ASSUME TTypes, Tracked, Live' \subseteq Live
  PROVE  Cardinality(Live') <= Limit
<1>1. IsFiniteSet(Live)
  <2>1. IsFiniteSet(DOMAIN traces) /\ Live \subseteq DOMAIN traces
    BY TraceFacts DEF Live
  <2> QED BY <2>1, FS_Subset
<1>2. /\ IsFiniteSet(Live') /\ Cardinality(Live') <= Cardinality(Live)
  BY <1>1, FS_Subset
<1>3. Cardinality(Live) \in Nat /\ Cardinality(Live') \in Nat
  BY <1>1, <1>2, FS_CardinalityType
<1> QED BY <1>2, <1>3, TraceAssumption DEF Tracked

\* A trace changes and does not come alive: its entry stays while it goes on.
LEMMA OneTraceTracked ==
  ASSUME TTypes, Tracked, NEW i \in DOMAIN traces, NEW t \in TraceType,
         traces' = [traces EXCEPT ![i] = t], t.of = traces[i].of, SweepsAside,
         t.at # "over" /\ t.cut = "no" => InFlight(i) /\ traces[i].cut = "no",
         \/ tracked' = tracked
         \/ t.at = "over" /\ tracked' = [tracked EXCEPT ![traces[i].of] = @ \ {i}]
  PROVE  Tracked'
<1>1. /\ DOMAIN traces' = DOMAIN traces /\ traces'[i] = t
      /\ \A k \in DOMAIN traces : k # i => traces'[k] = traces[k]
  BY TraceChanges
<1>2. Live' \subseteq Live
  <2> SUFFICES ASSUME NEW k \in DOMAIN traces, traces'[k].at # "over", traces'[k].cut = "no"
               PROVE  k \in Live
    BY <1>1 DEF Live, InFlight
  <2> QED BY <1>1 DEF Live, InFlight
<1>3. ASSUME NEW k \in Live' PROVE Swept(traces[k].of)' /\ k \in tracked'[traces'[k].of]
  <2>1. k \in Live /\ k \in DOMAIN traces /\ traces'[k].of = traces[k].of /\ traces'[k].at # "over"
    BY <1>1, <1>2 DEF Live, InFlight
  <2>2. Swept(traces[k].of)' /\ k \in tracked[traces[k].of]
    BY <2>1 DEF Tracked, Swept, SweepsAside
  <2>3. CASE tracked' = tracked
    BY <2>1, <2>2, <2>3
  <2>4. CASE t.at = "over" /\ tracked' = [tracked EXCEPT ![traces[i].of] = @ \ {i}]
    <3>1. k # i
      BY <1>1, <2>1, <2>4
    <3>2. traces[k].of \in Endpoints /\ tracked \in [Endpoints -> SUBSET (DOMAIN traces)]
      BY <2>1, TraceFacts DEF TTypes
    <3>3. k \in tracked'[traces[k].of]
      BY <2>2, <2>4, <3>1, <3>2
    <3> QED BY <2>1, <2>2, <3>3
  <2> QED BY <2>3, <2>4
<1> QED BY <1>2, <1>3, FewerLive DEF Tracked

\* A pass forgets an endpoint and asks all its traces to end.
LEMMA SyncTracked == ASSUME TTypes, SweepInv, Tracked, SyncTraces PROVE Tracked'
<1>1. /\ DOMAIN traces' = DOMAIN traces
      /\ \A i \in DOMAIN traces :
           /\ traces'[i].of = traces[i].of /\ traces'[i].at = traces[i].at
           /\ traces'[i].cut = traces[i].cut \/ traces'[i].cut = "asked"
           /\ InFlight(i) /\ traces'[i].cut = "no" => \A e \in Gone : i \notin tracked[e]
  BY SyncChanges
<1>2. Live' \subseteq Live
  BY <1>1 DEF Live, InFlight
<1>3. ASSUME NEW i \in Live' PROVE Swept(traces[i].of)' /\ i \in tracked'[traces'[i].of]
  <2>1. i \in Live /\ i \in DOMAIN traces /\ InFlight(i) /\ traces'[i].cut = "no"
    BY <1>2 DEF Live
  <2>2. traces[i].of \in Endpoints /\ traces'[i].of = traces[i].of
    BY <1>1, <2>1, TraceFacts
  <2>3. Swept(traces[i].of) /\ i \in tracked[traces[i].of]
    BY <2>1 DEF Tracked
  <2>4. traces[i].of \notin Gone
    BY <1>1, <2>1, <2>3
  <2>5. tracked' = [e \in Endpoints |-> IF e \in Gone THEN {} ELSE tracked[e]]
    BY DEF SyncTraces
  <2>6. ASSUME NEW e \in Endpoints, e = traces[i].of PROVE Swept(e)'
    BY <2>3, <2>4, <2>6, SweptStays DEF SyncTraces, Next
  <2>7. Swept(traces[i].of)'
    <3>1. PICK e \in Endpoints : e = traces[i].of
      BY <2>2
    <3>2. Swept(e)' /\ traces'[i].of = e
      BY <2>2, <2>6, <3>1
    <3> QED BY <3>2 DEF Swept
  <2> QED BY <2>2, <2>3, <2>4, <2>5, <2>7
<1> QED BY <1>2, <1>3, FewerLive DEF Tracked

\* A trace is started by a sweep of a registered endpoint, while the registered
\* traces, the live ones among them, are fewer than Limit.
LEMMA TriggerTracked ==
  ASSUME TTypes, SweepInv, Tracked, NEW e \in Endpoints, Trigger(e)
  PROVE  Tracked'
<1> DEFINE i == Len(traces) + 1
           All == UNION {tracked[f] : f \in Endpoints}
<1>1. /\ i \notin DOMAIN traces /\ DOMAIN traces' = DOMAIN traces \cup {i}
      /\ traces'[i] = [of |-> e, at |-> "queued", cut |-> "no", hops |-> <<>>]
      /\ \A k \in DOMAIN traces : traces'[k] = traces[k]
      /\ tracked' = [tracked EXCEPT ![e] = @ \cup {i}]
  BY TriggerChanges
<1> HIDE DEF i
<1>2. SweepsAside /\ Swept(e) /\ Cardinality(All) < Limit
  <2>1. PICK n \in sweeping[e] : n \notin young[e]
    BY DEF Trigger
  <2>2. n \in stray[e] \/ (n = running[e] /\ n # 0)
    BY DEF SweepInv, Registered
  <2> QED BY <2>1, <2>2 DEF Trigger, vars, SweepInv, Registered, SweepsAside, Swept
<1>3. tracked \in [Endpoints -> SUBSET (DOMAIN traces)]
  BY DEF TTypes
<1>4. Live' = Live \cup {i}
  BY <1>1 DEF Live, InFlight
<1>5. IsFiniteSet(Live) /\ Cardinality(Live) < Limit
  <2>1. IsFiniteSet(DOMAIN traces)
    BY TraceFacts
  <2>2. All \subseteq DOMAIN traces
    BY <1>3
  <2>3. Live \subseteq All
    <3> SUFFICES ASSUME NEW k \in Live PROVE k \in All
      OBVIOUS
    <3>1. k \in DOMAIN traces /\ k \in tracked[traces[k].of]
      BY DEF Live, Tracked
    <3>2. traces[k].of \in Endpoints
      BY <3>1, TraceFacts
    <3> QED BY <3>1, <3>2
  <2> HIDE DEF All
  <2>4. IsFiniteSet(All)
    BY <2>1, <2>2, FS_Subset
  <2>5. IsFiniteSet(Live) /\ Cardinality(Live) <= Cardinality(All)
    BY <2>3, <2>4, FS_Subset
  <2>6. Cardinality(Live) \in Nat /\ Cardinality(All) \in Nat
    BY <2>4, <2>5, FS_CardinalityType
  <2> QED BY <1>2, <2>5, <2>6, TraceAssumption
<1>6. Cardinality(Live') <= Limit
  <2>1. i \notin Live
    BY <1>1 DEF Live
  <2>2. Cardinality(Live \cup {i}) = Cardinality(Live) + 1
    BY <1>5, <2>1, FS_AddElement
  <2>3. Cardinality(Live) \in Nat
    BY <1>5, FS_CardinalityType
  <2> QED BY <1>4, <1>5, <2>2, <2>3, TraceAssumption
<1>7. ASSUME NEW k \in Live' PROVE Swept(traces[k].of)' /\ k \in tracked'[traces'[k].of]
  <2>1. CASE k = i
    <3>1. traces'[k].of = e /\ k \in tracked'[e]
      BY <1>1, <1>3, <2>1
    <3> QED BY <1>2, <3>1 DEF Swept, SweepsAside
  <2>2. CASE k \in Live
    <3>1. k \in DOMAIN traces /\ Swept(traces[k].of) /\ k \in tracked[traces[k].of]
      BY <2>2 DEF Live, Tracked
    <3>2. traces[k].of \in Endpoints
      BY <3>1, TraceFacts
    <3>3. k \in tracked'[traces[k].of]
      BY <1>1, <1>3, <3>1, <3>2
    <3> QED BY <1>1, <1>2, <3>1, <3>3 DEF Swept, SweepsAside
  <2> QED BY <1>4, <2>1, <2>2
<1> QED BY <1>6, <1>7 DEF Tracked

LEMMA NextTracked ==
  ASSUME TInv, SweepInv, Tracked, [TNext]_tvars
  PROVE  Tracked'
<1>1. ASSUME UNCHANGED <<traces, tracked>>, \A e \in Endpoints : Swept(e) => Swept(e)' PROVE Tracked'
  <2>1. Live' = Live /\ Live \subseteq DOMAIN traces
    BY <1>1 DEF Live, InFlight
  <2>2. ASSUME NEW i \in Live PROVE Swept(traces[i].of)' /\ i \in tracked'[traces'[i].of]
    <3>1. PICK e \in Endpoints : e = traces[i].of
      BY <2>1, TraceFacts DEF TInv
    <3>2. Swept(e)' /\ traces'[i].of = e
      BY <1>1, <3>1 DEF Tracked
    <3> QED BY <1>1, <3>1, <3>2 DEF Tracked, Swept
  <2> QED BY <1>1, <2>1, <2>2 DEF Tracked
<1>2. CASE RegistryOnly
  <2>1. [Next]_vars /\ UNCHANGED <<traces, tracked>>
    BY <1>2 DEF RegistryOnly, Next
  <2>2. ASSUME Sync PROVE FALSE
    BY <1>2, <2>2 DEF RegistryOnly, Change, Begin, Fail, End, Select, Sync
  <2> QED BY <1>1, <2>1, <2>2, SweptStays
<1>3. CASE UNCHANGED tvars
  BY <1>1, <1>3 DEF tvars, vars, Swept
<1>4. CASE Acquire
  <2> DEFINE i == queue[1]
  <2>1. i \in DOMAIN traces /\ traces[i].at = "queued" /\ traces[i].cut = "no"
    BY <1>4, AcquireChanges
  <2>2. PICK t \in TraceType : traces' = [traces EXCEPT ![i] = t] /\ t.of = traces[i].of
    BY <1>4, AcquireChanges
  <2>3. SweepsAside /\ tracked' = tracked
    BY <1>4 DEF Acquire, vars, SweepsAside
  <2>4. InFlight(i)
    BY <2>1 DEF InFlight
  <2> HIDE DEF i
  <2> QED BY <2>1, <2>2, <2>3, <2>4, OneTraceTracked DEF TInv
<1>5. ASSUME NEW i \in DOMAIN traces,
             Answers(i) \/ NoAnswer(i) \/ Pause(i) \/ Save(i) \/ Ends(i)
      PROVE  Tracked'
  <2>1. PICK t \in TraceType :
          /\ traces' = [traces EXCEPT ![i] = t]
          /\ t.of = traces[i].of /\ InFlight(i)
          /\ t.cut = "no" => traces[i].cut = "no"
          /\ SweepsAside
          /\ \/ tracked' = tracked
             \/ t.at = "over" /\ tracked' = [tracked EXCEPT ![traces[i].of] = @ \ {i}]
    BY <1>5, StepTraces
  <2> QED BY <2>1, OneTraceTracked DEF TInv
<1>6. ASSUME NEW e \in Endpoints, Trigger(e) PROVE Tracked'
  BY <1>6, TriggerTracked DEF TInv
<1>7. CASE SyncTraces
  BY <1>7, SyncTracked DEF TInv
<1> QED BY <1>2, <1>3, <1>4, <1>5, <1>6, <1>7 DEF TNext

\* A trace that nobody cancelled is one that a removal of its endpoint would
\* cancel, and there are never more than Limit of them, through removals and
\* reactivations and cancellations that arrive late or get lost.
THEOREM TracesAreRegistered == TSpec => []TracesAreTracked
<1> DEFINE I == TInv /\ SweepInv /\ Tracked
<1>1. TInit => I
  <2> SUFFICES ASSUME TInit PROVE Tracked /\ SweepInv /\ TInv
    OBVIOUS
  <2>1. Live = {}
    BY DEF TInit, Live
  <2>2. Cardinality(Live) = 0
    BY <2>1, FS_EmptySet
  <2> QED BY <2>1, <2>2, InitTInv, InitSweeps, RegistrySteps, TraceAssumption DEF Tracked
<1>2. I /\ [TNext]_tvars => I'
  BY NextTInv, NextTracked, StepTypes, StepRegistered, RegistrySteps DEF SweepInv
<1>3. I => TracesAreTracked
  BY DEF Tracked, TracesAreTracked, Live, Swept
<1> QED BY <1>1, <1>2, <1>3, PTL DEF TSpec
=============================================================================
