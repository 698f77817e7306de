--------------------------- MODULE SessionsProofs ---------------------------
(***************************************************************************)
(* Proofs about Sessions, for any workers, any number of allowed sessions  *)
(* and any number of logins, logouts, faults, restarts and switches.       *)
(***************************************************************************)
EXTENDS Sessions, SequenceTheorems, FiniteSetTheorems, TLAPS

-----------------------------------------------------------------------------
(* Induction over finite sets, as the existence of a minimal set.          *)

\* Of the subsets of a finite set, a minimal one can be picked.
LEMMA MinimalSubset ==
  ASSUME NEW S, IsFiniteSet(S), NEW T, T \subseteq SUBSET S, T # {}
  PROVE  \E s \in T : \A t \in T : t \subseteq s => t = s
<1>1. IsWellFoundedOn(StrictSubsetOrdering(S), SUBSET S)
  BY FS_StrictSubsetOrderingWellFounded, FS_FiniteSubsetsOfFinite
<1>2. \E s \in T : \A t \in T : ~ (<<t, s>> \in StrictSubsetOrdering(S))
  BY <1>1, WFMin
<1> QED BY <1>2 DEF StrictSubsetOrdering

\* The greatest number of a finite set that is not empty.
LEMMA MaxIs ==
  ASSUME NEW S, IsFiniteSet(S)
  PROVE  S \subseteq Int /\ S # {} => Max(S) \in S /\ \A y \in S : Max(S) >= y
<1> DEFINE Bad == {s \in SUBSET S : s # {} /\ ~ \E x \in s : \A y \in s : x >= y}
<1>1. Bad # {} => \E s \in Bad : \A t \in Bad : t \subseteq s => t = s
  <2>1. Bad \subseteq SUBSET S
    OBVIOUS
  <2> HIDE DEF Bad
  <2> QED BY <2>1, MinimalSubset
<1>2. ASSUME S \subseteq Int, Bad # {} PROVE FALSE
  <2>1. PICK s \in Bad : \A t \in Bad : t \subseteq s => t = s
    BY <1>1, <1>2, Zenon
  <2>2. PICK x \in s : TRUE
    OBVIOUS
  <2>3. CASE s \ {x} = {}
    BY <1>2, <2>2, <2>3
  <2>4. CASE s \ {x} # {}
    <3>1. s \ {x} \in SUBSET S /\ s \ {x} # s
      BY <2>2
    <3>2. PICK g \in s \ {x} : \A y \in s \ {x} : g >= y
      BY <2>1, <2>4, <3>1
    <3>3. \A y \in s : y = x \/ y \in s \ {x}
      OBVIOUS
    <3>4. x >= g \/ g >= x
      BY <1>2, <2>2, <3>2
    <3> QED BY <1>2, <2>2, <3>2, <3>3, <3>4
  <2> QED BY <2>3, <2>4
<1>3. ASSUME S \subseteq Int, S # {} PROVE \E x \in S : \A y \in S : x >= y
  BY <1>2, <1>3
<1> QED BY <1>3 DEF Max

-----------------------------------------------------------------------------
(* The operators on lists of sessions.                                     *)

\* f filters j out of the elements of s at the places of every subset of U.
Filters(f, U, s, j) ==
  \A T \in SUBSET U :
    f[T] = IF T = {} THEN <<>>
           ELSE IF s[Max(T)] = j THEN f[T \ {Max(T)}]
           ELSE Append(f[T \ {Max(T)}], s[Max(T)])

LEMMA FilterExists ==
  ASSUME NEW n \in Nat, NEW s, NEW j
  PROVE  \E f : Filters(f, 1..n, s, j) /\ DOMAIN f = SUBSET (1..n)
<1> DEFINE S == 1..n
           Good(U) == \E f : Filters(f, U, s, j) /\ DOMAIN f = SUBSET U
           Bad == {U \in SUBSET S : ~Good(U)}
<1>1. IsFiniteSet(S)
  BY FS_Interval
<1>2. Bad # {} => \E U \in Bad : \A V \in Bad : V \subseteq U => V = U
  <2>1. Bad \subseteq SUBSET S
    OBVIOUS
  <2> HIDE DEF Bad, S
  <2> QED BY <1>1, <2>1, MinimalSubset
<1>3. ASSUME Bad # {} PROVE FALSE
  <2>1. PICK U \in Bad : \A V \in Bad : V \subseteq U => V = U
    BY <1>2, <1>3, Zenon
  <2>2. U \in SUBSET S /\ ~Good(U)
    OBVIOUS
  <2>3. CASE U = {}
    <3> DEFINE f == [T \in {{}} |-> <<>>]
    <3>1. Filters(f, U, s, j) /\ DOMAIN f = SUBSET U
      BY <2>3 DEF Filters
    <3> HIDE DEF f
    <3> QED BY <2>2, <3>1
  <2>4. CASE U # {}
    <3> DEFINE m == Max(U)
               V == U \ {m}
    <3>1. \A T \in SUBSET U : T # {} => Max(T) \in T /\ \A y \in T : Max(T) >= y
      <4> SUFFICES ASSUME NEW T \in SUBSET U, T # {}
                   PROVE  Max(T) \in T /\ \A y \in T : Max(T) >= y
        OBVIOUS
      <4>1. T \subseteq Int
        BY <2>2
      <4>2. IsFiniteSet(T)
        <5> HIDE DEF S
        <5> QED BY <1>1, <2>2, FS_Subset
      <4> QED BY <4>1, <4>2, MaxIs
    <3>2. m \in U /\ \A T \in SUBSET U : m \in T => Max(T) = m
      <4>1. m \in U /\ \A y \in U : m >= y
        BY <2>4, <3>1
      <4>2. \A y \in U : y \in Int
        BY <2>2
      <4> HIDE DEF m
      <4> QED BY <3>1, <4>1, <4>2
    <3>3. Good(V)
      <4>1. V \in SUBSET S /\ V # U /\ V \subseteq U
        BY <2>2, <3>2
      <4> HIDE DEF V, Good
      <4> QED BY <2>1, <4>1
    <3>4. PICK f : Filters(f, V, s, j) /\ DOMAIN f = SUBSET V
      BY <3>3
    <3> DEFINE g == [T \in SUBSET U |->
                       IF m \notin T THEN f[T]
                       ELSE IF s[m] = j THEN f[T \ {m}] ELSE Append(f[T \ {m}], s[m])]
    <3> HIDE DEF m
    <3>5. ASSUME NEW T \in SUBSET U
          PROVE  g[T] = IF T = {} THEN <<>>
                        ELSE IF s[Max(T)] = j THEN g[T \ {Max(T)}]
                        ELSE Append(g[T \ {Max(T)}], s[Max(T)])
      <4>1. CASE m \in T
        <5>1. Max(T) = m /\ T \ {m} \in SUBSET U
          BY <3>2, <4>1
        <5>2. g[T \ {m}] = f[T \ {m}]
          BY <5>1
        <5> QED BY <4>1, <5>1, <5>2
      <4>2. CASE m \notin T
        <5>1. T \in SUBSET V
          BY <4>2
        <5>2. f[T] = IF T = {} THEN <<>>
                     ELSE IF s[Max(T)] = j THEN f[T \ {Max(T)}]
                     ELSE Append(f[T \ {Max(T)}], s[Max(T)])
          BY <3>4, <5>1 DEF Filters
        <5>3. T # {} => g[T \ {Max(T)}] = f[T \ {Max(T)}]
          BY <4>2
        <5> QED BY <4>2, <5>2, <5>3
      <4> QED BY <4>1, <4>2
    <3>6. Filters(g, U, s, j) /\ DOMAIN g = SUBSET U
      <4>1. DOMAIN g = SUBSET U
        OBVIOUS
      <4> HIDE DEF g
      <4> QED BY <3>5, <4>1 DEF Filters
    <3> HIDE DEF g
    <3> QED BY <2>2, <3>6
  <2> QED BY <2>3, <2>4
<1>4. Good(S)
  BY <1>3
<1> QED BY <1>4

\* The sessions of a list.
LEMMA ToSetIs ==
  ASSUME NEW s \in Seq(Nat)
  PROVE  /\ ToSet(s) \subseteq Nat /\ IsFiniteSet(ToSet(s))
         /\ Cardinality(ToSet(s)) <= Len(s)
<1> DEFINE n == Len(s)
<1>1. n \in Nat /\ DOMAIN s = 1..n /\ s \in [1..n -> ToSet(s)] /\ ToSet(s) \subseteq Nat
  BY DEF ToSet
<1> HIDE DEF n
<1>2. IsFiniteSet(1..n) /\ Cardinality(1..n) = n
  <2>1. n \in Int /\ 1 \in Int
    BY <1>1
  <2>2. IsFiniteSet(1..n) /\ Cardinality(1..n) = IF 1 > n THEN 0 ELSE n - 1 + 1
    BY <2>1, FS_Interval
  <2> QED BY <1>1, <2>2
<1>3. s \in Surjection(1..n, ToSet(s))
  BY <1>1 DEF ToSet, Surjection
<1>4. IsFiniteSet(ToSet(s)) /\ Cardinality(ToSet(s)) <= Cardinality(1..n)
  BY <1>2, <1>3, FS_Surjection
<1> QED BY <1>1, <1>2, <1>4 DEF n

LEMMA AppendedSet ==
  ASSUME NEW s \in Seq(Nat), NEW e \in Nat
  PROVE  ToSet(Append(s, e)) = ToSet(s) \cup {e}
<1> DEFINE r == Append(s, e)
<1>1. /\ Len(s) \in Nat /\ DOMAIN s = 1..Len(s) /\ DOMAIN r = 1..(Len(s) + 1)
      /\ \A i \in 1..Len(s) : r[i] = s[i]
      /\ r[Len(s) + 1] = e
  OBVIOUS
<1> HIDE DEF r
<1>2. \A i : i \in 1..(Len(s) + 1) <=> i \in 1..Len(s) \/ i = Len(s) + 1
  BY <1>1
<1>3. ToSet(r) = ToSet(s) \cup {e}
  BY <1>1, <1>2 DEF ToSet
<1> QED BY <1>3 DEF r

\* What is left of a list without j: the sessions of the list but j, and no more than it had.
LEMMA WithoutIs ==
  ASSUME NEW s \in Seq(Nat), NEW j
  PROVE  /\ Without(s, j) \in Seq(Nat)
         /\ ToSet(Without(s, j)) = ToSet(s) \ {j}
         /\ Len(Without(s, j)) <= Len(s)
<1> DEFINE S == DOMAIN s
           n == Len(s)
           P(f) == f = [T \in SUBSET S |->
                          IF T = {} THEN <<>>
                          ELSE LET x == Max(T)
                               IN  IF s[x] = j THEN f[T \ {x}] ELSE Append(f[T \ {x}], s[x])]
<1>1. n \in Nat /\ S = 1..n /\ IsFiniteSet(S) /\ Cardinality(S) = n
  <2>1. n \in Nat /\ S = 1..n
    OBVIOUS
  <2> HIDE DEF S, n
  <2>2. n \in Int /\ 1 \in Int
    BY <2>1
  <2>3. IsFiniteSet(1..n) /\ Cardinality(1..n) = IF 1 > n THEN 0 ELSE n - 1 + 1
    BY <2>2, FS_Interval
  <2> QED BY <2>1, <2>3
<1>2. Without(s, j) = (CHOOSE f : P(f))[S]
  BY DEF Without, FoldLeft, MapThenFoldSet
<1>3. \E f : P(f)
  <2>1. PICK f : Filters(f, S, s, j) /\ DOMAIN f = SUBSET S
    <3>1. \A k \in Nat : \E f : Filters(f, 1..k, s, j) /\ DOMAIN f = SUBSET (1..k)
      BY FilterExists
    <3> HIDE DEF S, n
    <3> QED BY <1>1, <3>1
  <2> HIDE DEF S
  <2> DEFINE g == [T \in SUBSET S |-> f[T]]
             R(T) == IF T = {} THEN <<>>
                     ELSE LET x == Max(T)
                          IN  IF s[x] = j THEN g[T \ {x}] ELSE Append(g[T \ {x}], s[x])
  <2>2. \A T \in SUBSET S : g[T] = R(T)
    BY <2>1 DEF Filters
  <2>3. g = [T \in SUBSET S |-> R(T)]
    BY <2>2, Zenon
  <2>4. P(g)
    BY <2>3
  <2> HIDE DEF g, P
  <2> QED BY <2>4
<1> DEFINE f == CHOOSE g : P(g)
<1>4. Filters(f, S, s, j)
  <2>1. P(f)
    <3> HIDE DEF P
    <3> QED BY <1>3
  <2> HIDE DEF f
  <2> QED BY <2>1 DEF Filters
<1>5. Without(s, j) = f[S]
  BY <1>2
<1> HIDE DEF f, P
<1> DEFINE Good(T) == /\ f[T] \in Seq(Nat)
                      /\ ToSet(f[T]) \subseteq ToSet(s) \ {j}
                      /\ Len(f[T]) <= Cardinality(T)
                      /\ \A i \in T : s[i] = j \/ s[i] \in ToSet(f[T])
           Bad == {T \in SUBSET S : ~Good(T)}
<1>6. Bad # {} => \E T \in Bad : \A V \in Bad : V \subseteq T => V = T
  <2>1. Bad \subseteq SUBSET S
    OBVIOUS
  <2>2. IsFiniteSet(S)
    BY <1>1
  <2> HIDE DEF Bad, S, n
  <2> QED BY <2>1, <2>2, MinimalSubset
<1>7. ASSUME Bad # {} PROVE FALSE
  <2>1. PICK T \in Bad : \A V \in Bad : V \subseteq T => V = T
    BY <1>6, <1>7, Zenon
  <2>2. T \in SUBSET S /\ ~Good(T)
    OBVIOUS
  <2>3. T # {}
    <3>1. f[{}] = <<>>
      BY <1>4 DEF Filters
    <3>2. Good({})
      BY <3>1, FS_EmptySet DEF ToSet
    <3> QED BY <2>2, <3>2
  <2> DEFINE x == Max(T)
             V == T \ {x}
  <2>4. x \in T /\ IsFiniteSet(T)
    <3>1. T \subseteq Int
      BY <1>1, <2>2
    <3>2. IsFiniteSet(T)
      BY <1>1, <2>2, FS_Subset
    <3> QED BY <2>3, <3>1, <3>2, MaxIs
  <2> HIDE DEF x
  <2>5. Cardinality(T) \in Nat /\ Cardinality(V) = Cardinality(T) - 1
    BY <2>4, FS_RemoveElement, FS_CardinalityType
  <2>6. Good(V)
    <3>1. V \in SUBSET S /\ V # T /\ V \subseteq T
      BY <2>2, <2>4
    <3> HIDE DEF V, Good, S
    <3> QED BY <2>1, <3>1
  <2>7. f[T] = IF s[x] = j THEN f[V] ELSE Append(f[V], s[x])
    <3> HIDE DEF S
    <3> QED BY <1>4, <2>2, <2>3 DEF Filters, x
  <2>8. s[x] \in Nat /\ s[x] \in ToSet(s)
    BY <2>2, <2>4 DEF ToSet
  <2>9. CASE s[x] = j
    <3> HIDE DEF V
    <3>1. f[T] = f[V] /\ f[V] \in Seq(Nat) /\ ToSet(f[V]) \subseteq ToSet(s) \ {j}
          /\ Len(f[V]) <= Cardinality(V) /\ Len(f[V]) \in Nat
          /\ \A i \in V : s[i] = j \/ s[i] \in ToSet(f[V])
      BY <2>6, <2>7, <2>9
    <3>2. Len(f[V]) <= Cardinality(T)
      BY <2>5, <3>1
    <3>3. \A i \in T : s[i] = j \/ s[i] \in ToSet(f[T])
      BY <2>9, <3>1 DEF V
    <3>4. Good(T)
      BY <3>1, <3>2, <3>3
    <3> HIDE DEF Good
    <3> QED BY <2>2, <3>4
  <2>10. CASE s[x] # j
    <3>1. f[T] = Append(f[V], s[x]) /\ f[V] \in Seq(Nat)
      BY <2>6, <2>7, <2>10
    <3> DEFINE a == f[V]
               e == s[x]
    <3>2. a \in Seq(Nat) /\ e \in Nat /\ f[T] = Append(a, e)
      BY <2>8, <3>1
    <3> HIDE DEF a, e, V
    <3>3. f[T] \in Seq(Nat) /\ Len(f[T]) = Len(a) + 1
      BY <3>2
    <3>4. ToSet(f[T]) = ToSet(a) \cup {e}
      BY <3>2, AppendedSet
    <3>5. ToSet(a) \subseteq ToSet(s) \ {j} /\ Len(a) <= Cardinality(V) /\ Len(a) \in Nat
      BY <2>6, <3>2 DEF a
    <3>6. ToSet(f[T]) \subseteq ToSet(s) \ {j}
      BY <2>8, <2>10, <3>4, <3>5 DEF e
    <3>7. Len(f[T]) <= Cardinality(T)
      BY <2>5, <3>3, <3>5
    <3>8. \A i \in T : s[i] = j \/ s[i] \in ToSet(f[T])
      <4>1. \A i \in V : s[i] = j \/ s[i] \in ToSet(a)
        BY <2>6 DEF a
      <4>2. \A i \in T : i \in V \/ s[i] = e
        BY DEF V, e
      <4> QED BY <3>4, <4>1, <4>2
    <3>9. Good(T)
      BY <3>3, <3>6, <3>7, <3>8
    <3> HIDE DEF Good
    <3> QED BY <2>2, <3>9
  <2> QED BY <2>9, <2>10
<1>8. Good(S)
  BY <1>7
<1>9. ToSet(s) \ {j} \subseteq ToSet(f[S])
  BY <1>8 DEF ToSet
<1> QED BY <1>1, <1>5, <1>8, <1>9

-----------------------------------------------------------------------------
(* The inductive invariant of the ended sessions.                          *)

Stores == {"redis", "postgres"}

OpType ==
  [w : Workers, kind : Registers \cup Ends \cup Moves, jti : Nat, store : Stores,
   pc : {"new", "read"}, read : Seq(Nat), at : Nat]

\* Changes that workers with these drivers can have under way.
Changes(O, m) ==
  /\ O \subseteq OpType /\ IsFiniteSet(O)
  /\ \A o \in O :
       /\ o.kind \notin Moves => m[o.w] # "down"
       /\ o.kind \in Moves => o.pc = "read"
       /\ o.kind \in {"wipe", "wipe again"} => o.pc = "new"

Rows(R) == R \subseteq [jti : Nat, at : Nat] /\ IsFiniteSet(R)

Types ==
  /\ Rows(rows)
  /\ list \in Seq(Nat)
  /\ mode \in [Workers -> Stores \cup {"down"}]
  /\ Changes(ops, mode)
  /\ logins \in Nat

\* A session is registered by one login, and only what a login was answered is ended.
Issued ==
  /\ issued \subseteq 1..logins /\ revoked \subseteq issued
  /\ \A o \in ops :
       /\ o.kind = "login" =>
            /\ o.jti \in 1..logins /\ o.jti \notin issued
            /\ \A p \in ops : p.kind = "login" /\ p.jti = o.jti => p = o
       /\ o.kind = "logout" => o.jti \in issued

\* Session j is in no store, and nothing under way puts it into one.
Dead(j) ==
  /\ j \notin InRows /\ j \notin ToSet(list)
  /\ \A o \in ops :
       /\ o.kind \in Registers => o.jti # j
       /\ WritesBack(o) => j \notin ToSet(o.read)

Ghosts == \A j \in revoked \ raced : Dead(j)

Inv == Types /\ Issued /\ Ghosts

LEMMA SetToSeqIs ==
  ASSUME NEW S \in SUBSET Nat, IsFiniteSet(S)
  PROVE  SetToSeq(S) \in Seq(Nat) /\ ToSet(SetToSeq(S)) = S
<1> DEFINE n == Cardinality(S)
           q == SetToSeq(S)
<1>1. n \in Nat /\ \E f : f \in Bijection(1..n, S)
  BY FS_CardinalityType DEF ExistsBijection
<1>2. PICK f : f \in Bijection(1..n, S)
  BY <1>1
<1>3. f \in [1..n -> S] /\ IsInjective(f)
  BY <1>2 DEF Bijection, Injection
<1>4. q \in [1..n -> S] /\ IsInjective(q)
  BY <1>3 DEF SetToSeq
<1> HIDE DEF q
<1>5. IsFiniteSet(1..n) /\ Cardinality(1..n) = n
  <2> HIDE DEF n
  <2>1. 1 \in Int /\ n \in Int
    BY <1>1
  <2>2. IsFiniteSet(1..n) /\ Cardinality(1..n) = IF 1 > n THEN 0 ELSE n - 1 + 1
    BY <2>1, FS_Interval
  <2> QED BY <1>1, <2>2
<1>6. q \in Injection(1..n, S)
  BY <1>4 DEF Injection
<1>7. q \in Surjection(1..n, S)
  BY <1>5, <1>6, FS_Injection
<1>8. q \in Seq(Nat)
  <2> HIDE DEF n
  <2>1. q \in [1..n -> Nat]
    BY <1>4
  <2> QED BY <1>1, <2>1
<1>9. ToSet(q) = S
  <2> HIDE DEF n
  <2>1. DOMAIN q = 1..n /\ \A i \in 1..n : q[i] \in S
    BY <1>4
  <2>2. \A t \in S : \E i \in 1..n : q[i] = t
    BY <1>7 DEF Surjection
  <2> QED BY <2>1, <2>2 DEF ToSet
<1> QED BY <1>8, <1>9 DEF q

LEMMA SortedIs ==
  ASSUME Types, NEW q \in Sorted
  PROVE  q \in Seq(Nat) /\ ToSet(q) = InRows /\ Len(q) = Cardinality(rows)
<1>1. PICK s \in SetToSeqs(rows) : q = [i \in DOMAIN s |-> s[i].jti]
  BY DEF Sorted
<1> DEFINE n == Cardinality(rows)
<1>2. s \in [1..n -> rows] /\ n \in Nat /\ IsInjective(s)
  <2>1. s \in [1..n -> rows] /\ n \in Nat
    BY FS_CardinalityType DEF SetToSeqs, Types, Rows
  <2>2. \A i, k \in 1..n : i # k => s[i] # s[k]
    BY DEF SetToSeqs
  <2> HIDE DEF n
  <2> QED BY <2>1, <2>2 DEF IsInjective
<1>3. \A i \in 1..n : s[i].jti \in Nat /\ s[i].jti \in InRows
  BY <1>2 DEF Types, Rows, InRows
<1> HIDE DEF n
<1>4. q = [i \in 1..n |-> s[i].jti]
  BY <1>1, <1>2
<1>5. q \in Seq(Nat) /\ Len(q) = n
  BY <1>2, <1>3, <1>4
<1>6. ToSet(q) \subseteq InRows
  BY <1>3, <1>4 DEF ToSet
<1>7. \A r \in rows : \E i \in 1..n : s[i] = r
  <2>1. n \in Int /\ 1 \in Int
    BY <1>2
  <2>2. IsFiniteSet(1..n) /\ Cardinality(1..n) = IF 1 > n THEN 0 ELSE n - 1 + 1
    BY <2>1, FS_Interval
  <2>3. Cardinality(1..n) = Cardinality(rows) /\ IsFiniteSet(rows)
    BY <1>2, <2>2 DEF n, Types, Rows
  <2>4. s \in Injection(1..n, rows)
    BY <1>2 DEF Injection
  <2>5. s \in Surjection(1..n, rows)
    BY <2>2, <2>3, <2>4, FS_Injection
  <2> QED BY <2>5 DEF Surjection
<1>8. InRows \subseteq ToSet(q)
  BY <1>4, <1>7 DEF InRows, ToSet
<1> QED BY <1>5, <1>6, <1>8 DEF n

\* What a registration in Redis leaves: the new session and some of those read.
LEMMA AppendedIs ==
  ASSUME NEW o \in OpType
  PROVE  /\ Appended(o) \in Seq(Nat) /\ Len(Appended(o)) <= MaxSessions
         /\ ToSet(Appended(o)) \subseteq ToSet(o.read) \cup {o.jti}
         /\ o.jti \in ToSet(Appended(o))
<1> DEFINE new == Append(o.read, o.jti)
           n == Len(new)
           k == n - MaxSessions + 1
<1>1. o.read \in Seq(Nat) /\ o.jti \in Nat /\ MaxSessions \in Nat \ {0}
  BY SessionsAssumption DEF OpType
<1>2. /\ new \in Seq(Nat) /\ n \in Nat /\ n >= 1 /\ new[n] = o.jti
      /\ DOMAIN new = 1..n
  BY <1>1
<1>3. ToSet(new) = ToSet(o.read) \cup {o.jti}
  BY <1>1, AppendedSet
<1>4. Appended(o) = IF n > MaxSessions THEN SubSeq(new, k, n) ELSE new
  BY DEF Appended
<1> HIDE DEF new, n
<1>5. CASE n > MaxSessions
  <2> DEFINE r == SubSeq(new, k, n)
  <2>1. k \in 1..n /\ k \in Nat
    BY <1>1, <1>2, <1>5
  <2>2. /\ r \in Seq(Nat) /\ Len(r) = n - k + 1
        /\ \A i \in 1..(n - k + 1) : r[i] = new[k + i - 1]
    <3> HIDE DEF k
    <3>1. k \in Int /\ n \in Int /\ k <= n /\ \A i \in k..n : new[i] \in Nat
      BY <1>2, <2>1
    <3> QED BY <3>1, SubSeqProperties
  <2>3. Len(r) = MaxSessions /\ n - k + 1 = MaxSessions
    BY <1>1, <1>2, <2>2
  <2>4. ToSet(r) \subseteq ToSet(new)
    <3> SUFFICES ASSUME NEW i \in DOMAIN r PROVE r[i] \in ToSet(new)
      BY DEF ToSet
    <3>1. i \in 1..MaxSessions
      <4> HIDE DEF r
      <4> QED BY <2>2, <2>3
    <3>2. r[i] = new[k + i - 1] /\ k + i - 1 \in 1..n
      BY <1>1, <1>2, <2>1, <2>2, <2>3, <3>1
    <3> QED BY <1>2, <3>2 DEF ToSet
  <2>5. o.jti \in ToSet(r)
    <3>1. r[MaxSessions] = new[k + MaxSessions - 1] /\ k + MaxSessions - 1 = n
      BY <1>1, <1>2, <2>2, <2>3
    <3>2. DOMAIN r = 1..MaxSessions
      <4> HIDE DEF r
      <4> QED BY <2>2, <2>3
    <3> HIDE DEF r, k
    <3> QED BY <1>1, <1>2, <3>1, <3>2 DEF ToSet
  <2>6. Appended(o) = r
    BY <1>4, <1>5
  <2> HIDE DEF r, k
  <2> QED BY <1>1, <1>3, <2>2, <2>3, <2>4, <2>5, <2>6
<1>6. CASE ~(n > MaxSessions)
  <2>1. Appended(o) = new /\ Len(new) = n
    BY <1>4, <1>6 DEF n
  <2> QED BY <1>1, <1>2, <1>3, <1>6, <2>1
<1> QED BY <1>5, <1>6

\* created_at of what is inserted is later than all there is.
LEMMA TimeIs ==
  ASSUME Types
  PROVE  /\ Time \in Nat
         /\ \A r \in rows : r.at < Time
         /\ \A o \in ops : o.at < Time
<1> DEFINE A == {r.at : r \in rows}
           B == {o.at : o \in ops}
           S == {0} \cup A \cup B
<1>1. S \subseteq Nat
  <2>1. \A r \in rows : r.at \in Nat
    BY DEF Types, Rows
  <2>2. \A o \in ops : o.at \in Nat
    BY DEF Types, Changes, OpType
  <2> QED BY <2>1, <2>2
<1>2. IsFiniteSet(A)
  <2> DEFINE f == [r \in rows |-> r.at]
  <2>1. f \in Surjection(rows, A)
    BY DEF Surjection
  <2> QED BY <2>1, FS_Surjection DEF Types, Rows
<1>3. IsFiniteSet(B)
  <2> DEFINE f == [o \in ops |-> o.at]
  <2>1. f \in Surjection(ops, B)
    BY DEF Surjection
  <2> QED BY <2>1, FS_Surjection DEF Types, Changes
<1>4. IsFiniteSet(S)
  <2> HIDE DEF A, B
  <2>1. IsFiniteSet({0})
    BY FS_Singleton
  <2>2. IsFiniteSet({0} \cup A)
    BY <1>2, <2>1, FS_Union
  <2> QED BY <1>3, <2>2, FS_Union
<1>5. Time = 1 + Max(S)
  BY DEF Time
<1>6. \A r \in rows : r.at \in S
  OBVIOUS
<1>7. \A o \in ops : o.at \in S
  OBVIOUS
<1>8. S # {} /\ S \subseteq Int
  BY <1>1
<1> HIDE DEF S
<1>9. Max(S) \in S /\ \A y \in S : Max(S) >= y
  <2>1. S \subseteq Int /\ S # {} => Max(S) \in S /\ \A y \in S : Max(S) >= y
    BY <1>4, MaxIs
  <2> QED BY <1>8, <2>1
<1>10. Max(S) \in Nat
  BY <1>1, <1>9
<1> DEFINE m == Max(S)
<1>11. m \in Nat /\ Time = 1 + m /\ \A y \in S : y \in Nat /\ m >= y
  BY <1>1, <1>5, <1>9, <1>10
<1> HIDE DEF m
<1>12. \A y \in S : y < 1 + m
  BY <1>11
<1> QED BY <1>6, <1>7, <1>11, <1>12

\* A new change.
LEMMA OpIs ==
  ASSUME NEW w \in Workers, NEW kind \in Registers \cup Ends \cup Moves, NEW j \in Nat,
         NEW store \in Stores
  PROVE  Op(w, kind, j, store) \in OpType
<1>1. <<>> \in Seq(Nat) /\ 0 \in Nat /\ "new" \in {"new", "read"}
  OBVIOUS
<1> QED BY <1>1, Zenon DEF Op, OpType

\* What is repeated in the background has been answered before.
LEMMA AgainIs ==
  ASSUME Types, NEW o \in ops
  PROVE  /\ Changes(Again(o), mode)
         /\ \A p \in Again(o) :
              /\ p.jti = o.jti /\ p.pc = "new"
              /\ (p.kind = "again" /\ o.kind = "login")
                 \/ p.kind \in {"logout again", "wipe again"}
<1>1. o \in OpType /\ (o.kind \notin Moves => mode[o.w] \in Stores)
  BY DEF Types, Changes, OpType
<1>2. \A kind \in {"again", "logout again", "wipe again"} :
        o.kind \notin Moves => Op(o.w, kind, o.jti, mode[o.w]) \in OpType
  <2> SUFFICES ASSUME NEW kind \in {"again", "logout again", "wipe again"},
                      o.kind \notin Moves
               PROVE  Op(o.w, kind, o.jti, mode[o.w]) \in OpType
    OBVIOUS
  <2>1. o.w \in Workers /\ o.jti \in Nat /\ mode[o.w] \in Stores
    BY <1>1 DEF OpType
  <2>2. kind \in Registers \cup Ends \cup Moves
    BY DEF Registers, Ends
  <2> QED BY <2>1, <2>2, OpIs
<1>3. \/ Again(o) = {}
      \/ o.kind = "login" /\ Again(o) = {Op(o.w, "again", o.jti, mode[o.w])}
      \/ o.kind = "logout" /\ Again(o) = {Op(o.w, "logout again", o.jti, mode[o.w])}
      \/ o.kind = "wipe" /\ Again(o) = {Op(o.w, "wipe again", o.jti, mode[o.w])}
  BY DEF Again
<1>4. IsFiniteSet(Again(o))
  BY <1>3, FS_EmptySet, FS_Singleton
<1>5. ASSUME NEW p \in Again(o)
      PROVE  /\ p \in OpType
             /\ p.w = o.w /\ p.jti = o.jti /\ p.pc = "new"
             /\ (p.kind = "again" /\ o.kind = "login")
                 \/ p.kind \in {"logout again", "wipe again"}
             /\ mode[p.w] # "down"
  <2>1. o.kind \notin Moves
    BY <1>3, <1>5 DEF Moves
  <2>2. mode[o.w] # "down"
    BY <2>1 DEF Types, Changes
  <2>3. PICK kind \in {"again", "logout again", "wipe again"} :
          p = Op(o.w, kind, o.jti, mode[o.w]) /\ (kind = "again" => o.kind = "login")
    BY <1>3, <1>5
  <2>4. p.w = o.w /\ p.jti = o.jti /\ p.pc = "new" /\ p.kind = kind
    BY <2>3 DEF Op
  <2>5. p \in OpType
    BY <1>2, <2>1, <2>3
  <2> QED BY <2>2, <2>3, <2>4, <2>5
<1>6. \A p \in Again(o) : p.kind \notin Moves
  BY <1>5 DEF Moves
<1> QED BY <1>4, <1>5, <1>6 DEF Changes

LEMMA Replaced ==
  ASSUME NEW O, NEW m, Changes(O, m), NEW D, NEW X, Changes(X, m)
  PROVE  Changes(O \ D, m) /\ Changes((O \ D) \cup X, m)
<1>1. IsFiniteSet(O \ D)
  <2>1. O \ D \in SUBSET O
    OBVIOUS
  <2> QED BY <2>1, FS_Subset DEF Changes
<1>2. IsFiniteSet((O \ D) \cup X)
  BY <1>1, FS_Union DEF Changes
<1> QED BY <1>1, <1>2 DEF Changes

LEMMA OneMore ==
  ASSUME NEW o \in OpType, NEW m,
         o.kind \notin Moves => m[o.w] # "down",
         o.kind \in Moves => o.pc = "read",
         o.kind \in {"wipe", "wipe again"} => o.pc = "new"
  PROVE  Changes({o}, m)
BY FS_Singleton DEF Changes

-----------------------------------------------------------------------------
(* The types.                                                              *)

LEMMA Typed ==
  ASSUME Types, NEW o \in ops
  PROVE  /\ o \in OpType /\ o.w \in Workers /\ o.jti \in Nat /\ o.at \in Nat
         /\ o.store \in Stores /\ o.pc \in {"new", "read"} /\ o.read \in Seq(Nat)
         /\ o.kind \in Registers \cup Ends \cup Moves
BY DEF Types, Changes, OpType

\* A change that has read.
LEMMA HasRead ==
  ASSUME Types, NEW o \in ops, NEW s \in Seq(Nat), NEW t \in Nat,
         o.kind \notin {"wipe", "wipe again"}
  PROVE  /\ Changes({[o EXCEPT !.pc = "read", !.at = t, !.read = s]}, mode)
         /\ Changes({[o EXCEPT !.pc = "read", !.read = s]}, mode)
<1> DEFINE p == [o EXCEPT !.pc = "read", !.at = t, !.read = s]
           q == [o EXCEPT !.pc = "read", !.read = s]
<1>1. o \in OpType
  BY Typed
<1>2. p \in OpType /\ q \in OpType
  BY <1>1 DEF OpType
<1>3. /\ p.w = o.w /\ p.kind = o.kind /\ p.pc = "read"
      /\ q.w = o.w /\ q.kind = o.kind /\ q.pc = "read"
  BY <1>1 DEF OpType
<1>4. o.kind \notin Moves => mode[o.w] # "down"
  BY DEF Types, Changes
<1> HIDE DEF p, q
<1>5. Changes({p}, mode) /\ Changes({q}, mode)
  BY <1>2, <1>3, <1>4, OneMore
<1> QED BY <1>5 DEF p, q

\* What the transaction of a registration leaves out.
LEMMA ExcessIs ==
  ASSUME Types, NEW o \in ops, NEW keep
  PROVE  LET all == rows \cup {[jti |-> o.jti, at |-> Time]}
             S == {r.jti : r \in all \ keep}
         IN  SetToSeq(S) \in Seq(Nat) /\ ToSet(SetToSeq(S)) = S
<1> DEFINE own == [jti |-> o.jti, at |-> Time]
           all == rows \cup {own}
           S == {r.jti : r \in all \ keep}
<1>1. own \in [jti : Nat, at : Nat]
  BY Typed, TimeIs
<1>2. all \subseteq [jti : Nat, at : Nat] /\ IsFiniteSet(all)
  BY <1>1, FS_AddElement DEF Types, Rows
<1> HIDE DEF all
<1>3. S \in SUBSET Nat
  BY <1>2
<1>4. IsFiniteSet(S)
  <2> DEFINE f == [r \in all \ keep |-> r.jti]
  <2>1. f \in Surjection(all \ keep, S)
    BY DEF Surjection
  <2>2. IsFiniteSet(all \ keep)
    <3>1. all \ keep \in SUBSET all
      OBVIOUS
    <3> QED BY <1>2, <3>1, FS_Subset
  <2> QED BY <2>1, <2>2, FS_Surjection
<1> HIDE DEF S
<1>5. SetToSeq(S) \in Seq(Nat) /\ ToSet(SetToSeq(S)) = S
  BY <1>3, <1>4, SetToSeqIs
<1> QED BY <1>5 DEF S, all

LEMMA InitInv == Init => Inv
<1> SUFFICES ASSUME Init PROVE Inv
  OBVIOUS
<1>1. Types
  <2>1. mode \in [Workers -> Stores \cup {"down"}]
    BY DEF Init, Stores
  <2>2. IsFiniteSet({})
    BY FS_EmptySet
  <2> QED BY <2>1, <2>2 DEF Init, Types, Rows, Changes
<1>2. Issued /\ Ghosts
  BY DEF Init, Issued, Ghosts
<1> QED BY <1>1, <1>2 DEF Inv

LEMMA ReadTypes ==
  ASSUME Types, NEW o \in ops, Read(o)
  PROVE  Types'
<1>1. PICK p : Changes({p}, mode) /\ ops' = (ops \ {o}) \cup {p}
  <2>1. CASE o.kind \in Registers /\ o.store = "postgres" /\ RegisterPostgres(o)
    <3>1. PICK keep : ops' = (ops \ {o}) \cup
            {[o EXCEPT !.pc = "read", !.at = Time,
               !.read = SetToSeq({r.jti : r \in (rows \cup {[jti |-> o.jti, at |-> Time]}) \ keep})]}
      BY <2>1 DEF RegisterPostgres
    <3>2. SetToSeq({r.jti : r \in (rows \cup {[jti |-> o.jti, at |-> Time]}) \ keep}) \in Seq(Nat)
      BY ExcessIs
    <3>3. Time \in Nat /\ o.kind \notin {"wipe", "wipe again"}
      BY <2>1, TimeIs DEF Registers
    <3> QED BY <3>1, <3>2, <3>3, HasRead
  <2>2. CASE /\ o.store = "redis" /\ o.kind \in Registers \cup {"logout", "logout again"}
             /\ ops' = (ops \ {o}) \cup {[o EXCEPT !.pc = "read", !.read = list]}
    <3>1. list \in Seq(Nat) /\ 0 \in Nat /\ o.kind \notin {"wipe", "wipe again"}
      BY <2>2 DEF Types, Registers
    <3> QED BY <2>2, <3>1, HasRead
  <2> QED BY <2>1, <2>2 DEF Read
<1>2. Changes(ops', mode)
  BY <1>1, Replaced DEF Types
<1> QED BY <1>2 DEF Types, Read

LEMMA RegisterTypes ==
  ASSUME Types, NEW o \in ops, Register(o)
  PROVE  Types'
<1>1. Changes(ops', mode)
  BY AgainIs, Replaced DEF Types, Register
<1>2. list' \in Seq(Nat)
  BY Typed, AppendedIs DEF Types, Register
<1>3. Rows(rows')
  <2> DEFINE own == [jti |-> o.jti, at |-> o.at]
             left == {r \in rows : r.jti \notin ToSet(o.read)}
  <2>1. own \in [jti : Nat, at : Nat]
    BY Typed
  <2>2. Rows(left)
    <3>1. left \in SUBSET rows
      OBVIOUS
    <3> QED BY <3>1, FS_Subset DEF Types, Rows
  <2> HIDE DEF own, left
  <2>3. Rows(left \cup {own})
    BY <2>1, <2>2, FS_AddElement DEF Rows
  <2>4. rows' \in {rows, left \cup {own}}
    BY DEF Register, Inserted, left, own
  <2> QED BY <2>3, <2>4 DEF Types
<1> QED BY <1>1, <1>2, <1>3 DEF Types, Register

LEMMA RevokeTypes ==
  ASSUME Types, NEW o \in ops, Revoke(o)
  PROVE  Types'
<1>1. Changes(ops', mode)
  BY AgainIs, Replaced DEF Types, Revoke
<1>2. list' \in Seq(Nat)
  <2>1. Without(o.read, o.jti) \in Seq(Nat) /\ <<>> \in Seq(Nat)
    BY Typed, WithoutIs
  <2>2. list' \in {list, Without(o.read, o.jti), <<>>}
    BY DEF Revoke, Removed, Absent
  <2> QED BY <2>1, <2>2 DEF Types
<1>3. Rows(rows')
  <2>1. rows' \in SUBSET rows
    BY DEF Revoke, Removed
  <2> QED BY <2>1, FS_Subset DEF Types, Rows
<1> QED BY <1>1, <1>2, <1>3 DEF Types, Revoke

\* A migration that has read.
LEMMA MoveIs ==
  ASSUME NEW w \in Workers, NEW kind \in Moves, NEW to \in Stores, NEW s \in Seq(Nat), NEW m
  PROVE  LET p == [Op(w, kind, 0, to) EXCEPT !.pc = "read", !.read = s]
         IN  /\ Changes({p}, m)
             /\ p.pc = "read" /\ p.store = to
<1> DEFINE q == Op(w, kind, 0, to)
           p == [q EXCEPT !.pc = "read", !.read = s]
<1>1. q \in OpType
  BY OpIs
<1>2. q.kind = kind /\ q.store = to
  BY DEF Op
<1> HIDE DEF q
<1>3. p \in OpType /\ p.kind = kind /\ p.pc = "read" /\ p.read = s /\ p.store = to
  BY <1>1, <1>2 DEF OpType
<1> HIDE DEF p
<1>4. p.kind \in Moves /\ p.kind \notin {"wipe", "wipe again"}
  BY <1>3 DEF Moves
<1>5. Changes({p}, m)
  BY <1>3, <1>4, OneMore
<1> QED BY <1>3, <1>5 DEF p, q

LEMMA MigrateTypes ==
  ASSUME Types, NEW w \in Workers, Migrate(w)
  PROVE  Types'
<1> DEFINE kind == IF perf THEN "to redis" ELSE "to postgres"
           to == IF perf THEN "redis" ELSE "postgres"
<1>1. PICK read \in IF perf THEN Sorted ELSE {list} :
        ops' = ops \cup {[Op(w, kind, 0, to) EXCEPT !.pc = "read", !.read = read]}
  BY DEF Migrate
<1>2. read \in Seq(Nat)
  BY SortedIs DEF Types
<1> DEFINE p == [Op(w, kind, 0, to) EXCEPT !.pc = "read", !.read = read]
<1>3. kind \in Moves /\ to \in Stores
  BY DEF Moves, Stores
<1>6. Changes({p}, mode)
  <2> HIDE DEF kind, to
  <2> QED BY <1>2, <1>3, MoveIs
<1>7. Changes(ops', mode)
  <2> HIDE DEF p
  <2>1. ops' = (ops \ {}) \cup {p}
    BY <1>1 DEF p
  <2> QED BY <1>6, <2>1, Replaced DEF Types
<1> QED BY <1>7 DEF Types, Migrate

LEMMA MoveTypes ==
  ASSUME Types, NEW o \in ops, Move(o)
  PROVE  Types'
<1>1. mode' \in [Workers -> Stores \cup {"down"}]
  BY Typed DEF Types, Move
<1>2. \A w \in Workers : mode[w] # "down" => mode'[w] # "down"
  BY Typed DEF Types, Move, Stores
<1>3. Changes(ops', mode')
  <2>1. Changes(ops', mode)
    BY Replaced DEF Types, Move
  <2>2. \A p \in ops' : p.w \in Workers
    BY Typed DEF Move
  <2> QED BY <1>2, <2>1, <2>2 DEF Changes
<1>4. list' \in Seq(Nat)
  BY Typed DEF Types, Move, MoveToRedis, MoveToPostgres
<1>5. Rows(rows')
  <2> DEFINE new == ToSet(o.read) \ InRows
             X == [jti : new, at : {Time}]
  <2>1. rows' = rows \/ rows' = rows \cup X
    BY DEF Move, MoveToRedis, MoveToPostgres
  <2>2. ToSet(o.read) \subseteq Nat /\ IsFiniteSet(ToSet(o.read))
    BY Typed, ToSetIs
  <2>3. X \subseteq [jti : Nat, at : Nat]
    BY <2>2, TimeIs
  <2>4. IsFiniteSet(X)
    <3> DEFINE f == [j \in new |-> [jti |-> j, at |-> Time]]
    <3>1. IsFiniteSet(new)
      <4>1. new \in SUBSET ToSet(o.read)
        OBVIOUS
      <4> QED BY <2>2, <4>1, FS_Subset
    <3>2. f \in Surjection(new, X)
      BY DEF Surjection
    <3> QED BY <3>1, <3>2, FS_Surjection
  <2> HIDE DEF X
  <2>5. IsFiniteSet(rows \cup X)
    BY <2>4, FS_Union DEF Types, Rows
  <2> QED BY <2>1, <2>3, <2>5 DEF Types, Rows
<1> QED BY <1>1, <1>3, <1>4, <1>5 DEF Types, Move

\* A request that begins.
LEMMA RequestIs ==
  ASSUME Types, NEW w \in Workers, mode[w] # "down", NEW kind \in {"login", "logout", "wipe"},
         NEW j \in Nat
  PROVE  LET p == Op(w, kind, j, mode[w])
         IN  /\ Changes({p}, mode)
             /\ p.kind = kind /\ p.jti = j /\ p.pc = "new"
<1> DEFINE p == Op(w, kind, j, mode[w])
<1>1. kind \in Registers \cup Ends \cup Moves /\ kind \notin Moves
      /\ kind \notin {"wipe again"}
  BY DEF Registers, Ends, Moves
<1>2. mode[w] \in Stores
  BY DEF Types
<1>3. p \in OpType
  BY <1>1, <1>2, OpIs
<1>4. p.w = w /\ p.kind = kind /\ p.jti = j /\ p.pc = "new"
  BY DEF Op
<1> HIDE DEF p
<1>5. Changes({p}, mode)
  BY <1>1, <1>3, <1>4, OneMore
<1> QED BY <1>4, <1>5 DEF p

LEMMA StepTypes ==
  ASSUME Inv, [Next]_vars
  PROVE  Types'
<1>1. Types /\ Issued
  BY DEF Inv
<1>2. CASE UNCHANGED vars
  BY <1>1, <1>2 DEF Types, vars
<1>3. ASSUME NEW w \in Workers, Login(w)
      PROVE  Types'
  <2>1. logins + 1 \in Nat /\ "login" \in {"login", "logout", "wipe"} /\ mode[w] # "down"
    BY <1>1, <1>3 DEF Types, Login
  <2>2. Changes({Op(w, "login", logins + 1, mode[w])}, mode)
    BY <1>1, <2>1, RequestIs
  <2>3. ops' = (ops \ {}) \cup {Op(w, "login", logins + 1, mode[w])}
    BY <1>3 DEF Login
  <2>4. Changes(ops', mode)
    BY <1>1, <2>2, <2>3, Replaced DEF Types
  <2> QED BY <1>1, <1>3, <2>1, <2>4 DEF Types, Login
<1>4. ASSUME NEW w \in Workers, NEW kind \in {"logout", "wipe"}, NEW j \in Jtis, End(w, kind, j)
      PROVE  Types'
  <2>1. j \in Nat /\ kind \in {"login", "logout", "wipe"} /\ mode[w] # "down"
    <3>1. MaxLogins \in Nat
      BY SessionsAssumption
    <3> QED BY <1>4, <3>1 DEF End, Jtis
  <2>2. Changes({Op(w, kind, j, mode[w])}, mode)
    BY <1>1, <2>1, RequestIs
  <2>3. ops' = (ops \ {}) \cup {Op(w, kind, j, mode[w])}
    BY <1>4 DEF End
  <2>4. Changes(ops', mode)
    BY <1>1, <2>2, <2>3, Replaced DEF Types
  <2> QED BY <1>1, <1>4, <2>4 DEF Types, End
<1>5. ASSUME NEW o \in ops, Registered(o)
      PROVE  Types'
  <2>1. Changes(ops', mode)
    BY <1>1, <1>5, AgainIs, Replaced DEF Types, Registered
  <2> QED BY <1>1, <1>5, <2>1 DEF Types, Registered
<1>6. ASSUME NEW o \in ops, Fails(o)
      PROVE  Types'
  <2>1. ops' = (ops \ {o}) \cup Again(o) \/ ops' = ops \ {o}
    BY <1>6 DEF Fails
  <2>2. Changes(Again(o), mode)
    BY <1>1, AgainIs
  <2>3. Changes(ops, mode)
    BY <1>1 DEF Types
  <2>4. Changes(ops \ {o}, mode) /\ Changes((ops \ {o}) \cup Again(o), mode)
    BY <2>2, <2>3, Replaced
  <2>5. Changes(ops', mode)
    BY <2>1, <2>4
  <2> QED BY <1>1, <1>6, <2>5 DEF Types, Fails
<1>7. ASSUME NEW w \in Workers, Restart(w)
      PROVE  Types'
  <2>1. mode' \in [Workers -> Stores \cup {"down"}] /\ \A u \in Workers : u # w => mode'[u] = mode[u]
    BY <1>1, <1>7 DEF Types, Restart
  <2>2. Changes(ops', mode')
    <3>1. ops' = ops \ {o \in ops : o.w = w}
      BY <1>7 DEF Restart
    <3>2. Changes(ops', mode)
      BY <1>1, <3>1, Replaced DEF Types
    <3>3. \A o \in ops' : o.w \in Workers /\ o.w # w
      BY <1>1, <3>1, Typed
    <3> QED BY <2>1, <3>2, <3>3 DEF Changes
  <2> QED BY <1>1, <1>7, <2>1, <2>2 DEF Types, Restart
<1>8. ASSUME NEW w \in Workers, Start(w)
      PROVE  Types'
  <2>1. mode' \in [Workers -> Stores \cup {"down"}]
        /\ \A u \in Workers : mode[u] # "down" => mode'[u] # "down"
    BY <1>1, <1>8 DEF Types, Start, Stores
  <2>2. Changes(ops, mode')
    BY <1>1, <2>1, Typed DEF Types, Changes
  <2> QED BY <1>1, <1>8, <2>1, <2>2 DEF Types, Start
<1>9. CASE Switch
  BY <1>1, <1>9 DEF Types, Switch
<1>10. CASE Done
  BY <1>1, <1>10 DEF Types, Done, vars
<1> QED
  BY <1>1, <1>2, <1>3, <1>4, <1>5, <1>6, <1>7, <1>8, <1>9, <1>10, ReadTypes, RegisterTypes,
     RevokeTypes, MigrateTypes, MoveTypes DEF Next

-----------------------------------------------------------------------------
(* Logins and what ends them.                                              *)

\* Changes that end may answer a login.
LEMMA IssuedKept ==
  ASSUME Issued, logins' = logins, issued \subseteq issued', issued' \subseteq 1..logins,
         revoked' \subseteq issued',
         \A p \in ops' : p \in ops \/ p.kind \notin {"login", "logout"},
         \A p \in ops' : p.kind = "login" => p.jti \notin issued' \ issued
  PROVE  Issued'
BY DEF Issued

\* The request of o ends, and its repetition begins.
LEMMA AnsweredKept ==
  ASSUME Types, Issued, NEW o \in ops, ops' \subseteq (ops \ {o}) \cup Again(o),
         issued' \in {issued, Answered(o)}, revoked' \subseteq issued', logins' = logins
  PROVE  Issued'
<1>1. \A p \in ops' : (p \in ops /\ p # o) \/ p.kind \notin {"login", "logout"}
  BY AgainIs
<1>2. CASE o.kind = "login"
  <2>1. o.jti \in 1..logins /\ \A p \in ops' : p.kind = "login" => p.jti # o.jti
    BY <1>1, <1>2 DEF Issued
  <2>2. issued' = issued \/ issued' = issued \cup {o.jti}
    BY <1>2 DEF Answered
  <2>3. issued \subseteq issued' /\ issued' \subseteq 1..logins
        /\ issued' \ issued \subseteq {o.jti}
    BY <2>1, <2>2 DEF Issued
  <2>4. \A p \in ops' : p.kind = "login" => p.jti \notin issued' \ issued
    BY <2>1, <2>3
  <2>5. \A p \in ops' : p \in ops \/ p.kind \notin {"login", "logout"}
    BY <1>1
  <2> QED BY <2>3, <2>4, <2>5, IssuedKept
<1>3. CASE o.kind # "login"
  <2>1. issued' = issued
    BY <1>3 DEF Answered
  <2>2. issued \subseteq issued' /\ issued' \subseteq 1..logins /\ issued' \ issued = {}
    BY <2>1 DEF Issued
  <2>3. \A p \in ops' : p \in ops \/ p.kind \notin {"login", "logout"}
    BY <1>1
  <2> QED BY <2>2, <2>3, IssuedKept
<1> QED BY <1>2, <1>3

\* What is going to read remains what it is.
LEMMA ReadIs ==
  ASSUME Types, NEW o \in ops, Read(o)
  PROVE  \E p : /\ ops' = (ops \ {o}) \cup {p}
                /\ p.kind = o.kind /\ p.jti = o.jti /\ p.store = o.store /\ p.pc = "read"
                /\ o.kind \in Registers \/ o.store = "redis"
                /\ o.store = "redis" => p.read = list
<1>1. o \in OpType
  BY Typed
<1>2. ASSUME NEW s, NEW t
      PROVE  LET p == [o EXCEPT !.pc = "read", !.at = t, !.read = s]
                 q == [o EXCEPT !.pc = "read", !.read = s]
             IN  /\ p.kind = o.kind /\ p.jti = o.jti /\ p.store = o.store /\ p.pc = "read"
                 /\ q.kind = o.kind /\ q.jti = o.jti /\ q.store = o.store /\ q.pc = "read"
                 /\ q.read = s
  BY <1>1 DEF OpType
<1>3. CASE o.kind \in Registers /\ o.store = "postgres" /\ RegisterPostgres(o)
  <2>1. PICK s : ops' = (ops \ {o}) \cup {[o EXCEPT !.pc = "read", !.at = Time, !.read = s]}
    BY <1>3 DEF RegisterPostgres
  <2> DEFINE p == [o EXCEPT !.pc = "read", !.at = Time, !.read = s]
  <2>2. p.kind = o.kind /\ p.jti = o.jti /\ p.store = o.store /\ p.pc = "read"
    BY <1>2
  <2>3. ops' = (ops \ {o}) \cup {p} /\ o.kind \in Registers /\ o.store # "redis"
    BY <1>3, <2>1
  <2> HIDE DEF p
  <2> QED BY <2>2, <2>3
<1>4. CASE /\ o.store = "redis" /\ o.kind \in Registers \cup {"logout", "logout again"}
           /\ ops' = (ops \ {o}) \cup {[o EXCEPT !.pc = "read", !.read = list]}
  BY <1>2, <1>4
<1> QED BY <1>3, <1>4 DEF Read

LEMMA StepIssued ==
  ASSUME Inv, [Next]_vars
  PROVE  Issued'
<1>1. Types /\ Issued
  BY DEF Inv
<1>2. CASE UNCHANGED vars
  BY <1>1, <1>2 DEF Issued, vars
<1>3. ASSUME NEW w \in Workers, Login(w)
      PROVE  Issued'
  <2> DEFINE p == Op(w, "login", logins + 1, mode[w])
  <2>1. /\ logins \in Nat /\ logins' = logins + 1 /\ issued' = issued /\ revoked' = revoked
        /\ ops' = ops \cup {p}
    BY <1>1, <1>3 DEF Types, Login
  <2>2. p.kind = "login" /\ p.jti = logins + 1
    BY DEF Op
  <2> HIDE DEF p
  <2>3. 1..logins \subseteq 1..logins' /\ logins + 1 \in 1..logins' /\ logins + 1 \notin 1..logins
    BY <2>1
  <2>4. \A o \in ops : o.kind = "login" => o.jti # logins + 1
    BY <1>1, <2>3 DEF Issued
  <2>5. logins + 1 \notin issued
    BY <1>1, <2>3 DEF Issued
  <2> QED BY <1>1, <2>1, <2>2, <2>3, <2>4, <2>5 DEF Issued
<1>4. ASSUME NEW w \in Workers, NEW kind \in {"logout", "wipe"}, NEW j \in Jtis, End(w, kind, j)
      PROVE  Issued'
  <2> DEFINE p == Op(w, kind, j, mode[w])
  <2>1. /\ logins' = logins /\ issued' = issued /\ revoked' = revoked /\ j \in issued
        /\ ops' = ops \cup {p}
    BY <1>4 DEF End
  <2>2. p.kind = kind /\ p.jti = j
    BY DEF Op
  <2> HIDE DEF p
  <2> QED BY <1>1, <2>1, <2>2 DEF Issued
<1>5. ASSUME NEW o \in ops, Read(o)
      PROVE  Issued'
  <2>1. PICK p : ops' = (ops \ {o}) \cup {p} /\ p.kind = o.kind /\ p.jti = o.jti
    BY <1>1, <1>5, ReadIs
  <2>2. logins' = logins /\ issued' = issued /\ revoked' = revoked
    BY <1>5 DEF Read
  <2> QED BY <1>1, <2>1, <2>2 DEF Issued
<1>6. ASSUME NEW o \in ops, Registered(o) \/ Register(o) \/ Fails(o)
      PROVE  Issued'
  <2>1. ops' \subseteq (ops \ {o}) \cup Again(o) /\ issued' \in {issued, Answered(o)}
        /\ revoked' = revoked /\ logins' = logins
    BY <1>6 DEF Registered, Register, Fails
  <2>2. issued \subseteq issued'
    BY <2>1 DEF Answered
  <2> QED BY <1>1, <2>1, <2>2, AnsweredKept DEF Issued
<1>7. ASSUME NEW o \in ops, Revoke(o)
      PROVE  Issued'
  <2>1. ops' \subseteq (ops \ {o}) \cup Again(o) /\ issued' = issued /\ logins' = logins
    BY <1>7 DEF Revoke
  <2>2. revoked' \subseteq issued'
    BY <1>1, <1>7 DEF Issued, Revoke, Ended
  <2> QED BY <1>1, <2>1, <2>2, AnsweredKept
<1>8. ASSUME NEW w \in Workers, Migrate(w)
      PROVE  Issued'
  <2>1. PICK read : ops' = ops \cup
          {[Op(w, IF perf THEN "to redis" ELSE "to postgres", 0,
               IF perf THEN "redis" ELSE "postgres") EXCEPT !.pc = "read", !.read = read]}
    BY <1>8 DEF Migrate
  <2>2. [Op(w, IF perf THEN "to redis" ELSE "to postgres", 0,
            IF perf THEN "redis" ELSE "postgres") EXCEPT !.pc = "read", !.read = read].kind
          \notin {"login", "logout"}
    BY DEF Op
  <2>3. logins' = logins /\ issued' = issued /\ revoked' = revoked
    BY <1>8 DEF Migrate
  <2>4. \A p \in ops' : p \in ops \/ p.kind \notin {"login", "logout"}
    BY <2>1, <2>2
  <2>5. issued \subseteq issued' /\ issued' \subseteq 1..logins /\ revoked' \subseteq issued'
        /\ issued' \ issued = {}
    BY <1>1, <2>3 DEF Issued
  <2> QED BY <1>1, <2>3, <2>4, <2>5, IssuedKept
<1>9. ASSUME ops' \subseteq ops, logins' = logins, issued' = issued, revoked' = revoked
      PROVE  Issued'
  BY <1>1, <1>9 DEF Issued
<1>10. ASSUME NEW o \in ops, Move(o)
       PROVE  Issued'
  BY <1>9, <1>10 DEF Move
<1>11. ASSUME NEW w \in Workers, Restart(w) \/ Start(w)
       PROVE  Issued'
  BY <1>9, <1>11 DEF Restart, Start
<1>12. CASE Switch \/ Done
  BY <1>9, <1>12 DEF Switch, Done, vars
<1> QED
  BY <1>2, <1>3, <1>4, <1>5, <1>6, <1>7, <1>8, <1>10, <1>11, <1>12 DEF Next

-----------------------------------------------------------------------------
(* The ended sessions.                                                     *)

\* Nothing but a logout or a wipe ends sessions: it is enough that the dead stay dead.
LEMMA GhostsKept ==
  ASSUME Issued, Ghosts, revoked' = revoked, raced' = raced,
         \A j \in issued : Dead(j) => Dead(j)'
  PROVE  Ghosts'
BY DEF Issued, Ghosts

\* The stores are as before, and so is what is under way but for changes that are not
\* about j.
LEMMA StaysDead ==
  ASSUME NEW j, Dead(j), rows' = rows, list' = list,
         \A p \in ops' : \/ p \in ops
                         \/ /\ p.kind \in Registers => p.jti # j
                            /\ WritesBack(p) => j \notin ToSet(p.read)
  PROVE  Dead(j)'
BY DEF Dead, InRows, WritesBack

LEMMA DeadFacts ==
  ASSUME NEW j, Dead(j), NEW o \in ops
  PROVE  /\ o.kind \in Registers => o.jti # j
         /\ WritesBack(o) => j \notin ToSet(o.read)
         /\ j \notin InRows /\ j \notin ToSet(list)
BY DEF Dead

\* The repetition of a change is not about a dead session.
LEMMA AgainStaysDead ==
  ASSUME Types, NEW o \in ops, NEW j, o.kind \in Registers => o.jti # j, NEW p \in Again(o)
  PROVE  /\ p.kind \in Registers => p.jti # j
         /\ ~WritesBack(p)
<1>1. p.jti = o.jti /\ p.pc = "new"
      /\ ((p.kind = "again" /\ o.kind = "login") \/ p.kind \in {"logout again", "wipe again"})
  BY AgainIs
<1> QED BY <1>1 DEF Registers, WritesBack

LEMMA RequestsGhosts ==
  ASSUME Inv, NEW w \in Workers,
         Login(w) \/ \E i \in Jtis : End(w, "logout", i) \/ End(w, "wipe", i)
  PROVE  Ghosts'
<1>1. Types /\ Issued /\ Ghosts
  BY DEF Inv
<1>2. ASSUME NEW j \in issued, Dead(j)
      PROVE  Dead(j)'
  <2>1. CASE Login(w)
    <3>1. ops' = ops \cup {Op(w, "login", logins + 1, mode[w])} /\ rows' = rows /\ list' = list
      BY <2>1 DEF Login
    <3>2. Op(w, "login", logins + 1, mode[w]).jti = logins + 1
          /\ Op(w, "login", logins + 1, mode[w]).pc = "new"
      BY DEF Op
    <3>3. j # logins + 1
      BY <1>1 DEF Issued, Types
    <3> QED BY <1>2, <3>1, <3>2, <3>3, StaysDead DEF WritesBack
  <2>2. ASSUME NEW kind \in {"logout", "wipe"}, NEW i \in Jtis, End(w, kind, i)
        PROVE  Dead(j)'
    <3>1. ops' = ops \cup {Op(w, kind, i, mode[w])} /\ rows' = rows /\ list' = list
      BY <2>2 DEF End
    <3>2. Op(w, kind, i, mode[w]).kind \notin Registers /\ Op(w, kind, i, mode[w]).pc = "new"
      BY DEF Op, Registers
    <3> QED BY <1>2, <3>1, <3>2, StaysDead DEF WritesBack
  <2> QED BY <2>1, <2>2
<1>3. revoked' = revoked /\ raced' = raced
  BY DEF Login, End
<1> QED BY <1>1, <1>2, <1>3, GhostsKept

LEMMA ReadGhosts ==
  ASSUME Inv, NEW o \in ops, Read(o)
  PROVE  Ghosts'
<1>1. Types /\ Issued /\ Ghosts
  BY DEF Inv
<1>2. PICK p : /\ ops' = (ops \ {o}) \cup {p}
               /\ p.kind = o.kind /\ p.jti = o.jti /\ p.store = o.store /\ p.pc = "read"
               /\ o.kind \in Registers \/ o.store = "redis"
               /\ o.store = "redis" => p.read = list
  BY <1>1, ReadIs
<1>3. rows' = rows /\ list' = list /\ revoked' = revoked /\ raced' = raced
  BY DEF Read
<1>4. ASSUME NEW j \in issued, Dead(j)
      PROVE  Dead(j)'
  <2>1. p.kind \in Registers => p.jti # j
    BY <1>2, <1>4, DeadFacts
  <2>2. WritesBack(p) => j \notin ToSet(p.read)
    <3>1. o.pc = "new"
      BY DEF Read
    <3>2. o.kind \notin Moves
      BY <1>1, <3>1 DEF Types, Changes
    <3> QED BY <1>2, <1>4, <3>2, DeadFacts DEF WritesBack
  <2> QED BY <1>2, <1>3, <1>4, <2>1, <2>2, StaysDead
<1> QED BY <1>1, <1>3, <1>4, GhostsKept

LEMMA RegisterGhosts ==
  ASSUME Inv, NEW o \in ops, Registered(o) \/ Register(o) \/ Fails(o)
  PROVE  Ghosts'
<1>1. Types /\ Issued /\ Ghosts
  BY DEF Inv
<1>2. ops' \subseteq (ops \ {o}) \cup Again(o) /\ revoked' = revoked /\ raced' = raced
  BY DEF Registered, Register, Fails
<1>3. ASSUME NEW j \in issued, Dead(j)
      PROVE  Dead(j)'
  <2>1. \A p \in ops' : /\ p.kind \in Registers => p.jti # j
                        /\ WritesBack(p) => j \notin ToSet(p.read)
    <3>1. o.kind \in Registers => o.jti # j
      BY <1>3, DeadFacts
    <3> QED BY <1>1, <1>2, <1>3, <3>1, DeadFacts, AgainStaysDead
  <2>2. j \notin InRows /\ j \notin ToSet(list)
    BY <1>3, DeadFacts
  <2>3. j \notin InRows' /\ j \notin ToSet(list')
    <3>1. CASE Register(o)
      <4>1. o.kind \in Registers /\ o.jti # j
        BY <1>3, <3>1, DeadFacts DEF Register
      <4>2. CASE o.store = "redis"
        <5>1. j \notin ToSet(o.read)
          BY <1>3, <3>1, <4>2, DeadFacts DEF Register, WritesBack
        <5>2. ToSet(Appended(o)) \subseteq ToSet(o.read) \cup {o.jti}
          BY <1>1, Typed, AppendedIs
        <5> QED BY <2>2, <3>1, <4>1, <4>2, <5>1, <5>2 DEF Register, InRows
      <4>3. CASE o.store # "redis"
        BY <2>2, <3>1, <4>1, <4>3 DEF Register, Inserted, InRows
      <4> QED BY <4>2, <4>3
    <3>2. CASE Registered(o) \/ Fails(o)
      BY <2>2, <3>2 DEF Registered, Fails, InRows
    <3> QED BY <3>1, <3>2
  <2> QED BY <2>1, <2>3 DEF Dead, WritesBack
<1> QED BY <1>1, <1>2, <1>3, GhostsKept

\* What a logout or a wipe leaves in the stores was there, and it leaves none of those
\* that it ends in its own store.
LEMMA RemovedIs ==
  ASSUME Inv, NEW o \in ops, Revoke(o)
  PROVE  /\ InRows' \subseteq InRows
         /\ ToSet(list') \subseteq ToSet(list)
            \/ (WritesBack(o) /\ ToSet(list') \subseteq ToSet(o.read))
         /\ o.store = "redis" =>
              rows' = rows
              /\ \A j \in Ended(o) : j \notin ToSet(list') \/ (Absent(o) /\ j \in ToSet(list))
         /\ o.store # "redis" => list' = list /\ \A j \in Ended(o) : j \notin InRows'
<1>1. Types
  BY DEF Inv
<1>2. o.store \in Stores /\ o.read \in Seq(Nat)
  BY <1>1, Typed
<1>3. ToSet(<<>>) = {}
  BY DEF ToSet
<1>4. CASE o.store = "postgres"
  <2>1. rows' = {r \in rows : o.kind \in {"logout", "logout again"} /\ r.jti # o.jti}
        /\ list' = list
    BY <1>4 DEF Revoke, Removed
  <2>2. InRows' \subseteq InRows
    BY <2>1 DEF InRows
  <2>3. \A j \in Ended(o) : j \notin InRows'
    BY <2>1 DEF InRows, Ended
  <2> QED BY <1>4, <2>1, <2>2, <2>3
<1>5. CASE o.store = "redis"
  <2>1. /\ o.kind \in {"logout", "logout again"} => o.pc = "read"
        /\ list' = IF Absent(o) THEN list
                   ELSE IF o.pc = "read" THEN Without(o.read, o.jti) ELSE <<>>
        /\ rows' = rows
    BY <1>5 DEF Revoke, Removed
  <2>2. ToSet(Without(o.read, o.jti)) \subseteq ToSet(o.read) \ {o.jti}
    BY <1>2, WithoutIs
  <2>3. InRows' = InRows
    BY <2>1 DEF InRows
  <2>4. CASE o.pc = "read"
    <3>1. o.kind \notin {"wipe", "wipe again"}
      BY <1>1, <2>4 DEF Types, Changes
    <3>2. Ended(o) \subseteq {o.jti}
      BY <3>1 DEF Ended
    <3>3. CASE Absent(o)
      BY <1>5, <2>1, <2>3, <3>3
    <3>4. CASE ~Absent(o)
      BY <1>5, <2>1, <2>2, <2>3, <2>4, <3>2, <3>4 DEF WritesBack
    <3> QED BY <3>3, <3>4
  <2>5. CASE o.pc # "read"
    BY <1>3, <1>5, <2>1, <2>3, <2>5 DEF Absent
  <2> QED BY <2>4, <2>5
<1> QED BY <1>2, <1>4, <1>5 DEF Stores

LEMMA RevokeGhosts ==
  ASSUME Inv, NEW o \in ops, Revoke(o)
  PROVE  Ghosts'
<1>1. Types /\ Issued /\ Ghosts
  BY DEF Inv
<1>2. /\ ops' = (ops \ {o}) \cup Again(o) /\ revoked' = revoked \cup Ended(o)
      /\ raced' = raced \cup {j \in Ended(o) : MayReturn(j, o)}
      /\ o.kind \in Ends
  BY DEF Revoke
<1>3. o.kind \notin Registers
  BY <1>2 DEF Ends, Registers
<1>4. ASSUME NEW j \in revoked \ raced
      PROVE  Dead(j)'
  <2>1. Dead(j)
    BY <1>1, <1>4 DEF Ghosts
  <2>2. \A p \in ops' : /\ p.kind \in Registers => p.jti # j
                        /\ WritesBack(p) => j \notin ToSet(p.read)
    BY <1>1, <1>2, <1>3, <2>1, DeadFacts, AgainStaysDead
  <2>3. j \notin InRows' /\ j \notin ToSet(list')
    BY <2>1, RemovedIs, DeadFacts
  <2> QED BY <2>2, <2>3 DEF Dead, WritesBack
<1>5. ASSUME NEW j \in Ended(o), ~MayReturn(j, o)
      PROVE  Dead(j)'
  <2>1. j \in issued
    BY <1>1 DEF Issued, Ended
  <2>2. \A p \in ops \ {o} : /\ WritesBack(p) => j \notin ToSet(p.read)
                             /\ ~(p.kind = "again" /\ p.jti = j)
    BY <1>5 DEF MayReturn
  <2>3. \A p \in ops' : /\ p.kind \in Registers => p.jti # j
                        /\ WritesBack(p) => j \notin ToSet(p.read)
    <3> SUFFICES ASSUME NEW p \in ops'
                 PROVE  /\ p.kind \in Registers => p.jti # j
                        /\ WritesBack(p) => j \notin ToSet(p.read)
      OBVIOUS
    <3>1. CASE p \in ops \ {o}
      <4>1. p.kind = "login" => p.jti # j
        BY <1>1, <2>1, <3>1 DEF Issued
      <4> QED BY <2>2, <3>1, <4>1 DEF Registers
    <3>2. CASE p \in Again(o)
      BY <1>1, <1>3, <3>2, AgainStaysDead
    <3> QED BY <1>2, <3>1, <3>2
  <2>4. j \notin InRows' /\ j \notin ToSet(list')
    <3>1. CASE o.store = "redis"
      <4>1. j \notin InRows
        BY <1>5, <3>1 DEF MayReturn
      <4>2. j \notin ToSet(list')
        BY <1>5, <3>1, RemovedIs DEF MayReturn
      <4>3. InRows' = InRows
        BY <3>1, RemovedIs DEF InRows
      <4> QED BY <4>1, <4>2, <4>3
    <3>2. CASE o.store # "redis"
      <4>1. j \notin ToSet(list)
        BY <1>5, <3>2 DEF MayReturn
      <4> QED BY <3>2, <4>1, RemovedIs
    <3> QED BY <3>1, <3>2
  <2> QED BY <2>3, <2>4 DEF Dead, WritesBack
<1>6. \A j \in revoked' \ raced' :
        j \in revoked \ raced \/ (j \in Ended(o) /\ ~MayReturn(j, o))
  BY <1>2
<1> QED BY <1>4, <1>5, <1>6 DEF Ghosts

LEMMA SwitchGhosts ==
  ASSUME Inv,
         (\E w \in Workers : Migrate(w) \/ Restart(w) \/ Start(w)) \/ Switch \/ Done
  PROVE  Ghosts'
<1>1. Types /\ Issued /\ Ghosts
  BY DEF Inv
<1>2. rows' = rows /\ list' = list /\ revoked' = revoked /\ raced' = raced
  BY DEF Migrate, Restart, Start, Switch, Done, vars
<1>3. ASSUME NEW w \in Workers, Migrate(w)
      PROVE  Ghosts'
  <2> DEFINE kind == IF perf THEN "to redis" ELSE "to postgres"
             to == IF perf THEN "redis" ELSE "postgres"
  <2>1. PICK read \in IF perf THEN Sorted ELSE {list} :
          ops' = ops \cup {[Op(w, kind, 0, to) EXCEPT !.pc = "read", !.read = read]}
    BY <1>3 DEF Migrate
  <2>2. read \in Seq(Nat) /\ (ToSet(read) \subseteq InRows \/ read = list)
    BY <1>1, SortedIs DEF Types
  <2>3. kind \in Moves /\ to \in Stores
    BY DEF Moves, Stores
  <2> HIDE DEF kind, to
  <2> DEFINE p == [Op(w, kind, 0, to) EXCEPT !.pc = "read", !.read = read]
  <2>4. p.kind = kind /\ p.read = read
    BY DEF Op
  <2>5. p.kind \notin Registers
    BY <2>3, <2>4 DEF Moves, Registers
  <2>6. ops' = ops \cup {p}
    BY <2>1
  <2> HIDE DEF p
  <2>7. ASSUME NEW j \in issued, Dead(j)
        PROVE  Dead(j)'
    <3>1. j \notin ToSet(p.read)
      BY <2>2, <2>4, <2>7 DEF Dead
    <3> QED BY <1>2, <2>5, <2>6, <2>7, <3>1, StaysDead
  <2> QED BY <1>1, <1>2, <2>7, GhostsKept
<1>4. CASE (\E w \in Workers : Restart(w) \/ Start(w)) \/ Switch \/ Done
  <2>1. ops' \subseteq ops
    BY <1>4 DEF Restart, Start, Switch, Done, vars
  <2> QED BY <1>1, <1>2, <2>1, GhostsKept, StaysDead
<1> QED BY <1>3, <1>4

LEMMA MoveGhosts ==
  ASSUME Inv, NEW o \in ops, Move(o)
  PROVE  Ghosts'
<1>1. Types /\ Issued /\ Ghosts
  BY DEF Inv
<1>2. ops' = ops \ {o} /\ revoked' = revoked /\ raced' = raced
  BY DEF Move
<1>3. WritesBack(o)
  BY <1>1 DEF Move, Types, Changes, WritesBack
<1>4. ASSUME NEW j \in issued, Dead(j)
      PROVE  Dead(j)'
  <2>1. j \notin ToSet(o.read) /\ j \notin InRows /\ j \notin ToSet(list)
    BY <1>3, <1>4, DeadFacts
  <2>2. CASE o.store = "redis"
    BY <1>2, <1>4, <2>1, <2>2 DEF Move, MoveToRedis, Dead, InRows, WritesBack
  <2>3. CASE o.store # "redis"
    <3>1. \/ rows' = rows \cup [jti : ToSet(o.read) \ InRows, at : {Time}]
          \/ rows' = rows
      BY <2>3 DEF Move, MoveToPostgres
    <3>2. j \notin InRows' /\ list' = list
      BY <2>1, <2>3, <3>1 DEF Move, MoveToPostgres, InRows
    <3> QED BY <1>2, <1>4, <2>1, <3>2 DEF Dead, WritesBack
  <2> QED BY <2>2, <2>3
<1> QED BY <1>1, <1>2, <1>4, GhostsKept

LEMMA NextInv == Inv /\ [Next]_vars => Inv'
<1> SUFFICES ASSUME Inv, [Next]_vars PROVE Inv'
  OBVIOUS
<1>1. Types' /\ Issued'
  BY StepTypes, StepIssued
<1>2. Ghosts'
  <2>1. CASE UNCHANGED vars
    BY <2>1 DEF Inv, Ghosts, Dead, InRows, WritesBack, vars
  <2> QED
    BY <2>1, RequestsGhosts, ReadGhosts, RegisterGhosts, RevokeGhosts,
       SwitchGhosts, MoveGhosts DEF Next
<1> QED BY <1>1, <1>2 DEF Inv

LEMMA InvHolds == Spec => []Inv
BY InitInv, NextInv, PTL DEF Spec

\* A session that was ended stays ended on every worker, whatever switches, faults and
\* restarts follow, unless it could come back at once.
THEOREM NoSessionReturns == Spec => []RevokedStaysDead
<1>1. Inv => RevokedStaysDead
  BY DEF Inv, Ghosts, Dead, RevokedStaysDead, Active
<1> QED BY <1>1, InvHolds, PTL

-----------------------------------------------------------------------------
(* The quota.                                                              *)

\* What a registration in PostgreSQL leaves in the table and inserts.
Left(o) == {r \in rows : r.jti \notin ToSet(o.read)} \cup {[jti |-> o.jti, at |-> o.at]}

\* A session has one row.
OneRow == \A r, s \in rows : r.jti = s.jti => r = s

Alone == seen \cap {"overlap", "merge"} = {}

\* Both stores are within the quota, and so is what the only change that has read writes.
Within ==
  Alone =>
    /\ \A o, p \in Reading : o = p
    /\ Cardinality(rows) <= MaxSessions /\ Len(list) <= MaxSessions
    /\ \A o \in Reading :
         /\ WritesBack(o) => Len(o.read) <= MaxSessions
         /\ ~WritesBack(o) => Cardinality(Left(o)) <= MaxSessions

QuotaInv == OneRow /\ Within

\* The new session is among the newest: at least one session is allowed.
LEMMA NewestHasOwn ==
  ASSUME Types, NEW o \in ops, NEW all, NEW own,
         own = [jti |-> o.jti, at |-> Time], all = rows \cup {own},
         NEW keep \in Newest(all)
  PROVE  own \in keep /\ keep \subseteq all /\ Cardinality(keep) <= MaxSessions
<1>1. /\ keep \subseteq all /\ Cardinality(keep) = MaxSessions
      /\ \A k \in keep, r \in all \ keep : k.at >= r.at
  BY DEF Newest
<1>2. MaxSessions \in Nat \ {0}
  BY SessionsAssumption
<1>3. ASSUME own \notin keep PROVE FALSE
  <2>1. \A k \in keep : k \in rows /\ k.at >= Time
    BY <1>1, <1>3
  <2>2. \A r \in rows : r.at \in Nat /\ r.at < Time /\ Time \in Nat
    BY TimeIs DEF Types, Rows
  <2>3. keep = {}
    <3> SUFFICES ASSUME NEW k \in keep PROVE FALSE
      OBVIOUS
    <3>1. k.at >= Time /\ k.at < Time /\ k.at \in Nat /\ Time \in Nat
      BY <2>1, <2>2
    <3> HIDE DEF Time
    <3> QED BY <3>1
  <2>4. Cardinality(keep) = 0
    BY <2>3, FS_EmptySet
  <2> QED BY <1>1, <1>2, <2>4
<1> QED BY <1>1, <1>2, <1>3

\* The transaction of a registration leaves no more than the quota.
LEMMA RegisterReads ==
  ASSUME Types, NEW o \in ops, RegisterPostgres(o)
  PROVE  \E p : /\ ops' = (ops \ {o}) \cup {p}
                /\ p.kind = o.kind /\ p.store = o.store /\ p.pc = "read"
                /\ Cardinality(Left(p)) <= MaxSessions
<1> DEFINE own == [jti |-> o.jti, at |-> Time]
           all == rows \cup {own}
<1>1. PICK keep \in IF Cardinality(all) > MaxSessions THEN Newest(all) ELSE {all} :
        ops' = (ops \ {o}) \cup
               {[o EXCEPT !.pc = "read", !.at = Time,
                          !.read = SetToSeq({r.jti : r \in all \ keep})]}
  BY DEF RegisterPostgres
<1> DEFINE S == {r.jti : r \in all \ keep}
           p == [o EXCEPT !.pc = "read", !.at = Time, !.read = SetToSeq(S)]
<1>2. ToSet(SetToSeq(S)) = S
  BY ExcessIs
<1>3. /\ p.kind = o.kind /\ p.store = o.store /\ p.pc = "read" /\ p.jti = o.jti
      /\ p.at = Time /\ p.read = SetToSeq(S)
  <2>1. o \in OpType
    BY Typed
  <2> HIDE DEF S
  <2> QED BY <2>1 DEF OpType
<1>4. IsFiniteSet(all)
  BY FS_AddElement DEF Types, Rows
<1>5. own \in keep /\ keep \subseteq all /\ Cardinality(keep) <= MaxSessions
  <2>1. CASE Cardinality(all) > MaxSessions
    <3>1. keep \in Newest(all)
      BY <1>1, <2>1
    <3> HIDE DEF all, own
    <3>2. own = [jti |-> o.jti, at |-> Time] /\ all = rows \cup {own}
      BY DEF all, own
    <3> QED BY <3>1, <3>2, NewestHasOwn
  <2>2. CASE ~(Cardinality(all) > MaxSessions)
    <3>1. keep = all
      BY <1>1, <2>2
    <3>2. Cardinality(all) \in Nat /\ MaxSessions \in Nat
      BY <1>4, FS_CardinalityType, SessionsAssumption
    <3>3. own \in all
      OBVIOUS
    <3> HIDE DEF all, own
    <3> QED BY <2>2, <3>1, <3>2, <3>3
  <2> QED BY <2>1, <2>2
<1>6. Left(p) \subseteq keep
  <2>1. Left(p) = {r \in rows : r.jti \notin S} \cup {own}
    <3> HIDE DEF p, S
    <3> QED BY <1>2, <1>3 DEF Left
  <2> HIDE DEF p
  <2> QED BY <1>5, <2>1
<1>7. IsFiniteSet(keep)
  <2>1. keep \in SUBSET all
    BY <1>5
  <2> HIDE DEF all
  <2> QED BY <1>4, <2>1, FS_Subset
<1> HIDE DEF p, all, own
<1>8. Cardinality(Left(p)) <= MaxSessions
  <2>1. Cardinality(Left(p)) <= Cardinality(keep) /\ IsFiniteSet(Left(p))
    BY <1>6, <1>7, FS_Subset
  <2>2. Cardinality(Left(p)) \in Nat /\ Cardinality(keep) \in Nat /\ MaxSessions \in Nat
    BY <1>7, <2>1, FS_CardinalityType, SessionsAssumption
  <2> QED BY <1>5, <2>1, <2>2
<1>9. ops' = (ops \ {o}) \cup {p}
  BY <1>1 DEF p, all, own
<1> QED BY <1>3, <1>8, <1>9

\* A step in which the stores stay, and no change reads.
LEMMA WithinKept ==
  ASSUME Within, seen \subseteq seen', rows' = rows, list' = list, Reading' \subseteq Reading
  PROVE  Within'
BY DEF Within, Alone, Left, WritesBack

\* A step in which a change reads alone.
LEMMA WithinRead ==
  ASSUME Within, seen \subseteq seen', rows' = rows, list' = list, NEW p,
         Alone' => Reading' \subseteq {p}, 
         Alone => /\ WritesBack(p) => Len(p.read) <= MaxSessions
                  /\ ~WritesBack(p) => Cardinality(Left(p)) <= MaxSessions
  PROVE  Within'
<1>1. Alone' => Alone
  BY DEF Alone
<1>2. \A o \in Reading' : Alone' => o = p
  OBVIOUS
<1> QED BY <1>1, <1>2 DEF Within, Left, WritesBack

\* A step after which no change has read.
LEMMA WithinWritten ==
  ASSUME Alone' => /\ Reading' = {} /\ Cardinality(rows') <= MaxSessions
                   /\ Len(list') <= MaxSessions
  PROVE  Within'
BY DEF Within

LEMMA AgainReads ==
  ASSUME Types, NEW o \in ops
  PROVE  ops' = (ops \ {o}) \cup Again(o) \/ ops' = ops \ {o} => Reading' = Reading \ {o}
<1>1. \A p \in Again(o) : p.pc = "new"
  BY AgainIs
<1> QED BY <1>1 DEF Reading

\* An overlap is noticed.
LEMMA NoOverlap ==
  ASSUME NEW o, seen' = Overlap(o), Alone'
  PROVE  Reading \subseteq {o}
BY DEF Overlap, Alone

LEMMA ReadWithin ==
  ASSUME Inv, Within, NEW o \in ops, Read(o)
  PROVE  Within'
<1>1. Types
  BY DEF Inv
<1>2. seen' = Overlap(o) /\ rows' = rows /\ list' = list /\ o.pc = "new"
  BY DEF Read
<1>3. seen \subseteq seen' /\ o \notin Reading
  BY <1>2 DEF Overlap, Reading
<1>4. Alone' => Reading = {}
  BY <1>2, <1>3, NoOverlap
<1>5. PICK p : /\ ops' = (ops \ {o}) \cup {p}
               /\ Alone => /\ WritesBack(p) => Len(p.read) <= MaxSessions
                           /\ ~WritesBack(p) => Cardinality(Left(p)) <= MaxSessions
  <2>1. CASE o.kind \in Registers /\ o.store = "postgres" /\ RegisterPostgres(o)
    <3>1. PICK p : /\ ops' = (ops \ {o}) \cup {p}
                   /\ p.kind = o.kind /\ p.store = o.store /\ p.pc = "read"
                   /\ Cardinality(Left(p)) <= MaxSessions
      BY <1>1, <2>1, RegisterReads
    <3>2. ~WritesBack(p)
      BY <2>1, <3>1 DEF WritesBack, Registers, Moves
    <3> QED BY <3>1, <3>2
  <2>2. CASE /\ o.store = "redis" /\ o.kind \in Registers \cup {"logout", "logout again"}
             /\ ops' = (ops \ {o}) \cup {[o EXCEPT !.pc = "read", !.read = list]}
    <3> DEFINE p == [o EXCEPT !.pc = "read", !.read = list]
    <3>1. p.read = list /\ p.store = "redis" /\ p.pc = "read"
      <4>1. o \in OpType
        BY <1>1, Typed
      <4> QED BY <2>2, <4>1 DEF OpType
    <3>2. ops' = (ops \ {o}) \cup {p}
      BY <2>2
    <3> HIDE DEF p
    <3>3. WritesBack(p) /\ (Alone => Len(p.read) <= MaxSessions)
      BY <3>1 DEF WritesBack, Within
    <3> QED BY <3>2, <3>3
  <2> QED BY <2>1, <2>2 DEF Read
<1>6. Alone' => Reading' \subseteq {p}
  BY <1>4, <1>5 DEF Reading
<1> QED BY <1>2, <1>3, <1>5, <1>6, WithinRead

LEMMA RegisterWithin ==
  ASSUME Inv, Within, NEW o \in ops, Register(o)
  PROVE  Within'
<1>1. Types
  BY DEF Inv
<1>2. o \in Reading /\ seen' = seen /\ o.kind \in Registers
  BY DEF Register, Reading
<1> SUFFICES ASSUME Alone'
             PROVE  Reading' = {} /\ Cardinality(rows') <= MaxSessions /\ Len(list') <= MaxSessions
  BY WithinWritten
<1>3. Alone
  BY <1>2 DEF Alone
<1>4. Reading' = {}
  <2>1. Reading \ {o} = {}
    BY <1>2, <1>3 DEF Within
  <2>2. ops' = (ops \ {o}) \cup Again(o)
    BY DEF Register
  <2> QED BY <1>1, <2>1, <2>2, AgainReads
<1>5. CASE o.store = "redis"
  <2>1. Len(Appended(o)) <= MaxSessions
    BY <1>1, Typed, AppendedIs
  <2> QED BY <1>3, <1>4, <1>5, <2>1 DEF Register, Within
<1>6. CASE o.store # "redis"
  <2>1. ~WritesBack(o)
    BY <1>2, <1>6 DEF WritesBack, Registers, Moves
  <2>2. rows' \in {rows, Left(o)} /\ list' = list
    BY <1>6 DEF Register, Inserted, Left
  <2> QED BY <1>2, <1>3, <1>4, <2>1, <2>2 DEF Within
<1> QED BY <1>5, <1>6

LEMMA RevokeWithin ==
  ASSUME Inv, Within, NEW o \in ops, Revoke(o)
  PROVE  Within'
<1>1. Types
  BY DEF Inv
<1>2. seen' = Overlap(o)
  BY DEF Revoke
<1> SUFFICES ASSUME Alone'
             PROVE  Reading' = {} /\ Cardinality(rows') <= MaxSessions /\ Len(list') <= MaxSessions
  BY WithinWritten
<1>3. Alone /\ Reading \subseteq {o}
  <2>1. seen \subseteq seen'
    BY <1>2 DEF Overlap
  <2> QED BY <1>2, <2>1, NoOverlap DEF Alone
<1>4. Reading' = {}
  <2>1. ops' = (ops \ {o}) \cup Again(o)
    BY DEF Revoke
  <2> QED BY <1>1, <1>3, <2>1, AgainReads
<1>5. MaxSessions \in Nat
  BY SessionsAssumption
<1>6. Cardinality(rows') <= MaxSessions
  <2>1. rows' \in SUBSET rows /\ IsFiniteSet(rows)
    BY <1>1 DEF Revoke, Removed, Types, Rows
  <2>2. Cardinality(rows') <= Cardinality(rows) /\ IsFiniteSet(rows')
    BY <2>1, FS_Subset
  <2>3. Cardinality(rows') \in Nat /\ Cardinality(rows) \in Nat
    BY <2>1, <2>2, FS_CardinalityType
  <2>4. Cardinality(rows) <= MaxSessions
    BY <1>3 DEF Within
  <2> QED BY <1>5, <2>2, <2>3, <2>4
<1>7. Len(list') <= MaxSessions
  <2>1. CASE o.store = "redis" /\ o.pc = "read"
    <3>1. o \in Reading /\ WritesBack(o)
      BY <2>1 DEF Reading, WritesBack
    <3>2. Len(o.read) <= MaxSessions
      BY <1>3, <3>1 DEF Within
    <3>3. Without(o.read, o.jti) \in Seq(Nat) /\ o.read \in Seq(Nat)
          /\ Len(Without(o.read, o.jti)) <= Len(o.read)
      BY <1>1, Typed, WithoutIs
    <3>4. CASE ~Absent(o)
      <4>1. list' = Without(o.read, o.jti)
        BY <2>1, <3>4 DEF Revoke, Removed
      <4>2. Len(list') \in Nat /\ Len(o.read) \in Nat /\ Len(list') <= Len(o.read)
        BY <3>3, <4>1
      <4> QED BY <1>5, <3>2, <4>2
    <3>5. CASE Absent(o)
      <4>1. list' = list
        BY <2>1, <3>5 DEF Revoke, Removed
      <4> QED BY <1>3, <4>1 DEF Within
    <3> QED BY <3>4, <3>5
  <2>2. CASE ~(o.store = "redis" /\ o.pc = "read")
    <3>1. list' = list \/ list' = <<>>
      BY <1>1, <2>2, Typed DEF Revoke, Removed, Stores
    <3>2. Len(list) <= MaxSessions /\ Len(<<>>) = 0
      BY <1>3 DEF Within
    <3> QED BY <1>5, <3>1, <3>2
  <2> QED BY <2>1, <2>2
<1> QED BY <1>4, <1>6, <1>7

LEMMA MigrateWithin ==
  ASSUME Inv, Within, NEW w \in Workers, Migrate(w)
  PROVE  Within'
<1>1. Types
  BY DEF Inv
<1>2. seen' = Overlap([pc |-> "none"]) /\ rows' = rows /\ list' = list
  BY DEF Migrate
<1>3. seen \subseteq seen'
  BY <1>2 DEF Overlap
<1>4. Alone' => Reading = {}
  <2>1. [pc |-> "none"] \notin Reading
    BY DEF Reading
  <2> QED BY <1>2, <2>1, NoOverlap
<1> DEFINE kind == IF perf THEN "to redis" ELSE "to postgres"
           to == IF perf THEN "redis" ELSE "postgres"
<1>5. PICK read \in IF perf THEN Sorted ELSE {list} :
        ops' = ops \cup {[Op(w, kind, 0, to) EXCEPT !.pc = "read", !.read = read]}
  BY DEF Migrate
<1>6. Alone => Len(read) <= MaxSessions
  BY <1>1, SortedIs DEF Within
<1>7. kind \in Moves
  BY DEF Moves
<1> HIDE DEF kind, to
<1> DEFINE p == [Op(w, kind, 0, to) EXCEPT !.pc = "read", !.read = read]
<1>8. p.kind = kind /\ p.read = read /\ p.pc = "read"
  BY DEF Op
<1>9. ops' = ops \cup {p}
  BY <1>5
<1> HIDE DEF p
<1>10. WritesBack(p) /\ (Alone => Len(p.read) <= MaxSessions)
  BY <1>6, <1>7, <1>8 DEF WritesBack
<1>11. Alone' => Reading' \subseteq {p}
  BY <1>4, <1>9 DEF Reading
<1> QED BY <1>2, <1>3, <1>10, <1>11, WithinRead

LEMMA StepOneRow ==
  ASSUME Inv, OneRow, [Next]_vars
  PROVE  OneRow'
<1>1. CASE rows' \subseteq rows
  BY <1>1 DEF OneRow
<1>2. ASSUME NEW o \in ops, Register(o)
      PROVE  OneRow'
  <2>1. rows' \subseteq rows
        \/ (o.jti \notin InRows /\ rows' \subseteq rows \cup {[jti |-> o.jti, at |-> o.at]})
    BY <1>2 DEF Register, Inserted
  <2> QED BY <2>1 DEF OneRow, InRows
<1>3. ASSUME NEW o \in ops, Move(o)
      PROVE  OneRow'
  <2>1. rows' = rows \/ rows' = rows \cup [jti : ToSet(o.read) \ InRows, at : {Time}]
    BY <1>3 DEF Move, MoveToRedis, MoveToPostgres
  <2>2. \A r \in rows : r.jti \in InRows
    BY DEF InRows
  <2> HIDE DEF InRows
  <2> QED BY <2>1, <2>2 DEF OneRow
<1>4. ASSUME NEW o \in ops, Revoke(o)
      PROVE  rows' \subseteq rows
  BY <1>4 DEF Revoke, Removed
<1>5. CASE rows' = rows
  BY <1>5 DEF OneRow
<1> QED
  BY <1>1, <1>2, <1>3, <1>4, <1>5
     DEF Next, vars, Login, Migrate, Restart, Start, End, Read, Registered, Fails, Switch, Done

\* A migration to PostgreSQL that finds no other rows there inserts no more than it read.
LEMMA MoveWithin ==
  ASSUME Inv, OneRow, OneRow', Types', Within, NEW o \in ops, Move(o)
  PROVE  Within'
<1>1. Types
  BY DEF Inv
<1>2. o \in Reading /\ WritesBack(o) /\ seen \subseteq seen'
  BY <1>1 DEF Move, MoveToRedis, MoveToPostgres, Types, Changes, Reading, WritesBack
<1> SUFFICES ASSUME Alone'
             PROVE  Reading' = {} /\ Cardinality(rows') <= MaxSessions /\ Len(list') <= MaxSessions
  BY WithinWritten
<1>3. Alone
  BY <1>2 DEF Alone
<1>4. Reading' = {}
  <2>1. Reading \ {o} = {}
    BY <1>2, <1>3 DEF Within
  <2> QED BY <1>1, <2>1, AgainReads DEF Move
<1>5. Len(o.read) <= MaxSessions /\ Cardinality(rows) <= MaxSessions /\ Len(list) <= MaxSessions
  BY <1>2, <1>3 DEF Within
<1>6. CASE o.store = "redis"
  BY <1>4, <1>5, <1>6 DEF Move, MoveToRedis
<1>7. CASE o.store # "redis"
  <2> DEFINE S == ToSet(o.read)
  <2>1. InRows \subseteq S
    BY <1>7 DEF Move, MoveToPostgres, Alone
  <2>2. list' = list /\ \A r \in rows' : r.jti \in S
    <3>1. rows' = rows \/ rows' = rows \cup [jti : S \ InRows, at : {Time}]
      BY <1>7 DEF Move, MoveToPostgres
    <3>2. \A r \in rows : r.jti \in S
      BY <2>1 DEF InRows
    <3> HIDE DEF S
    <3>3. \A r \in rows' : r.jti \in S
      BY <3>1, <3>2
    <3> QED BY <1>7, <3>3 DEF Move, MoveToPostgres
  <2>3. IsFiniteSet(S) /\ Cardinality(S) <= Len(o.read) /\ Len(o.read) \in Nat
    BY <1>1, Typed, ToSetIs
  <2> HIDE DEF S
  <2> DEFINE f == [r \in rows' |-> r.jti]
  <2>4. f \in Injection(rows', S)
    BY <2>2 DEF Injection, IsInjective, OneRow
  <2>5. Cardinality(rows') <= Cardinality(S)
    <3> HIDE DEF f
    <3> QED BY <2>3, <2>4, FS_Injection
  <2>6. Cardinality(rows') \in Nat /\ Cardinality(S) \in Nat /\ MaxSessions \in Nat
    BY <2>3, FS_CardinalityType, SessionsAssumption DEF Types, Rows
  <2>7. Cardinality(rows') <= MaxSessions
    BY <1>5, <2>3, <2>5, <2>6
  <2> QED BY <1>4, <1>5, <2>2, <2>7
<1> QED BY <1>6, <1>7

LEMMA InitQuota == Init => QuotaInv
<1>1. Cardinality({}) = 0 /\ Len(<<>>) = 0 /\ MaxSessions \in Nat
  BY FS_EmptySet, SessionsAssumption
<1> QED BY <1>1 DEF Init, QuotaInv, OneRow, Within, Reading

LEMMA NextQuota == Inv /\ QuotaInv /\ Inv' /\ [Next]_vars => QuotaInv'
<1> SUFFICES ASSUME Inv, QuotaInv, Inv', [Next]_vars PROVE QuotaInv'
  OBVIOUS
<1>1. OneRow /\ Within /\ OneRow' /\ Types /\ Types'
  BY StepOneRow DEF QuotaInv, Inv
<1>2. ASSUME UNCHANGED vars PROVE Within'
  <2>1. seen' = seen /\ rows' = rows /\ list' = list /\ Reading' = Reading
    BY <1>2 DEF vars, Reading
  <2> QED BY <1>1, <2>1, WithinKept
<1>3. ASSUME NEW w \in Workers, Login(w) \/ Restart(w) \/ Start(w)
      PROVE  Within'
  <2>1. seen \subseteq seen' /\ rows' = rows /\ list' = list
    BY <1>3 DEF Login, Restart, Start, Crowd, Upset
  <2>2. Reading' \subseteq Reading
    BY <1>3 DEF Reading, Login, Restart, Start, Op
  <2> QED BY <1>1, <2>1, <2>2, WithinKept
<1>4. ASSUME NEW w \in Workers, NEW j \in Jtis, NEW kind \in {"logout", "wipe"}, End(w, kind, j)
      PROVE  Within'
  <2>1. seen \subseteq seen' /\ rows' = rows /\ list' = list
    BY <1>4 DEF End, Crowd
  <2>2. Reading' \subseteq Reading
    BY <1>4 DEF Reading, End, Op
  <2> QED BY <1>1, <2>1, <2>2, WithinKept
<1>5. ASSUME NEW o \in ops, Registered(o) \/ Fails(o)
      PROVE  Within'
  <2>1. seen \subseteq seen' /\ rows' = rows /\ list' = list
    BY <1>5 DEF Registered, Fails, Upset
  <2>2. ops' = (ops \ {o}) \cup Again(o) \/ ops' = ops \ {o}
    BY <1>5 DEF Registered, Fails
  <2>3. Reading' \subseteq Reading
    BY <1>1, <2>2, AgainReads
  <2> QED BY <1>1, <2>1, <2>3, WithinKept
<1>6. ASSUME Switch \/ Done PROVE Within'
  <2>1. seen \subseteq seen' /\ rows' = rows /\ list' = list /\ ops' = ops
    BY <1>6 DEF Switch, Done, Upset, vars
  <2>2. Reading' = Reading
    BY <2>1 DEF Reading
  <2> QED BY <1>1, <2>1, <2>2, WithinKept
<1>7. Within'
  BY <1>1, <1>2, <1>3, <1>4, <1>5, <1>6, ReadWithin, RegisterWithin, RevokeWithin,
     MigrateWithin, MoveWithin DEF Next
<1> QED BY <1>1, <1>7 DEF QuotaInv

LEMMA QuotaInvHolds == Spec => [](Inv /\ QuotaInv)
<1>1. Inv /\ QuotaInv /\ [Next]_vars => (Inv /\ QuotaInv)'
  BY NextInv, NextQuota
<1> QED BY <1>1, InitInv, InitQuota, PTL DEF Spec

\* No worker lets a user have more sessions than allowed, unless two changes overlapped or
\* a migration to PostgreSQL added to rows that were still there.
THEOREM QuotaHolds == Spec => []Quota
<1>1. ASSUME Inv, QuotaInv PROVE Quota
  <2> SUFFICES ASSUME Alone, NEW w \in Workers
               PROVE  Cardinality(Active(w)) <= MaxSessions
    BY DEF Quota, Alone
  <2>1. Types /\ Cardinality(rows) <= MaxSessions /\ Len(list) <= MaxSessions
        /\ MaxSessions \in Nat
    BY <1>1, SessionsAssumption DEF Inv, QuotaInv, Within
  <2>2. CASE mode[w] = "redis"
    <3>1. Active(w) = ToSet(list)
      BY <2>2 DEF Active
    <3>2. IsFiniteSet(ToSet(list)) /\ Cardinality(ToSet(list)) <= Len(list) /\ Len(list) \in Nat
      BY <2>1, ToSetIs DEF Types
    <3>3. Cardinality(ToSet(list)) \in Nat
      BY <3>2, FS_CardinalityType
    <3> QED BY <2>1, <3>1, <3>2, <3>3
  <2>3. CASE mode[w] = "postgres"
    <3>1. Active(w) = InRows
      BY <2>3 DEF Active
    <3> DEFINE f == [r \in rows |-> r.jti]
    <3>2. f \in Surjection(rows, InRows) /\ IsFiniteSet(rows)
      BY <2>1 DEF Surjection, InRows, Types, Rows
    <3> HIDE DEF f
    <3>3. IsFiniteSet(InRows) /\ Cardinality(InRows) <= Cardinality(rows)
      BY <3>2, FS_Surjection
    <3>4. Cardinality(InRows) \in Nat /\ Cardinality(rows) \in Nat
      BY <3>2, <3>3, FS_CardinalityType
    <3> QED BY <2>1, <3>1, <3>3, <3>4
  <2>4. CASE mode[w] \notin {"redis", "postgres"}
    <3>1. Active(w) = {} /\ Cardinality({}) = 0
      BY <2>4, FS_EmptySet DEF Active
    <3> QED BY <2>1, <3>1
  <2> QED BY <2>2, <2>3, <2>4
<1> QED BY <1>1, QuotaInvHolds, PTL

-----------------------------------------------------------------------------
(* The newest session.                                                     *)

\* Nothing happened that excuses the loss of a session.
Calm == seen \cap {"overlap", "crowd", "error", "restart"} = {}

\* What a change carries while all is calm: a migration reads all that is in the old
\* store, a change in Redis reads the whole list; the login under way is the last one,
\* what is registered again is the newest session, and what is ended again has ended.
Fits(o) ==
  /\ o.kind = "to redis" => o.store = "redis"
  /\ o.kind = "to postgres" => o.store = "postgres"
  /\ WritesBack(o) => ToSet(o.read) = IF o.kind = "to redis" THEN InRows ELSE ToSet(list)
  /\ o.kind = "login" => o.jti = logins
  /\ o.kind = "again" => o.jti \in issued /\ \A i \in issued : i <= o.jti
  /\ o.kind = "logout again" => o.jti \in revoked
  /\ o.kind = "wipe again" => issued \subseteq revoked

\* Every worker serves requests, one request is under way, and one change has read.
Orderly ==
  /\ \A w \in Workers : mode[w] # "down"
  /\ \A o, p \in ops : o.kind \notin Moves /\ p.kind \notin Moves => o = p
  /\ \A o, p \in Reading : o = p
  /\ \A o \in ops : Fits(o)

\* Session n is in a store, and what brings it to the other one is still to come: a
\* worker that has not switched, or the registration in the background.
Held(n) ==
  /\ n \in InRows \/ n \in ToSet(list)
  /\ n \notin InRows =>
       \/ \E w \in Workers : mode[w] = "redis"
       \/ \E o \in ops : o.kind = "again" /\ o.store = "postgres"
  /\ n \notin ToSet(list) =>
       \/ \E w \in Workers : mode[w] = "postgres"
       \/ \E o \in ops : o.kind = "again" /\ o.store = "redis"

NewestHeld ==
  \A n \in issued \ (revoked \cup stomped) : (\A i \in issued : i <= n) => Held(n)

NewestInv == Calm => Orderly /\ NewestHeld

LEMMA InitNewest == Init => NewestInv
BY DEF Init, NewestInv, Orderly, NewestHeld, Reading

\* A calm step begins calmly: no request overlaps another one, and nothing else has read.
LEMMA CalmSteps ==
  ASSUME Calm'
  PROVE  /\ seen \subseteq seen' => Calm
         /\ seen' = Crowd => Calm /\ \A o \in ops : o.kind \in Moves
         /\ \A o : seen' = Overlap(o) => Calm /\ Reading \subseteq {o}
         /\ \A kind \in {"error", "restart"} : ~Upset(kind)
<1>1. ASSUME seen' = Crowd
      PROVE  Calm /\ \A o \in ops : o.kind \in Moves
  BY <1>1 DEF Crowd, Calm
<1>2. ASSUME NEW o, seen' = Overlap(o)
      PROVE  Calm /\ Reading \subseteq {o}
  BY <1>2 DEF Overlap, Calm
<1>3. ASSUME NEW kind \in {"error", "restart"}, Upset(kind)
      PROVE  FALSE
  BY <1>3 DEF Upset, Calm
<1> QED BY <1>1, <1>2, <1>3 DEF Calm

\* Changes end or begin: of what remains no request is disturbed by new sessions, and
\* no change that has read by new contents of the stores.
LEMMA OrderlyStep ==
  ASSUME Orderly, NEW D, NEW X, ops' = (ops \ D) \cup X,
         \A w \in Workers : mode'[w] # "down",
         \A p \in ops \ D : /\ p.kind \in Moves \/ UNCHANGED <<logins, issued, revoked>>
                            /\ p.pc # "read" \/ UNCHANGED <<rows, list>>,
         \A p \in X : Fits(p)',
         \A p, q \in X : p = q,
         \A p \in X, q \in ops \ D : /\ p.kind \in Moves \/ q.kind \in Moves
                                     /\ p.pc # "read" \/ q.pc # "read"
  PROVE  Orderly'
<1>1. ASSUME NEW p \in ops \ D
      PROVE  Fits(p)'
  <2>1. Fits(p)
    BY DEF Orderly
  <2>2. WritesBack(p)' => ToSet(p.read) = IF p.kind = "to redis" THEN InRows' ELSE ToSet(list')
    BY <2>1 DEF Fits, WritesBack, InRows
  <2> QED BY <2>1, <2>2 DEF Fits, Moves
<1>2. \A o, p \in ops' : o.kind \notin Moves /\ p.kind \notin Moves => o = p
  BY DEF Orderly
<1>3. \A o, p \in Reading' : o = p
  BY DEF Orderly, Reading
<1> QED BY <1>1, <1>2, <1>3 DEF Orderly

\* One change begins or goes on, and disturbs none of the others.
LEMMA OneGoesOn ==
  ASSUME Orderly, NEW D, NEW p, ops' = (ops \ D) \cup {p}, Fits(p)',
         UNCHANGED <<mode, issued, revoked, rows, list>>,
         \A q \in ops \ D : /\ q.kind \in Moves \/ logins' = logins
                            /\ p.kind \in Moves \/ q.kind \in Moves
                            /\ p.pc # "read" \/ q.pc # "read"
  PROVE  Orderly'
<1> PICK X : X = {p}
  OBVIOUS
<1>1. /\ ops' = (ops \ D) \cup X /\ \A w \in Workers : mode'[w] # "down"
      /\ \A q \in ops \ D : /\ q.kind \in Moves \/ UNCHANGED <<logins, issued, revoked>>
                            /\ q.pc # "read" \/ UNCHANGED <<rows, list>>
      /\ \A q, r \in X : q = r
      /\ \A q \in X, r \in ops \ D : /\ q.kind \in Moves \/ r.kind \in Moves
                                     /\ q.pc # "read" \/ r.pc # "read"
  BY DEF Orderly
<1>2. \A q \in X : Fits(q)'
  <2> SUFFICES ASSUME NEW q \in X PROVE Fits(q)'
    OBVIOUS
  <2>1. q = p
    OBVIOUS
  <2> QED BY <2>1
<1> QED BY <1>1, <1>2, OrderlyStep

\* Nothing happens to the stores, the drivers and the sessions, and no registration in
\* the background ends.
LEMMA HeldKept ==
  ASSUME NewestHeld, UNCHANGED <<rows, list, mode, issued, revoked, stomped>>,
         \A o \in ops : o.kind = "again" =>
           \E p \in ops' : p.kind = "again" /\ p.store = o.store
  PROVE  NewestHeld'
BY DEF NewestHeld, Held, InRows

\* The drivers of the workers when none is down.
LEMMA Serving ==
  ASSUME Types, Orderly, NEW w \in Workers
  PROVE  mode[w] \in Stores
BY DEF Types, Orderly

LEMMA LoginNewest ==
  ASSUME Inv, Calm', Orderly, NewestHeld, NEW w \in Workers, Login(w)
  PROVE  Orderly' /\ NewestHeld'
<1> PICK p : p = Op(w, "login", logins + 1, mode[w])
  OBVIOUS
<1>1. seen' = Crowd /\ logins' = logins + 1 /\ ops' = (ops \ {}) \cup {p}
      /\ UNCHANGED <<rows, list, mode, issued, revoked, stomped>>
  BY DEF Login
<1>2. \A o \in ops : o.kind \in Moves
  BY <1>1, CalmSteps
<1>3. p.kind = "login" /\ p.jti = logins' /\ p.pc = "new"
  BY <1>1 DEF Op
<1>4. Fits(p)'
  BY <1>3 DEF Fits, WritesBack
<1>5. Orderly'
  BY <1>1, <1>2, <1>3, <1>4, OneGoesOn
<1>6. NewestHeld'
  BY <1>1, HeldKept
<1> QED BY <1>5, <1>6

LEMMA EndNewest ==
  ASSUME Inv, Calm', Orderly, NewestHeld, NEW w \in Workers, NEW kind \in {"logout", "wipe"},
         NEW j, End(w, kind, j)
  PROVE  Orderly' /\ NewestHeld'
<1> PICK p : p = Op(w, kind, j, mode[w])
  OBVIOUS
<1>1. seen' = Crowd /\ ops' = (ops \ {}) \cup {p}
      /\ UNCHANGED <<rows, list, mode, logins, issued, revoked, stomped>>
  BY DEF End
<1>2. \A o \in ops : o.kind \in Moves
  BY <1>1, CalmSteps
<1>3. p.kind = kind /\ p.pc = "new"
  BY DEF Op
<1>4. Fits(p)'
  BY <1>3 DEF Fits, WritesBack
<1>5. Orderly'
  BY <1>1, <1>2, <1>3, <1>4, OneGoesOn
<1>6. NewestHeld'
  BY <1>1, HeldKept
<1> QED BY <1>5, <1>6

LEMMA ReadNewest ==
  ASSUME Inv, Calm', Orderly, NewestHeld, NEW o \in ops, Read(o)
  PROVE  Orderly' /\ NewestHeld'
<1>1. Types
  BY DEF Inv
<1>2. /\ seen' = Overlap(o) /\ o.pc = "new"
      /\ UNCHANGED <<rows, list, mode, logins, issued, revoked, stomped>>
  BY DEF Read
<1>3. Reading = {}
  BY <1>2, CalmSteps DEF Reading
<1>4. PICK p : /\ ops' = (ops \ {o}) \cup {p}
               /\ p.kind = o.kind /\ p.jti = o.jti /\ p.store = o.store /\ p.pc = "read"
               /\ o.kind \in Registers \/ o.store = "redis"
               /\ o.store = "redis" => p.read = list
  BY <1>1, ReadIs
<1>5. o.kind \notin Moves
  BY <1>1, <1>2 DEF Types, Changes
<1>6. Fits(o)
  BY DEF Orderly
<1>7. Fits(p)'
  BY <1>2, <1>4, <1>5, <1>6 DEF Fits, WritesBack, Moves
<1>8. \A q \in ops \ {o} : q.kind \in Moves /\ q.pc # "read"
  BY <1>3, <1>5 DEF Orderly, Reading
<1>9. Orderly'
  BY <1>2, <1>4, <1>7, <1>8, OneGoesOn
<1>10. NewestHeld'
  BY <1>2, <1>4, HeldKept
<1> QED BY <1>9, <1>10

LEMMA MigrateNewest ==
  ASSUME Inv, Calm', Orderly, NewestHeld, NEW w \in Workers, Migrate(w)
  PROVE  Orderly' /\ NewestHeld'
<1>1. Types
  BY DEF Inv
<1>2. /\ seen' = Overlap([pc |-> "none"])
      /\ UNCHANGED <<rows, list, mode, logins, issued, revoked, stomped>>
  BY DEF Migrate
<1>3. Reading = {}
  <2>1. [pc |-> "none"] \notin Reading
    BY DEF Reading
  <2> QED BY <1>2, <2>1, CalmSteps
<1> PICK kind, to : /\ kind = IF perf THEN "to redis" ELSE "to postgres"
                    /\ to = IF perf THEN "redis" ELSE "postgres"
  OBVIOUS
<1>4. PICK read \in IF perf THEN Sorted ELSE {list} :
        ops' = ops \cup {[Op(w, kind, 0, to) EXCEPT !.pc = "read", !.read = read]}
  BY DEF Migrate
<1>5. ToSet(read) = IF kind = "to redis" THEN InRows ELSE ToSet(list)
  BY <1>1, <1>4, SortedIs
<1>6. kind \in Moves /\ (kind = "to redis" => to = "redis")
      /\ (kind = "to postgres" => to = "postgres")
  BY DEF Moves
<1> PICK p : p = [Op(w, kind, 0, to) EXCEPT !.pc = "read", !.read = read]
  OBVIOUS
<1>7. p.kind = kind /\ p.read = read /\ p.pc = "read" /\ p.store = to
  BY DEF Op
<1>8. ops' = (ops \ {}) \cup {p}
  BY <1>4
<1>9. Fits(p)'
  BY <1>2, <1>5, <1>6, <1>7 DEF Fits, Moves, InRows
<1>10. p.kind \in Moves /\ \A q \in ops : q.pc # "read"
  BY <1>3, <1>6, <1>7 DEF Reading
<1>11. Orderly'
  BY <1>2, <1>8, <1>9, <1>10, OneGoesOn
<1>12. NewestHeld'
  BY <1>2, <1>8, HeldKept
<1> QED BY <1>11, <1>12

\* What is repeated in the background.
LEMMA AgainFits ==
  ASSUME Types, Orderly, NEW o \in ops
  PROVE  /\ \A p, q \in Again(o) : p = q
         /\ \A p \in Again(o) :
              /\ o.kind \notin Moves /\ p.pc = "new" /\ p.kind \notin Moves /\ p.jti = o.jti
              /\ \/ p.kind = "again" /\ o.kind = "login"
                 \/ p.kind = "logout again" /\ o.kind = "logout"
                 \/ p.kind = "wipe again" /\ o.kind = "wipe"
         /\ o.kind = "login" => \E p \in Again(o) : p.kind = "again" /\ p.store = mode[o.w]
<1>1. \/ o.kind \notin {"login", "logout", "wipe"} /\ Again(o) = {}
      \/ o.kind = "login" /\ Again(o) = {Op(o.w, "again", o.jti, mode[o.w])}
      \/ o.kind = "logout" /\ Again(o) = {Op(o.w, "logout again", o.jti, mode[o.w])}
      \/ o.kind = "wipe" /\ Again(o) = {Op(o.w, "wipe again", o.jti, mode[o.w])}
  BY DEF Again
<1>2. \A kind \in {"again", "logout again", "wipe again"} :
        LET p == Op(o.w, kind, o.jti, mode[o.w])
        IN  p.kind = kind /\ p.pc = "new" /\ p.jti = o.jti /\ p.store = mode[o.w]
  BY DEF Op
<1>3. \A kind \in {"login", "logout", "wipe", "again", "logout again", "wipe again"} :
        kind \notin Moves
  BY DEF Moves
<1>4. ASSUME NEW kind \in {"login", "logout", "wipe"}, NEW again, o.kind = kind,
             again \in {"again", "logout again", "wipe again"},
             <<kind, again>> \in {<<"login", "again">>, <<"logout", "logout again">>,
                                  <<"wipe", "wipe again">>},
             Again(o) = {Op(o.w, again, o.jti, mode[o.w])}
      PROVE  /\ \A p, q \in Again(o) : p = q
             /\ \A p \in Again(o) :
                  /\ o.kind \notin Moves /\ p.pc = "new" /\ p.kind \notin Moves /\ p.jti = o.jti
                  /\ \/ p.kind = "again" /\ o.kind = "login"
                     \/ p.kind = "logout again" /\ o.kind = "logout"
                     \/ p.kind = "wipe again" /\ o.kind = "wipe"
             /\ o.kind = "login" => \E p \in Again(o) : p.kind = "again" /\ p.store = mode[o.w]
  BY <1>2, <1>3, <1>4
<1> QED BY <1>1, <1>4

\* A request is answered, or repeated: no other is under way.
LEMMA AnswerOrderly ==
  ASSUME Types, Issued, Orderly, NEW o \in ops, o.kind \notin Moves, mode' = mode,
         ops' = (ops \ {o}) \cup Again(o),
         \A p \in ops \ {o} : p.pc # "read" \/ UNCHANGED <<rows, list>>,
         o.kind = "login" => issued' = issued \cup {o.jti},
         o.kind = "logout" => o.jti \in revoked',
         o.kind = "wipe" => issued' \subseteq revoked'
  PROVE  Orderly'
<1>1. \A p \in ops \ {o} : p.kind \in Moves
  BY DEF Orderly
<1>2. ASSUME NEW p \in Again(o)
      PROVE  Fits(p)'
  <2>1. /\ p.pc = "new" /\ p.kind \notin Moves /\ p.jti = o.jti
        /\ \/ p.kind = "again" /\ o.kind = "login"
           \/ p.kind = "logout again" /\ o.kind = "logout"
           \/ p.kind = "wipe again" /\ o.kind = "wipe"
    BY AgainFits
  <2>2. o.kind = "login" => o.jti \in issued' /\ \A i \in issued' : i <= o.jti
    <3> SUFFICES ASSUME o.kind = "login" PROVE o.jti \in issued' /\ \A i \in issued' : i <= o.jti
      OBVIOUS
    <3>1. o.jti = logins /\ logins \in Nat /\ issued \subseteq 1..logins
      BY DEF Orderly, Fits, Types, Issued
    <3>2. issued' = issued \cup {o.jti}
      OBVIOUS
    <3>3. \A i \in issued : i <= logins
      BY <3>1
    <3>4. \A i \in issued' : i <= logins
      BY <3>1, <3>2, <3>3
    <3> QED BY <3>1, <3>2, <3>4
  <2> QED BY <2>1, <2>2 DEF Fits, WritesBack, Moves
<1>3. \A w \in Workers : mode'[w] # "down"
  BY DEF Orderly
<1>4. \A p, q \in Again(o) : p = q
  BY AgainFits
<1>5. \A p \in Again(o) : p.pc = "new"
  BY AgainFits
<1> QED BY <1>1, <1>2, <1>3, <1>4, <1>5, OrderlyStep

\* A registered session is the newest, and it is in the store of its registration; the
\* other store gets it from a worker that uses this one, or in the background.
LEMMA RegisteredHeld ==
  ASSUME Types, Issued, Orderly, NewestHeld, NEW o \in ops, o.kind \in Registers,
         ops' = (ops \ {o}) \cup Again(o), issued' = Answered(o),
         UNCHANGED <<mode, revoked, stomped>>,
         o.store = "postgres" => o.jti \in InRows' /\ list' = list,
         o.store = "redis" => o.jti \in ToSet(list') /\ rows' = rows
  PROVE  NewestHeld'
<1> SUFFICES ASSUME NEW n \in issued', n \notin revoked \cup stomped, \A i \in issued' : i <= n
             PROVE  Held(n)'
  BY DEF NewestHeld
<1>1. o.kind \in {"login", "again"} /\ o.store \in Stores /\ o.w \in Workers
  BY Typed DEF Registers
<1>2. n = o.jti
  <2>1. CASE o.kind = "login"
    <3>1. o.jti = logins /\ logins \in Nat /\ issued \subseteq 1..logins
          /\ issued' = issued \cup {o.jti}
      BY <2>1 DEF Orderly, Fits, Types, Issued, Answered
    <3>2. n <= o.jti /\ o.jti <= n /\ n \in Nat
      BY <3>1
    <3> QED BY <3>1, <3>2
  <2>2. CASE o.kind = "again"
    <3>1. o.jti \in issued /\ (\A i \in issued : i <= o.jti) /\ issued' = issued
      BY <2>2 DEF Orderly, Fits, Answered
    <3>2. n <= o.jti /\ o.jti <= n /\ n \in Nat /\ o.jti \in Nat
      BY <3>1, Typed DEF Issued
    <3> QED BY <3>2
  <2> QED BY <1>1, <2>1, <2>2
<1>3. CASE o.kind = "login"
  <2>1. PICK p \in Again(o) : p.kind = "again" /\ p.store = mode[o.w]
    BY <1>3, AgainFits
  <2>2. mode[o.w] \in Stores
    BY <1>1, Serving
  <2>3. mode[o.w] = "redis" \/ (p \in ops' /\ p.kind = "again" /\ p.store = "postgres")
    BY <2>1, <2>2 DEF Stores
  <2>4. mode[o.w] = "postgres" \/ (p \in ops' /\ p.kind = "again" /\ p.store = "redis")
    BY <2>1, <2>2 DEF Stores
  <2>5. n \in InRows' \/ n \in ToSet(list')
    BY <1>1, <1>2 DEF Stores
  <2> QED BY <1>1, <2>3, <2>4, <2>5 DEF Held
<1>4. CASE o.kind = "again"
  <2>1. Held(n)
    BY <1>4 DEF NewestHeld, Answered
  <2>2. \A q \in ops : q.kind = "again" => q = o
    BY <1>4 DEF Orderly, Moves
  <2>3. CASE o.store = "postgres"
    BY <1>2, <2>1, <2>2, <2>3 DEF Held
  <2>4. CASE o.store = "redis"
    <3>1. InRows' = InRows
      BY <2>4 DEF InRows
    <3> QED BY <1>2, <2>1, <2>2, <2>4, <3>1 DEF Held
  <2> QED BY <1>1, <2>3, <2>4 DEF Stores
<1> QED BY <1>1, <1>3, <1>4

LEMMA RegisterNewest ==
  ASSUME Inv, Calm', Orderly, NewestHeld, NEW o \in ops, Registered(o) \/ Register(o)
  PROVE  Orderly' /\ NewestHeld'
<1>1. Types /\ Issued
  BY DEF Inv
<1>2. /\ o.kind \in Registers /\ ops' = (ops \ {o}) \cup Again(o) /\ issued' = Answered(o)
      /\ UNCHANGED <<mode, revoked, stomped>>
  BY DEF Registered, Register
<1>3. o.kind \notin Moves /\ o.kind \notin {"logout", "wipe"}
      /\ (o.kind = "login" => issued' = issued \cup {o.jti})
  BY <1>2 DEF Registers, Moves, Answered
<1>4. \A p \in ops \ {o} : p.pc # "read" \/ UNCHANGED <<rows, list>>
  <2>1. CASE Registered(o)
    BY <2>1 DEF Registered
  <2>2. CASE Register(o)
    BY <2>2 DEF Register, Orderly, Reading
  <2> QED BY <2>1, <2>2
<1>5. Orderly'
  BY <1>1, <1>2, <1>3, <1>4, AnswerOrderly
<1>6. /\ o.store = "postgres" => o.jti \in InRows' /\ list' = list
      /\ o.store = "redis" => o.jti \in ToSet(list') /\ rows' = rows
  <2>1. CASE Registered(o)
    BY <2>1 DEF Registered, InRows
  <2>2. CASE Register(o) /\ o.store = "redis"
    <3>1. o.jti \in ToSet(Appended(o))
      BY <1>1, Typed, AppendedIs
    <3> QED BY <2>2, <3>1 DEF Register
  <2>3. CASE Register(o) /\ o.store # "redis"
    <3>1. list' = list /\ rows' = Inserted(o)
      BY <2>3 DEF Register
    <3>2. CASE o.jti \in InRows
      BY <2>3, <3>1, <3>2 DEF Inserted, InRows
    <3>3. CASE o.jti \notin InRows
      <4>1. [jti |-> o.jti, at |-> o.at] \in rows'
        BY <3>1, <3>3 DEF Inserted
      <4>2. [jti |-> o.jti, at |-> o.at].jti = o.jti
        OBVIOUS
      <4> QED BY <2>3, <3>1, <4>1, <4>2 DEF InRows
    <3> QED BY <3>2, <3>3
  <2> QED BY <2>1, <2>2, <2>3
<1>7. NewestHeld'
  BY <1>1, <1>2, <1>6, RegisteredHeld
<1> QED BY <1>5, <1>7

\* What ends takes no session along that has not ended.
LEMMA RevokeNewest ==
  ASSUME Inv, Calm', Orderly, NewestHeld, NEW o \in ops, Revoke(o)
  PROVE  Orderly' /\ NewestHeld'
<1>1. Types /\ Issued /\ Fits(o)
  BY DEF Inv, Orderly
<1>2. /\ o.kind \in Ends /\ ops' = (ops \ {o}) \cup Again(o) /\ revoked' = revoked \cup Ended(o)
      /\ seen' = Overlap(o) /\ UNCHANGED <<mode, logins, issued, stomped>>
  BY DEF Revoke
<1>3. Reading \subseteq {o}
  BY <1>2, CalmSteps
<1>4. o.kind \notin Moves \cup Registers /\ (o.kind = "logout" => o.jti \in revoked')
      /\ (o.kind = "wipe" => issued' \subseteq revoked')
  BY <1>2 DEF Ends, Moves, Registers, Ended
<1>5. Orderly'
  <2>1. \A p \in ops \ {o} : p.pc # "read" \/ UNCHANGED <<rows, list>>
    BY <1>3 DEF Reading
  <2> QED BY <1>1, <1>2, <1>4, <2>1, AnswerOrderly DEF Registers
<1>6. NewestHeld'
  <2> SUFFICES ASSUME NEW n \in issued, n \notin revoked', n \notin stomped,
                      \A i \in issued : i <= n
               PROVE  Held(n)'
    BY <1>2 DEF NewestHeld
  <2>1. Held(n)
    BY <1>2 DEF NewestHeld
  <2>2. o.kind \in {"logout", "logout again"} /\ n # o.jti
    BY <1>1, <1>2, <1>4 DEF Ends, Fits
  <2>3. (n \in InRows => n \in InRows') /\ (n \in ToSet(list) => n \in ToSet(list'))
    <3>1. CASE o.store = "postgres"
      <4>1. rows' = {r \in rows : r.jti # o.jti} /\ list' = list
        BY <2>2, <3>1 DEF Revoke, Removed
      <4> QED BY <2>2, <4>1 DEF InRows
    <3>2. CASE o.store # "postgres"
      <4>1. o.store = "redis" /\ o.pc = "read" /\ rows' = rows
            /\ list' = IF Absent(o) THEN list ELSE Without(o.read, o.jti)
        BY <1>1, <2>2, <3>2, Typed DEF Revoke, Removed, Stores
      <4>2. ToSet(o.read) = ToSet(list)
        BY <1>1, <2>2, <4>1 DEF Fits, WritesBack
      <4>3. ToSet(Without(o.read, o.jti)) = ToSet(o.read) \ {o.jti}
        BY <1>1, Typed, WithoutIs
      <4> QED BY <2>2, <4>1, <4>2, <4>3 DEF InRows
    <3> QED BY <3>1, <3>2
  <2>4. \A q \in ops : q.kind # "again"
    BY <1>4, <2>2 DEF Orderly, Moves
  <2> QED BY <1>2, <2>1, <2>3, <2>4 DEF Held
<1> QED BY <1>5, <1>6

\* A worker that switches finds the newest session in the old store, unless the new one
\* has it.
LEMMA MoveNewest ==
  ASSUME Inv, Calm', Orderly, NewestHeld, NEW o \in ops, Move(o)
  PROVE  Orderly' /\ NewestHeld'
<1>1. Types /\ Fits(o)
  BY DEF Inv, Orderly
<1>2. /\ o.kind \in Moves /\ ops' = ops \ {o} /\ mode' = [mode EXCEPT ![o.w] = o.store]
      /\ UNCHANGED <<logins, issued, revoked>>
  BY DEF Move
<1>3. /\ o.pc = "read" /\ o.store \in Stores /\ o.w \in Workers
      /\ mode \in [Workers -> Stores \cup {"down"}]
  BY <1>1, <1>2, Typed DEF Types, Changes
<1>4. Reading = {o}
  BY <1>3 DEF Orderly, Reading
<1>5. Orderly'
  <2>1. \A w \in Workers : mode'[w] # "down"
    BY <1>2, <1>3 DEF Orderly, Stores
  <2>2. \A p \in ops \ {o} : p.pc # "read"
    BY <1>4 DEF Reading
  <2> PICK X : X = {}
    OBVIOUS
  <2>3. /\ ops' = (ops \ {o}) \cup X /\ \A p \in X : FALSE
        /\ \A p \in ops \ {o} : p.kind \in Moves \/ UNCHANGED <<logins, issued, revoked>>
        /\ \A p \in ops \ {o} : p.pc # "read" \/ UNCHANGED <<rows, list>>
    BY <1>2, <2>2
  <2>4. \A p \in X : Fits(p)'
    BY <2>3
  <2>5. /\ \A p, q \in X : p = q
        /\ \A p \in X, q \in ops \ {o} : p.kind \in Moves \/ q.kind \in Moves
        /\ \A p \in X, q \in ops \ {o} : p.pc # "read" \/ q.pc # "read"
    BY <2>3
  <2> QED BY <2>1, <2>3, <2>4, <2>5, OrderlyStep
<1>6. NewestHeld'
  <2> SUFFICES ASSUME NEW n \in issued, n \notin revoked, n \notin stomped',
                      \A i \in issued : i <= n
               PROVE  Held(n)'
    BY <1>2 DEF NewestHeld
  <2>1. n \notin stomped
    BY DEF Move, MoveToRedis, MoveToPostgres
  <2>2. Held(n)
    BY <2>1 DEF NewestHeld
  <2>3. \A p \in ops : p.kind = "again" => p \in ops'
    BY <1>2 DEF Moves
  <2>4. \A w \in Workers : mode'[w] = IF w = o.w THEN o.store ELSE mode[w]
    BY <1>2, <1>3
  <2>5. CASE o.store = "redis"
    <3>1. InRows' = InRows /\ list' = IF o.read = <<>> THEN list ELSE o.read
      BY <2>5 DEF Move, MoveToRedis, InRows
    <3>2. ToSet(o.read) = InRows
      BY <1>1, <1>2, <1>3, <2>5 DEF Fits, WritesBack, Moves
    <3>3. n \in ToSet(list')
      <4>1. CASE n \in ToSet(list)
        BY <2>5, <4>1 DEF Move, MoveToRedis
      <4>2. CASE n \notin ToSet(list)
        <5>1. n \in ToSet(o.read)
          BY <2>2, <3>2, <4>2 DEF Held
        <5>2. o.read # <<>>
          BY <5>1 DEF ToSet
        <5> QED BY <3>1, <5>1, <5>2
      <4> QED BY <4>1, <4>2
    <3>4. \A w \in Workers : mode[w] = "redis" => mode'[w] = "redis"
      BY <2>4, <2>5
    <3> QED BY <2>2, <2>3, <3>1, <3>3, <3>4 DEF Held
  <2>6. CASE o.store # "redis"
    <3>1. o.store = "postgres" /\ list' = list
      BY <1>3, <2>6 DEF Stores, Move, MoveToPostgres
    <3>2. ToSet(o.read) = ToSet(list)
      BY <1>1, <1>2, <1>3, <2>6 DEF Fits, WritesBack
    <3>3. rows' = rows \cup [jti : ToSet(o.read) \ InRows, at : {Time}]
      <4>1. \A p \in Reading : p.kind \notin Registers
        BY <1>2, <1>4 DEF Registers, Moves
      <4> QED BY <2>6, <4>1 DEF Move, MoveToPostgres
    <3>4. n \in InRows'
      <4>1. CASE n \in InRows
        BY <3>3, <4>1 DEF InRows
      <4>2. CASE n \notin InRows
        <5>1. n \in ToSet(o.read) \ InRows
          BY <2>2, <3>2, <4>2 DEF Held
        <5>2. [jti |-> n, at |-> Time] \in rows' /\ [jti |-> n, at |-> Time].jti = n
          BY <3>3, <5>1
        <5> QED BY <5>2 DEF InRows
      <4> QED BY <4>1, <4>2
    <3>5. \A w \in Workers : mode[w] = "postgres" => mode'[w] = "postgres"
      BY <2>4, <3>1
    <3> QED BY <2>2, <2>3, <3>1, <3>4, <3>5 DEF Held
  <2> QED BY <2>5, <2>6
<1> QED BY <1>5, <1>6

LEMMA NextNewest == Inv /\ NewestInv /\ [Next]_vars => NewestInv'
<1> SUFFICES ASSUME Inv, NewestInv, [Next]_vars, Calm' PROVE Orderly' /\ NewestHeld'
  BY DEF NewestInv
<1>1. seen \subseteq seen'
  BY DEF Next, vars, Login, Migrate, Restart, Start, End, Read, Registered, Register, Revoke,
         Fails, Move, MoveToRedis, MoveToPostgres, Switch, Done, Upset, Overlap, Crowd
<1>2. Calm /\ Orderly /\ NewestHeld
  BY <1>1, CalmSteps DEF NewestInv
<1>3. ASSUME UNCHANGED <<rows, list, mode, ops, logins, issued, revoked, stomped>>
      PROVE  Orderly' /\ NewestHeld'
  <2>1. Orderly'
    BY <1>2, <1>3 DEF Orderly, Fits, WritesBack, InRows, Reading
  <2> QED BY <1>2, <1>3, <2>1, HeldKept
<1>4. CASE Switch \/ Done \/ UNCHANGED vars
  BY <1>3, <1>4 DEF Switch, Done, vars
<1>5. ASSUME NEW w \in Workers, Restart(w) \/ Start(w)
      PROVE  FALSE
  BY <1>2, <1>5, CalmSteps DEF Restart, Start, Orderly
<1>6. ASSUME NEW o \in ops, Fails(o)
      PROVE  FALSE
  BY <1>6, CalmSteps DEF Fails
<1>7. ASSUME NEW w \in Workers, Login(w) \/ Migrate(w)
      PROVE  Orderly' /\ NewestHeld'
  BY <1>2, <1>7, LoginNewest, MigrateNewest
<1>8. ASSUME NEW w \in Workers, NEW j \in Jtis, End(w, "logout", j) \/ End(w, "wipe", j)
      PROVE  Orderly' /\ NewestHeld'
  BY <1>2, <1>8, EndNewest
<1>9. ASSUME NEW o \in ops, Read(o) \/ Registered(o) \/ Register(o) \/ Revoke(o) \/ Move(o)
      PROVE  Orderly' /\ NewestHeld'
  BY <1>2, <1>9, ReadNewest, RegisterNewest, RevokeNewest, MoveNewest
<1> QED BY <1>4, <1>5, <1>6, <1>7, <1>8, <1>9 DEF Next

\* When all is settled, the session of the last login that was answered is active at every
\* worker, unless it was ended or overwritten by a migration, requests or changes
\* overlapped, a store failed or a worker stopped in the middle.
THEOREM NewestStaysActive == Spec => []NewestIsActive
<1>1. ASSUME Inv, NewestInv PROVE NewestIsActive
  <2> DEFINE n == Max(issued)
  <2> SUFFICES ASSUME Settled, Calm, issued # {}, n \notin revoked \cup stomped,
                      NEW w \in Workers
               PROVE  n \in Active(w)
    BY DEF NewestIsActive, Calm
  <2>1. n \in issued /\ \A i \in issued : i <= n
    <3>1. issued \subseteq 1..logins /\ logins \in Nat
      BY <1>1 DEF Inv, Issued, Types
    <3>2. IsFiniteSet(1..logins)
      BY <3>1, FS_Interval
    <3>3. issued \subseteq Int
      BY <3>1
    <3>4. IsFiniteSet(issued)
      BY <3>1, <3>2, FS_Subset
    <3>5. n \in issued /\ \A i \in issued : n >= i
      BY <3>3, <3>4, MaxIs
    <3> HIDE DEF n
    <3> QED BY <3>3, <3>5
  <2>2. Held(n)
    <3> HIDE DEF n
    <3> QED BY <1>1, <2>1 DEF NewestInv, NewestHeld
  <2> HIDE DEF n
  <2>3. ops = {} /\ \A v \in Workers : mode[v] = IF perf THEN "redis" ELSE "postgres"
    BY DEF Settled
  <2>4. CASE perf
    BY <2>2, <2>3, <2>4 DEF Held, Active
  <2>5. CASE ~perf
    BY <2>2, <2>3, <2>5 DEF Held, Active
  <2> QED BY <2>4, <2>5
<1>2. Inv /\ NewestInv /\ [Next]_vars => (Inv /\ NewestInv)'
  BY NextInv, NextNewest
<1>3. Spec => [](Inv /\ NewestInv)
  BY <1>2, InitInv, InitNewest, PTL DEF Spec
<1> QED BY <1>1, <1>3, PTL
=============================================================================
