------------------------------ MODULE Sessions ------------------------------
(***************************************************************************)
(* The sessions of one user: services/session_store.py keeps them in       *)
(* PostgreSQL or in Redis, as the storage driver of a worker says;         *)
(* services/auth_service.py repeats every change in the background;        *)
(* routers/auth.py and routers/users.py log users in and out, and          *)
(* services/driver_manager.py copies the sessions when it switches.        *)
(*                                                                         *)
(* A session is the number of its login.  No session lives long enough to  *)
(* expire.                                                                 *)
(***************************************************************************)
EXTENDS Naturals, SequencesExt

CONSTANTS
  Workers,      \* processes of the API
  MaxSessions,  \* max_active_sessions_per_user
  Upsets,       \* what else may happen: faults, and switches of the driver
  MaxLogins, MaxEnds, MaxUpsets  \* bounds on logins, logouts and upsets

UpsetKinds == {"error", "restart", "switch"}

ASSUME SessionsAssumption ==
  /\ MaxSessions \in Nat \ {0} /\ Upsets \subseteq UpsetKinds
  /\ {MaxLogins, MaxEnds, MaxUpsets} \subseteq Nat

VARIABLES
  rows,     \* user_sessions in PostgreSQL: sessions with created_at
  list,     \* user_sessions:<id> in Redis
  mode,     \* the driver of each worker, or "down"
  perf,     \* performance_mode: should the driver be Redis?
  ops,      \* changes under way: [w, kind, jti, store, pc, read, at]
  logins, ends, upsets, \* how many there were
  issued,   \* sessions whose login was answered
  revoked,  \* history: sessions ended by logout or with all others, as was answered
  raced,    \* history: those of them that could come back when they were revoked
  stomped,  \* history: sessions a migration to Redis overwrote
  seen      \* history: kinds of upsets, "overlap" of changes, "crowd" of requests
            \* and "merge" of the stores

vars == <<rows, list, mode, perf, ops, logins, ends, upsets, issued, revoked, raced,
          stomped, seen>>

Jtis == 1..MaxLogins
Registers == {"login", "again"}
Ends == {"logout", "logout again", "wipe", "wipe again"}
Moves == {"to redis", "to postgres"}

Init ==
  /\ rows = {} /\ list = <<>>
  /\ perf \in BOOLEAN
  /\ mode = [w \in Workers |-> IF perf THEN "redis" ELSE "postgres"]
  /\ ops = {} /\ logins = 0 /\ ends = 0 /\ upsets = 0
  /\ issued = {} /\ revoked = {} /\ raced = {} /\ stomped = {} /\ seen = {}

-----------------------------------------------------------------------------
InRows == {r.jti : r \in rows}

\* is_session_active, at a worker.
Active(w) ==
  CASE mode[w] = "redis" -> ToSet(list) [] mode[w] = "postgres" -> InRows [] OTHER -> {}

Upset(kind) ==
  /\ kind \in Upsets /\ upsets < MaxUpsets
  /\ upsets' = upsets + 1
  /\ seen' = seen \cup {kind}

Op(w, kind, jti, store) ==
  [w |-> w, kind |-> kind, jti |-> jti, store |-> store, pc |-> "new", read |-> <<>>, at |-> 0]

\* What was read is to be written back.
Reading == {o \in ops : o.pc = "read"}

\* History: two changes of a store overlap.
Overlap(o) == IF Reading \ {o} # {} THEN seen \cup {"overlap"} ELSE seen

\* created_at of what is inserted now: later than all there is.
Time == 1 + Max({0} \cup {r.at : r \in rows} \cup {o.at : o \in ops})

-----------------------------------------------------------------------------
(* Requests.                                                               *)

\* History: a request comes while another one, or its repetition, is under way.
Crowd == IF \E o \in ops : o.kind \notin Moves THEN seen \cup {"crowd"} ELSE seen

\* The password was right: the session is going to be registered.
Login(w) ==
  /\ mode[w] # "down" /\ logins < MaxLogins
  /\ logins' = logins + 1
  /\ ops' = ops \cup {Op(w, "login", logins', mode[w])}
  /\ seen' = Crowd
  /\ UNCHANGED <<rows, list, mode, perf, ends, upsets, issued, revoked, raced, stomped>>

\* A session is logged out, or all are ended for a new password or a deactivation.
End(w, kind, jti) ==
  /\ mode[w] # "down" /\ ends < MaxEnds /\ jti \in issued \ revoked
  /\ ends' = ends + 1
  /\ ops' = ops \cup {Op(w, kind, jti, mode[w])}
  /\ seen' = Crowd
  /\ UNCHANGED <<rows, list, mode, perf, logins, upsets, issued, revoked, raced, stomped>>

\* The request is answered, and the change repeated in the background.
Again(o) ==
  CASE o.kind = "login" -> {Op(o.w, "again", o.jti, mode[o.w])}
    [] o.kind = "logout" -> {Op(o.w, "logout again", o.jti, mode[o.w])}
    [] o.kind = "wipe" -> {Op(o.w, "wipe again", o.jti, mode[o.w])}
    [] OTHER -> {}

Answered(o) == IF o.kind = "login" THEN issued \cup {o.jti} ELSE issued

-----------------------------------------------------------------------------
(* register_session.                                                       *)

\* The sessions that stay of a set: the newest.
Newest(S) ==
  {K \in SUBSET S : /\ Cardinality(K) = MaxSessions
                    /\ \A k \in K, r \in S \ K : k.at >= r.at}

\* PostgreSQL: the row is inserted, and the excess of what the transaction sees
\* chosen.  jti is unique.
RegisterPostgres(o) ==
  LET own == [jti |-> o.jti, at |-> Time]
      all == rows \cup {own}
  IN  /\ o.jti \notin InRows
      /\ \E keep \in IF Cardinality(all) > MaxSessions THEN Newest(all) ELSE {all} :
           ops' = (ops \ {o}) \cup
                  {[o EXCEPT !.pc = "read", !.at = Time,
                             !.read = SetToSeq({r.jti : r \in all \ keep})]}

\* A second registration finds the row and is rolled back.
Registered(o) ==
  /\ o.pc = "new" /\ o.kind \in Registers /\ o.store = "postgres" /\ o.jti \in InRows
  /\ ops' = (ops \ {o}) \cup Again(o) /\ issued' = Answered(o)
  /\ UNCHANGED <<rows, list, mode, perf, logins, ends, upsets, revoked, raced, stomped,
                 seen>>

\* The beginning of a change that reads before it writes.
Read(o) ==
  /\ o.pc = "new"
  /\ \/ /\ o.kind \in Registers /\ o.store = "postgres" /\ RegisterPostgres(o)
     \/ /\ o.store = "redis" /\ o.kind \in Registers \cup {"logout", "logout again"}
        /\ ops' = (ops \ {o}) \cup {[o EXCEPT !.pc = "read", !.read = list]}
  /\ seen' = Overlap(o)
  /\ UNCHANGED <<rows, list, mode, perf, logins, ends, upsets, issued, revoked, raced,
                 stomped>>

\* Faulty: the newest is not kept.
KeepsOldest(o) == SubSeq(Append(o.read, o.jti), 1, MaxSessions)

\* Redis keeps the newest entries of what was read.
Appended(o) ==
  LET new == Append(o.read, o.jti)
  IN  IF Len(new) > MaxSessions THEN SubSeq(new, Len(new) - MaxSessions + 1, Len(new)) ELSE new

\* Faulty: the excess stays.
Crowded(o) == rows \cup {[jti |-> o.jti, at |-> o.at]}

\* The transaction commits, unless another one has inserted the session meanwhile.
Inserted(o) ==
  IF o.jti \in InRows THEN rows
  ELSE {r \in rows : r.jti \notin ToSet(o.read)} \cup {[jti |-> o.jti, at |-> o.at]}

Register(o) ==
  /\ o.pc = "read" /\ o.kind \in Registers
  /\ IF o.store = "redis" THEN list' = Appended(o) /\ UNCHANGED rows
     ELSE rows' = Inserted(o) /\ UNCHANGED list
  /\ ops' = (ops \ {o}) \cup Again(o) /\ issued' = Answered(o)
  /\ UNCHANGED <<mode, perf, logins, ends, upsets, revoked, raced, stomped, seen>>

-----------------------------------------------------------------------------
(* invalidate_session and invalidate_all_user_sessions.                    *)

\* Will what o has read be in a store again?
WritesBack(o) == o.pc = "read" /\ (o.store = "redis" \/ o.kind \in Moves)

\* Nothing was read: the key was absent, or a registration found no row too many.
Absent(o) == o.pc = "read" /\ o.read = <<>>

\* Can session j come back or stay: by a change that has read it and writes it back, by its
\* registration in the background, from the other store, or because a logout found the
\* key absent before a migration set it?
MayReturn(j, o) ==
  \/ \E p \in ops \ {o} : \/ WritesBack(p) /\ j \in ToSet(p.read)
                          \/ p.kind = "again" /\ p.jti = j
  \/ j \in IF o.store = "redis" THEN InRows ELSE ToSet(list)
  \/ Absent(o) /\ j \in ToSet(list)

Ended(o) ==
  CASE o.kind = "logout" -> {o.jti}
    [] o.kind = "wipe" -> issued
    [] OTHER -> {}

\* Faulty: the answer does not wait for the store.
Unawaited(o) ==
  IF o.kind \in {"logout", "wipe"} THEN UNCHANGED <<rows, list>>
  ELSE rows' = {} /\ list' = <<>>

\* The sessions of s but j, in their order.
Without(s, j) ==
  FoldLeft(LAMBDA kept, k : IF k = j THEN kept ELSE Append(kept, k), <<>>, s)

\* A logout in Redis writes back what it has read, if it has read anything.
Removed(o) ==
  IF o.store = "postgres"
  THEN /\ rows' = {r \in rows : o.kind \in {"logout", "logout again"} /\ r.jti # o.jti}
       /\ UNCHANGED list
  ELSE /\ o.kind \in {"logout", "logout again"} => o.pc = "read"
       /\ list' = IF Absent(o) THEN list
                  ELSE IF o.pc = "read" THEN Without(o.read, o.jti) ELSE <<>>
       /\ UNCHANGED rows

Revoke(o) ==
  /\ o.kind \in Ends
  /\ Removed(o)
  /\ revoked' = revoked \cup Ended(o)
  /\ raced' = raced \cup {j \in Ended(o) : MayReturn(j, o)}
  /\ ops' = (ops \ {o}) \cup Again(o)
  /\ seen' = Overlap(o)
  /\ UNCHANGED <<mode, perf, logins, ends, upsets, issued, stomped>>

\* A store fails.  PostgreSQL's says nothing of it and the request is answered;
\* Redis' raises, which fails the request.
Fails(o) ==
  /\ o.kind \notin Moves /\ Upset("error")
  /\ IF o.store = "postgres"
     THEN ops' = (ops \ {o}) \cup Again(o) /\ issued' = Answered(o)
     ELSE ops' = ops \ {o} /\ UNCHANGED issued
  /\ UNCHANGED <<rows, list, mode, perf, logins, ends, revoked, raced, stomped>>

-----------------------------------------------------------------------------
(* Switching.                                                              *)

Switch ==
  /\ Upset("switch") /\ perf' = ~perf
  /\ UNCHANGED <<rows, list, mode, ops, logins, ends, issued, revoked, raced, stomped>>

\* The sessions of PostgreSQL, the oldest first; those of one migration have one created_at.
Sorted ==
  {[i \in DOMAIN s |-> s[i].jti] : s \in
     {p \in SetToSeqs(rows) : \A i, j \in DOMAIN p : i < j => p[i].at <= p[j].at}}

\* initialize: the sessions are read from the old store, then written to the new one.
Migrate(w) ==
  LET to == IF perf THEN "redis" ELSE "postgres"
  IN  /\ mode[w] # to /\ (mode[w] = "down" => perf)
      /\ ~\E o \in ops : o.w = w /\ o.kind \in Moves
      /\ \E read \in IF perf THEN Sorted ELSE {list} :
           ops' = ops \cup
             {[Op(w, IF perf THEN "to redis" ELSE "to postgres", 0, to) EXCEPT !.pc = "read",
                 !.read = read]}
      /\ seen' = Overlap([pc |-> "none"])
  /\ UNCHANGED <<rows, list, mode, perf, logins, ends, upsets, issued, revoked, raced,
                 stomped>>

\* Without rows nothing is set; PostgreSQL keeps its rows.
MoveToRedis(o) ==
  /\ list' = IF o.read = <<>> THEN list ELSE o.read
  /\ stomped' = stomped \cup (ToSet(list) \ ToSet(list'))
  /\ UNCHANGED <<rows, seen>>

\* What is not yet in PostgreSQL is inserted there, unless a registration inserts one of
\* these sessions too; Redis keeps its list.
MoveToPostgres(o) ==
  /\ LET new == ToSet(o.read) \ InRows
         clash == \E p \in Reading : p.kind \in Registers /\ p.store = "postgres" /\ p.jti \in new
     IN  \/ rows' = rows \cup [jti : new, at : {Time}]
         \/ clash /\ UNCHANGED rows
  /\ seen' = IF InRows \ ToSet(o.read) # {} THEN seen \cup {"merge"} ELSE seen
  /\ UNCHANGED <<list, stomped>>

Move(o) ==
  /\ o.kind \in Moves
  /\ IF o.store = "redis" THEN MoveToRedis(o) ELSE MoveToPostgres(o)
  /\ mode' = [mode EXCEPT ![o.w] = o.store]
  /\ ops' = ops \ {o}
  /\ UNCHANGED <<perf, logins, ends, upsets, issued, revoked, raced>>

\* A worker that starts serves requests when its driver is initialized; it takes the
\* sessions to be in PostgreSQL, and migrates them if they are not.
Restart(w) ==
  /\ Upset("restart")
  /\ ops' = {o \in ops : o.w # w}
  /\ mode' = [mode EXCEPT ![w] = "down"]
  /\ UNCHANGED <<rows, list, perf, logins, ends, issued, revoked, raced, stomped>>

Start(w) ==
  /\ mode[w] = "down" /\ ~perf
  /\ mode' = [mode EXCEPT ![w] = "postgres"]
  /\ UNCHANGED <<rows, list, perf, ops, logins, ends, upsets, issued, revoked, raced,
                 stomped, seen>>

-----------------------------------------------------------------------------
Done ==
  /\ ops = {} /\ \A w \in Workers : mode[w] = IF perf THEN "redis" ELSE "postgres"
  /\ UNCHANGED vars

Next ==
  \/ \E w \in Workers : Login(w) \/ Migrate(w) \/ Restart(w) \/ Start(w)
  \/ \E w \in Workers, j \in Jtis : End(w, "logout", j) \/ End(w, "wipe", j)
  \/ \E o \in ops : Read(o) \/ Registered(o) \/ Register(o) \/ Revoke(o) \/ Fails(o) \/ Move(o)
  \/ Switch \/ Done

Spec == Init /\ [][Next]_vars

-----------------------------------------------------------------------------
(* Properties.                                                             *)

\* A session that was ended stays ended on every worker, also over later switches of
\* the driver and restarts, but for four cases named when it is ended: a change under way
\* has read it and writes it back, its registration is to be repeated, the other store
\* still holds it, or the logout found the key absent which a migration has set since.
RevokedStaysDead ==
  \A j \in revoked \ raced : \A w \in Workers : j \notin Active(w)

\* A user never has more sessions than allowed, unless two changes overlapped or a
\* migration to PostgreSQL added to rows that were still there.
Quota ==
  seen \cap {"overlap", "merge"} = {} => \A w \in Workers : Cardinality(Active(w)) <= MaxSessions

\* Nothing is under way, and all workers use the same store.
Settled == ops = {} /\ \A w \in Workers : mode[w] = IF perf THEN "redis" ELSE "postgres"

\* The session of the last login that was answered is active when all is settled,
\* unless it was ended, requests or changes overlapped, a store failed, a worker stopped in the
\* middle, or a migration overwrote it.
NewestIsActive ==
  /\ Settled /\ seen \cap {"overlap", "crowd", "error", "restart"} = {}
  /\ issued # {} /\ Max(issued) \notin revoked \cup stomped
  => \A w \in Workers : Max(issued) \in Active(w)
=============================================================================
