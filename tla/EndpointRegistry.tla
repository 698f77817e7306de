-------------------------- MODULE EndpointRegistry --------------------------
(***************************************************************************)
(* monitoring/registry.py as the orchestration loop of monitoring/engine.py*)
(* drives it: every 30 seconds the loop selects the active endpoints,      *)
(* starts a sweep task for those without one and cancels the sweeps of     *)
(* those that are gone.  A sweep ends when it fails before its first cycle *)
(* or some time after it is cancelled, which may be after the next passes; *)
(* its done callback then clears the registry's entry for the endpoint.    *)
(*                                                                         *)
(* EndpointMonitor models what one sweep does and takes for granted that   *)
(* an endpoint has one at a time: that is what is checked here.            *)
(***************************************************************************)
EXTENDS Naturals, FiniteSets

CONSTANTS
  Endpoints,
  MaxChanges, MaxFails   \* bounds on (de)activations and on failing sweeps

ASSUME RegistryAssumption == MaxChanges \in Nat /\ MaxFails \in Nat

VARIABLES
  active,    \* rows of endpoints that are ACTIVE with monitoring enabled
  pc,        \* the loop: asleep, or holding the rows it selected
  rows,      \* those rows
  known,     \* _endpoints
  running,   \* _running_tasks: the number of an endpoint's sweep, 0 for none
  spawned,   \* how many sweeps each endpoint has had
  sweeping,  \* the sweeps of each endpoint that go on
  young,     \* those that have not initialized their endpoint yet
  ending,    \* those that are cancelled and not done yet
  stray,     \* history: those that lost their entry to another sweep's done callback
  changes, fails  \* how many changes and failures there were

vars ==
  <<active, pc, rows, known, running, spawned, sweeping, young, ending, stray, changes, fails>>

None == [e \in Endpoints |-> {}]

Init ==
  /\ active \in SUBSET Endpoints
  /\ pc = "asleep" /\ rows = {}
  /\ known = {} /\ running = [e \in Endpoints |-> 0]
  /\ spawned = [e \in Endpoints |-> 0]
  /\ sweeping = None /\ young = None /\ ending = None /\ stray = None
  /\ changes = 0 /\ fails = 0

-----------------------------------------------------------------------------
(* The administrator.                                                      *)

\* An endpoint is created or activated, or deactivated or deleted.
Change(e) ==
  /\ changes < MaxChanges
  /\ changes' = changes + 1
  /\ active' = IF e \in active THEN active \ {e} ELSE active \cup {e}
  /\ UNCHANGED <<pc, rows, known, running, spawned, sweeping, young, ending, stray, fails>>

-----------------------------------------------------------------------------
(* The loop.                                                               *)

\* The rows are read; a SELECT that fails leaves everything to the next pass.
Select ==
  /\ pc = "asleep"
  /\ pc' = "selected" /\ rows' = active
  /\ UNCHANGED <<active, known, running, spawned, sweeping, young, ending, stray, changes, fails>>

\* Faulty: a sweep is started whether or not there is one.
EveryRow == rows

\* add_endpoint starts a sweep for these, remove_endpoint cancels those.
Missing == {e \in rows : running[e] = 0}

Gone == known \ rows

\* No lock is held across an await, so the whole pass is one step.
Sync ==
  /\ pc = "selected"
  /\ pc' = "asleep" /\ rows' = {}
  /\ known' = rows
  /\ spawned' = [e \in Endpoints |-> spawned[e] + IF e \in Missing THEN 1 ELSE 0]
  /\ running' = [e \in Endpoints |-> CASE e \in Missing -> spawned[e] + 1
                                       [] e \in Gone    -> 0
                                       [] OTHER         -> running[e]]
  /\ sweeping' = [e \in Endpoints |-> CASE e \in Missing -> sweeping[e] \cup {spawned[e] + 1}
                                        [] e \in Gone    -> sweeping[e] \ {running[e]}
                                        [] OTHER         -> sweeping[e]]
  /\ young' = [e \in Endpoints |-> (young[e] \cap sweeping'[e]) \cup (sweeping'[e] \ sweeping[e])]
  /\ ending' = [e \in Endpoints |-> IF e \in Gone
                                    THEN ending[e] \cup (sweeping[e] \cap {running[e]})
                                    ELSE ending[e]]
  /\ UNCHANGED <<active, stray, changes, fails>>

-----------------------------------------------------------------------------
(* The sweeps.                                                             *)

\* Faulty: the entry of a sweep that ended stays.
Kept(e) == running

\* _on_done: the endpoint's entry goes, whichever sweep it names.
Cleared(e) == [running EXCEPT ![e] = 0]

\* The sweeps that an endpoint's registry entry does not name any more, when n is done.
Strays(e, n) == [stray EXCEPT ![e] = (@ \cup ({running[e]} \ {0})) \ {n}]

\* initialize_endpoint succeeds: no exception but a cancellation ends the sweep
\* any more.
Begin(e) ==
  /\ \E n \in young[e] : young' = [young EXCEPT ![e] = @ \ {n}]
  /\ UNCHANGED <<active, pc, rows, known, running, spawned, sweeping, ending, stray, changes, fails>>

\* initialize_endpoint fails, outside the cycle's try: the sweep is over.
Fail(e) ==
  /\ fails < MaxFails
  /\ fails' = fails + 1
  /\ \E n \in young[e] : /\ young' = [young EXCEPT ![e] = @ \ {n}]
                        /\ sweeping' = [sweeping EXCEPT ![e] = @ \ {n}]
                        /\ stray' = Strays(e, n)
  /\ running' = Cleared(e)
  /\ UNCHANGED <<active, pc, rows, known, spawned, ending, changes>>

\* A cancelled sweep has closed its session and is done.
End(e) ==
  /\ \E n \in ending[e] : /\ ending' = [ending EXCEPT ![e] = @ \ {n}]
                         /\ stray' = Strays(e, n)
  /\ running' = Cleared(e)
  /\ UNCHANGED <<active, pc, rows, known, spawned, sweeping, young, changes, fails>>

-----------------------------------------------------------------------------
Next ==
  \/ \E e \in Endpoints : Change(e) \/ Begin(e) \/ Fail(e) \/ End(e)
  \/ Select \/ Sync

Spec == Init /\ [][Next]_vars

\* The loop passes every 30 seconds and a cancelled task ends.
FairSpec ==
  /\ Spec
  /\ WF_vars(Select) /\ WF_vars(Sync) /\ \A e \in Endpoints : WF_vars(End(e))

-----------------------------------------------------------------------------
(* Properties.                                                             *)

\* Every variable has the type its comment gives.
TypeOK ==
  /\ active \subseteq Endpoints /\ rows \subseteq Endpoints /\ known \subseteq Endpoints
  /\ pc \in {"asleep", "selected"}
  /\ running \in [Endpoints -> Nat] /\ spawned \in [Endpoints -> Nat]
  /\ sweeping \in [Endpoints -> SUBSET Nat] /\ young \in [Endpoints -> SUBSET Nat]
  /\ ending \in [Endpoints -> SUBSET Nat] /\ stray \in [Endpoints -> SUBSET Nat]
  /\ changes \in Nat /\ fails \in Nat

\* No endpoint is swept twice at a time, nor one that the registry does not know, through
\* activations, deactivations, failures and cancelled sweeps that end late, in any order:
\* but for sweeps that lost their entry to the done callback of an older one.
OneSweep ==
  \A e \in Endpoints : /\ \A m, n \in sweeping[e] \ stray[e] : m = n
                       /\ e \notin known => sweeping[e] \subseteq stray[e]

\* An endpoint that stays active is in the end always swept, failures, stale SELECTs
\* and late done callbacks notwithstanding, and one that stays inactive is not, but by
\* sweeps that have lost their entry.
SweepsFollowRows ==
  \A e \in Endpoints : /\ <>[](e \in active) => <>[](sweeping[e] # {})
                       /\ <>[](e \notin active) => <>[](sweeping[e] \subseteq stray[e])

-----------------------------------------------------------------------------
(* The inductive strengthening: a sweep that goes on is the registry's or a  *)
(* stray, none that is ending, and the numbers of sweeps are used once.      *)

Registered ==
  \A e \in Endpoints :
    /\ sweeping[e] \subseteq stray[e] \cup ({running[e]} \ {0})
    /\ running[e] # 0 => e \in known
    /\ ending[e] \cap sweeping[e] = {}
    /\ \A n \in ending[e] \cup sweeping[e] : n <= spawned[e]

=============================================================================
