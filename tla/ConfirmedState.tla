--------------------------- MODULE ConfirmedState ---------------------------
(***************************************************************************)
(* What StateMachine promises about one endpoint, without rows, entries or *)
(* tasks: the first observation is taken as it is, and from then on the    *)
(* state changes exactly when Threshold observations in a row agree on     *)
(* another one.  A restart forgets the observations, never the state.      *)
(***************************************************************************)
EXTENDS Naturals

CONSTANTS Classes, None, Threshold

VARIABLES
  conf,  \* the confirmed state, None before the first observation
  run    \* the latest observation and how often in a row it was made

Unobserved == [det |-> None, len |-> 0]

\* Counting stops at Threshold.
Longer(c) ==
  IF run.det # c THEN [det |-> c, len |-> 1]
  ELSE IF run.len < Threshold THEN [run EXCEPT !.len = @ + 1] ELSE run

Init == conf = None /\ run = Unobserved

Observe(c) ==
  /\ run' = Longer(c)
  /\ conf' = IF conf = None \/ Longer(c).len >= Threshold THEN c ELSE conf

Forget == run' = Unobserved /\ UNCHANGED conf

Next == Forget \/ \E c \in Classes : Observe(c)

Spec == Init /\ [][Next]_<<conf, run>>
=============================================================================
