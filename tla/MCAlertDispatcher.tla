-------------------------- MODULE MCAlertDispatcher --------------------------
(***************************************************************************)
(* An instance of AlertDispatcher for TLC: a parent with one child, and a  *)
(* channel that does not want to hear of the child's recoveries beside one *)
(* that wants everything.                                                  *)
(***************************************************************************)
EXTENDS AlertDispatcher, TLC

CONSTANTS root, child, channel

\* The child's manual parent.
OneParent == child :> root

\* What the filters of each channel let pass.
Filters ==
  [ch \in Channels |->
     {k \in Endpoints \X States : ch = channel => k # <<child, "UP">>}]
=============================================================================
