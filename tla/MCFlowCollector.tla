--------------------------- MODULE MCFlowCollector --------------------------
(* A NetFlow source n and an IPFIX source x; templates and data in any order. *)
EXTENDS FlowCollector

CONSTANTS n, x

T(tid, layout) == [is |-> "template", tid |-> tid, layout |-> layout]
D(tid, count) == [is |-> "data", tid |-> tid, n |-> count]

MCDatagrams ==
  [src : {n}, sets : {<<T(1, "plain")>>, <<T(2, "plain")>>, <<D(1, 1), D(2, 2)>>, <<D(1, 1)>>}]
  \cup [src : {x}, sets : {<<T(1, "empty")>>, <<D(1, 2), T(1, "plain")>>,
                           <<T(1, "variable"), D(1, 1)>>}]
  \cup {[src |-> x, sets |-> <<[is |-> "v5", n |-> 2]>>]}
=============================================================================
